-------------------------- MODULE BackOfficeProofs --------------------------
(***************************************************************************)
(* Proofs about the shared services: approvals and their outcome           *)
(* (Approvals), change requests (ChangeRequests), the task scheduler       *)
(* (Scheduler), period snapshots (Snapshots), the record cache             *)
(* (RecordCache) and public intake (Intake), each for every value of its   *)
(* constants.                                                              *)
(***************************************************************************)
EXTENDS Approvals, ChangeRequests, Scheduler, Snapshots, RecordCache, Intake,
        FiniteSetTheorems, SequenceTheorems, TLAPS

-----------------------------------------------------------------------------
(***************************************************************************)
(* No transition without its approvals, for any number of users, roles,    *)
(* steps, requests and tasks deciding at once. The property is about       *)
(* transitions that were applied; the invariant follows the approvals to   *)
(* them: the steps before the one a request or a task is at have their     *)
(* quorum, a task that is past its count knows the quorum of its own step, *)
(* and a decision was made by a holder of the role other than the          *)
(* requester. Decisions are never taken back, so quorums only grow.        *)
(***************************************************************************)

\* The steps before s have their approvals.
Standing(q, s) == \A x \in Steps : x < s => Quorum(q, x)

RequestsListed == \E n \in Nat : DOMAIN requests = 1..n
FromHolders == \A d \in decisions : d.req \in DOMAIN requests /\ d.by \in Holders[d.step] \ {requests[d.req].by}
StepsStand == \A q \in DOMAIN requests : Standing(q, requests[q].step)
AppliedQuorate == \A q \in Asked : applied[q] > 0 => q \in DOMAIN requests /\ Quorate(q)
Paper == RequestsListed /\ FromHolders /\ StepsStand /\ AppliedQuorate

\* What a task knows of the request it decides on.
SignerKnows(t) ==
    LET c == signer[t]
    IN /\ c.at \in {"gate", "ask", "insert"} => c.by \in Members
       /\ c.at \in Deciding => c.req \in DOMAIN requests /\ Standing(c.req, c.step)
       /\ c.at = "vote" => c.by \in Holders[c.step] \ {requests[c.req].by}
       /\ c.at = "advance" => Quorum(c.req, c.step) /\ c.step + 1 \in Steps
       /\ c.at = "apply" => Quorum(c.req, c.step) /\ c.step = NumSteps

ApprovalInv == ApprovalTypeOK /\ Paper /\ \A t \in Tasks : SignerKnows(t)

LEMMA InvMeans == ApprovalInv => QuorumBeforeTransition
BY DEF ApprovalInv, ApprovalTypeOK, Paper, AppliedQuorate, QuorumBeforeTransition

-----------------------------------------------------------------------------
(* Counting *)

LEMMA ApprovingFinite ==
    ASSUME NEW q, NEW s
    PROVE  /\ IsFiniteSet(Approving(q, s)) /\ Cardinality(Approving(q, s)) \in Nat
           /\ IsFiniteSet(Approving(q, s)') /\ Cardinality(Approving(q, s)') \in Nat
<1>1. Approving(q, s) \subseteq Members /\ Approving(q, s)' \subseteq Members
  BY DEF Approving
<1> QED
  BY <1>1, ApprovalAssumption, FS_Subset, FS_CardinalityType

\* Decisions are only added: what had its quorum keeps it.
LEMMA QuorumGrows ==
    ASSUME decisions \subseteq decisions', NEW q, NEW s \in Steps, Quorum(q, s)
    PROVE  Quorum(q, s)'
<1>1. Approving(q, s) \subseteq Approving(q, s)'
  BY DEF Approving
<1>2. Cardinality(Approving(q, s)) <= Cardinality(Approving(q, s)')
  BY <1>1, ApprovingFinite, FS_Subset
<1>3. Quota[s] \in Nat
  BY ApprovalAssumption
<1> QED
  BY <1>2, <1>3, ApprovingFinite DEF Quorum

LEMMA StandingGrows ==
    ASSUME decisions \subseteq decisions', NEW q, NEW s, Standing(q, s)
    PROVE  Standing(q, s)'
BY QuorumGrows DEF Standing

\* The rows counted by decide are as many as the members who approved.
LEMMA RowsAreMembers ==
    ASSUME ApprovalTypeOK, NEW q, NEW s \in Steps
    PROVE  IsFiniteSet(ApprovalsSoFar(q, s))
           /\ Cardinality(ApprovalsSoFar(q, s)) <= Cardinality(Approving(q, s))
<1> DEFINE who == [d \in ApprovalsSoFar(q, s) |-> d.by]
<1>1. \A d \in ApprovalsSoFar(q, s) :
          d = [req |-> q, step |-> s, by |-> d.by, approve |-> TRUE] /\ d.by \in Approving(q, s)
  BY DEF ApprovalsSoFar, Approving, ApprovalTypeOK, Decisions
<1>2. who \in Injection(ApprovalsSoFar(q, s), Approving(q, s))
  BY <1>1 DEF Injection, IsInjective
<1> QED
  BY <1>2, ApprovingFinite, FS_Injection

-----------------------------------------------------------------------------
(* Types *)

Positions == {"idle", "gate", "move", "ask", "insert"} \cup Deciding

LEMMA AtRestTypes == AtRest \in Signers
BY ApprovalAssumption DEF AtRest, Signers, Asked, Steps, Stages

\* Go moves one task and leaves its errand as it is, or takes it back.
LEMMA GoMeans ==
    ASSUME signer \in [Tasks -> Signers], NEW t \in Tasks, NEW p \in Positions, Go(t, p)
    PROVE  /\ signer' \in [Tasks -> Signers]
           /\ \A u \in Tasks \ {t} : signer'[u] = signer[u]
           /\ signer'[t].at = p
           /\ p # "idle" => /\ signer'[t].by = signer[t].by /\ signer'[t].req = signer[t].req
                            /\ signer'[t].step = signer[t].step
<1>1. signer[t] \in Signers
  OBVIOUS
<1>2. [signer[t] EXCEPT !.at = p] \in Signers
  BY <1>1 DEF Signers, Positions
<1>3. signer' = [signer EXCEPT ![t] = IF p = "idle" THEN AtRest ELSE [signer[t] EXCEPT !.at = p]]
  BY DEF Go
<1>4. signer' \in [Tasks -> Signers]
  BY <1>2, <1>3, AtRestTypes
<1>5. CASE p = "idle"
  BY <1>3, <1>4, <1>5 DEF AtRest
<1>6. CASE p # "idle"
  <2>1. signer'[t] = [signer[t] EXCEPT !.at = p]
    BY <1>3, <1>6
  <2> QED
    BY <1>1, <1>3, <1>4, <1>6, <2>1 DEF Signers
<1> QED
  BY <1>5, <1>6

LEMMA InitInv == ApprovalInit => ApprovalInv
<1> SUFFICES ASSUME ApprovalInit PROVE ApprovalInv
  OBVIOUS
<1>1. ApprovalTypeOK
  BY AtRestTypes DEF ApprovalInit, ApprovalTypeOK, Stages
<1>2. Paper
  <2>1. DOMAIN requests = {} /\ decisions = {} /\ applied = [q \in Asked |-> 0]
    BY DEF ApprovalInit
  <2>2. RequestsListed
    <3>1. DOMAIN requests = 1..0
      BY <2>1
    <3> QED
      BY <3>1 DEF RequestsListed
  <2>3. FromHolders
    BY <2>1 DEF FromHolders
  <2>4. StepsStand
    BY <2>1 DEF StepsStand
  <2>5. AppliedQuorate
    <3>1. \A q \in Asked : ~(applied[q] > 0)
      BY <2>1
    <3> QED
      BY <3>1 DEF AppliedQuorate
  <2> QED
    BY <2>2, <2>3, <2>4, <2>5 DEF Paper
<1>3. \A t \in Tasks : SignerKnows(t)
  BY DEF ApprovalInit, SignerKnows, AtRest, Deciding
<1> QED
  BY <1>1, <1>2, <1>3 DEF ApprovalInv

LEMMA TypeStep ==
    ASSUME ApprovalInv, [ApprovalNext]_approvalVars
    PROVE  ApprovalTypeOK'
<1> USE DEF ApprovalInv, ApprovalTypeOK, watched, paper, Lapse
<1>1. ASSUME NEW t \in Tasks, change_contact_status(t) PROVE ApprovalTypeOK'
  <2> PICK b \in Buttons, m \in Members :
             signer' = [signer EXCEPT ![t] =
                           IF b = Gated THEN [AtRest EXCEPT !.at = "gate", !.by = m, !.to = b[2]]
                           ELSE [AtRest EXCEPT !.at = "move", !.to = b[2]]]
    BY <1>1 DEF change_contact_status
  <2>1. b[2] \in Stages
    BY DEF Buttons, Stages, Gated
  <2>2. /\ [AtRest EXCEPT !.at = "gate", !.by = m, !.to = b[2]] \in Signers
        /\ [AtRest EXCEPT !.at = "move", !.to = b[2]] \in Signers
    BY <2>1, AtRestTypes DEF Signers
  <2> QED
    BY <1>1, <2>2 DEF change_contact_status
<1>2. ASSUME NEW t \in Tasks, requires_approval(t) PROVE ApprovalTypeOK'
  <2>1. signer' \in [Tasks -> Signers]
    BY <1>2, GoMeans DEF requires_approval, Positions
  <2>2. lapses' \in Nat /\ contested' = contested /\ halved' = halved
    BY <1>2 DEF requires_approval
  <2>3. bypassed' = bypassed \/ bypassed' = TRUE
    BY <1>2 DEF requires_approval
  <2>4. bypassed' \in BOOLEAN
    BY <2>3
  <2> QED
    BY <1>2, <2>1, <2>2, <2>4 DEF requires_approval
<1>3. ASSUME NEW t \in Tasks, MoveRecord(t) PROVE ApprovalTypeOK'
  <2>1. signer[t].to \in Stages
    BY DEF Signers
  <2> QED
    BY <1>3, <2>1, GoMeans DEF MoveRecord, Positions
<1>4. ASSUME NEW t \in Tasks, create_request(t) PROVE ApprovalTypeOK'
  BY <1>4, GoMeans DEF create_request, Positions
<1>5. ASSUME NEW t \in Tasks, InsertRequest_(t) PROVE ApprovalTypeOK'
  <2>1. [by |-> signer[t].by, step |-> 1, status |-> "pending"] \in Requests
    BY <1>5, ApprovalAssumption DEF InsertRequest_, At_, SignerKnows, Requests, Steps
  <2> QED
    BY <1>5, <2>1, GoMeans DEF InsertRequest_, Positions
<1>6. ASSUME NEW t \in Tasks, NEW q \in DOMAIN requests, decide(t, q) PROVE ApprovalTypeOK'
  <2> PICK m \in Members, yes \in BOOLEAN :
             signer' = [signer EXCEPT ![t] = [AtRest EXCEPT !.at = "vote", !.by = m, !.req = q,
                                                          !.step = requests[q].step, !.approve = yes]]
    BY <1>6 DEF decide
  <2>1. requests[q].step \in Steps /\ q \in Asked
    BY DEF Requests
  <2>2. [AtRest EXCEPT !.at = "vote", !.by = m, !.req = q,
                       !.step = requests[q].step, !.approve = yes] \in Signers
    BY <2>1 DEF AtRest, Signers, Stages, Deciding
  <2> QED
    BY <1>6, <2>1, <2>2 DEF decide
<1>7. ASSUME NEW t \in Tasks, Vote(t) PROVE ApprovalTypeOK'
  <2>1. signer[t] \in Signers
    OBVIOUS
  <2>2. signer[t].by \in Members
    BY <1>7, ApprovalAssumption, <2>1 DEF Vote, At_, SignerKnows, Deciding, Signers
  <2>3. decisions' \subseteq Decisions
    BY <1>7, <2>1, <2>2 DEF Vote, Decisions, Signers
  <2> QED
    BY <1>7, <2>3, GoMeans DEF Vote, Positions, Deciding
<1>8. ASSUME NEW t \in Tasks, RejectRequest(t) PROVE ApprovalTypeOK'
  BY <1>8, GoMeans DEF RejectRequest, Positions, Requests
<1>9. ASSUME NEW t \in Tasks, CountApprovals(t) PROVE ApprovalTypeOK'
  BY <1>9, GoMeans DEF CountApprovals, Positions, Deciding
<1>10. ASSUME NEW t \in Tasks, Advance(t) PROVE ApprovalTypeOK'
  <2>1. signer[t].step + 1 \in Steps
    BY <1>10 DEF Advance, At_, SignerKnows
  <2> QED
    BY <1>10, <2>1, GoMeans DEF Advance, Positions, Requests
<1>11. ASSUME NEW t \in Tasks, apply_transition(t) PROVE ApprovalTypeOK'
  <2>1. signer[t].req \in Asked
    BY DEF Signers
  <2>2. signer' \in [Tasks -> Signers]
    BY <1>11, GoMeans DEF apply_transition, Positions, Deciding
  <2>3. stage' \in Stages /\ applied' \in [Asked -> Nat]
    BY <1>11, <2>1 DEF apply_transition, Stages, Gated
  <2>4. lapses' \in Nat /\ bypassed' = bypassed /\ contested' \cup halved' \subseteq Asked
    BY <1>11, <2>1 DEF apply_transition
  <2> QED
    BY <1>11, <2>2, <2>3, <2>4 DEF apply_transition
<1>12. ASSUME NEW t \in Tasks, Resolve(t) PROVE ApprovalTypeOK'
  BY <1>12, GoMeans DEF Resolve, Positions, Requests
<1>13. ASSUME NEW t \in Tasks, LoseTask(t) PROVE ApprovalTypeOK'
  <2>1. signer[t].req \in Asked
    BY DEF Signers
  <2>2. signer' \in [Tasks -> Signers]
    BY <1>13, GoMeans DEF LoseTask, Positions
  <2>3. lapses' \in Nat /\ bypassed' = bypassed /\ contested' \cup halved' \subseteq Asked
    BY <1>13, <2>1 DEF LoseTask
  <2> QED
    BY <1>13, <2>2, <2>3 DEF LoseTask
<1>14. CASE UNCHANGED approvalVars
  BY <1>14 DEF approvalVars
<1> QED
  BY <1>1, <1>2, <1>3, <1>4, <1>5, <1>6, <1>7, <1>8, <1>9, <1>10, <1>11, <1>12, <1>13, <1>14
  DEF ApprovalNext

-----------------------------------------------------------------------------
(* The papers and the desks *)

\* Steps that leave the papers alone leave what is said of them alone.
LEMMA PaperStays ==
    ASSUME Paper, UNCHANGED paper
    PROVE  Paper'
BY DEF Paper, paper, RequestsListed, FromHolders, StepsStand, Standing, AppliedQuorate, Quorate, Quorum, Approving

\* What a task knows stays true while others add decisions and requests and
\* move requests on.
LEMMA DeskStays ==
    ASSUME ApprovalInv, NEW t \in Tasks, signer'[t] = signer[t], decisions \subseteq decisions',
           DOMAIN requests \subseteq DOMAIN requests',
           \A q \in DOMAIN requests : requests'[q].by = requests[q].by
    PROVE  SignerKnows(t)'
<1>1. SignerKnows(t) /\ signer[t].step \in Nat /\ signer[t].step \in Steps
  BY DEF ApprovalInv, ApprovalTypeOK, Signers, Steps
<1>2. signer[t].at \in Deciding => Standing(signer[t].req, signer[t].step)'
  BY <1>1, StandingGrows DEF SignerKnows
<1>3. Quorum(signer[t].req, signer[t].step) => Quorum(signer[t].req, signer[t].step)'
  BY <1>1, QuorumGrows
<1>4. signer[t].at = "vote" => signer[t].at \in Deciding
  BY DEF Deciding
<1> QED
  BY <1>1, <1>2, <1>3, <1>4 DEF SignerKnows, Standing

\* A task at rest, or on its way to the record, knows nothing.
LEMMA RestDesk ==
    ASSUME NEW t \in Tasks, signer'[t].at \in {"idle", "move"}
    PROVE  SignerKnows(t)'
BY DEF SignerKnows, Deciding

\* Only the status and the step of requests change, to a step that stands:
\* the papers stay in order.
LEMMA PaperMoves ==
    ASSUME ApprovalInv, decisions' = decisions, applied' = applied,
           DOMAIN requests' = DOMAIN requests,
           \A q \in DOMAIN requests : requests'[q].by = requests[q].by /\ Standing(q, requests'[q].step)
    PROVE  Paper'
<1> USE DEF ApprovalInv, Paper
<1>1. RequestsListed' /\ FromHolders'
  BY DEF RequestsListed, FromHolders
<1>2. \A q, s : Approving(q, s)' = Approving(q, s)
  BY DEF Approving
<1>3. StepsStand'
  BY <1>2 DEF StepsStand, Standing, Quorum
<1>4. AppliedQuorate'
  BY <1>2 DEF AppliedQuorate, Quorate, Quorum
<1> QED
  BY <1>1, <1>3, <1>4

LEMMA PaperStep ==
    ASSUME ApprovalInv, [ApprovalNext]_approvalVars
    PROVE  Paper'
<1> USE DEF ApprovalInv, ApprovalTypeOK
<1>1. ASSUME UNCHANGED paper PROVE Paper'
  BY <1>1, PaperStays
<1>2. ASSUME NEW t \in Tasks, InsertRequest_(t) PROVE Paper'
  <2> PICK n \in Nat : DOMAIN requests = 1..n
    BY DEF Paper, RequestsListed
  <2> DEFINE new == n + 1
  <2>1. Cardinality(DOMAIN requests) + 1 = new
    BY SMTT(60), FS_Interval
  <2>2. /\ DOMAIN requests' = 1..new /\ new \notin DOMAIN requests
        /\ \A q \in DOMAIN requests : requests'[q] = requests[q]
        /\ requests'[new].step = 1
        /\ decisions' = decisions /\ applied' = applied
    BY <1>2, <2>1 DEF InsertRequest_
  <2> HIDE DEF new
  <2>3. \A q, s : Approving(q, s)' = Approving(q, s)
    BY <2>2 DEF Approving
  <2>4. RequestsListed'
    BY <2>2 DEF RequestsListed, new
  <2>5. FromHolders' /\ DOMAIN requests \subseteq DOMAIN requests'
    BY <2>2 DEF Paper, FromHolders, new
  <2>6. StepsStand'
    BY SMTT(60), <2>2, <2>3 DEF Paper, StepsStand, Standing, Quorum, Steps, new
  <2>7. AppliedQuorate'
    BY <2>2, <2>3, <2>5 DEF Paper, AppliedQuorate, Quorate, Quorum
  <2> QED
    BY <2>4, <2>5, <2>6, <2>7 DEF Paper
<1>3. ASSUME NEW t \in Tasks, Vote(t) PROVE Paper'
  <2>1. /\ decisions \subseteq decisions' /\ requests' = requests /\ applied' = applied
    BY <1>3 DEF Vote
  <2>2. FromHolders'
    BY <1>3 DEF Vote, At_, SignerKnows, Deciding, Paper, FromHolders
  <2>3. StepsStand'
    BY <2>1, StandingGrows DEF Paper, StepsStand
  <2>4. \A q, s : Approving(q, s)' \subseteq Holders[s] \ {requests[q].by}
    BY <2>1, <2>2 DEF Approving, FromHolders
  <2>5. AppliedQuorate'
    BY <2>1, <2>4, QuorumGrows DEF Paper, AppliedQuorate, Quorate
  <2> QED
    BY <2>1, <2>2, <2>3, <2>5 DEF Paper, RequestsListed
<1>4. ASSUME NEW t \in Tasks, RejectRequest(t) \/ Resolve(t) PROVE Paper'
  <2>1. /\ decisions' = decisions /\ applied' = applied /\ DOMAIN requests' = DOMAIN requests
        /\ \A q \in DOMAIN requests : requests'[q].by = requests[q].by /\ requests'[q].step = requests[q].step
    BY <1>4 DEF RejectRequest, Resolve, Requests
  <2>2. \A q \in DOMAIN requests : Standing(q, requests'[q].step)
    BY <2>1 DEF Paper, StepsStand
  <2> QED
    BY <2>1, <2>2, PaperMoves
<1>5. ASSUME NEW t \in Tasks, Advance(t) PROVE Paper'
  <2> DEFINE c == signer[t]
  <2>1. /\ c.req \in DOMAIN requests /\ c.step \in Steps /\ Standing(c.req, c.step) /\ Quorum(c.req, c.step)
    BY <1>5 DEF Advance, At_, SignerKnows, Deciding, Signers
  <2>2. Standing(c.req, c.step + 1)
    BY <2>1 DEF Standing, Steps
  <2>3. /\ DOMAIN requests' = DOMAIN requests /\ decisions' = decisions /\ applied' = applied
        /\ \A q \in DOMAIN requests : requests'[q].by = requests[q].by
        /\ requests'[c.req].step = c.step + 1
        /\ \A q \in DOMAIN requests \ {c.req} : requests'[q] = requests[q]
    BY <1>5, <2>1 DEF Advance, Requests
  <2>4. \A q \in DOMAIN requests : Standing(q, requests'[q].step)
    BY <2>2, <2>3 DEF Paper, StepsStand
  <2> QED
    BY <2>3, <2>4, PaperMoves
<1>6. ASSUME NEW t \in Tasks, apply_transition(t) PROVE Paper'
  <2> DEFINE r == signer[t].req
  <2>1. r \in DOMAIN requests /\ Standing(r, NumSteps) /\ Quorum(r, NumSteps)
    BY <1>6 DEF apply_transition, At_, SignerKnows, Deciding
  <2>2. \A s \in Steps : Quorum(r, s)
    BY <2>1, ApprovalAssumption DEF Standing, Steps
  <2>3. \A s \in Steps : Approving(r, s) \subseteq Holders[s] \ {requests[r].by}
    BY DEF Paper, FromHolders, Approving
  <2>4. /\ requests' = requests /\ decisions' = decisions
        /\ \A q \in Asked \ {r} : applied'[q] = applied[q]
    BY <1>6 DEF apply_transition
  <2>5. \A q, s : Approving(q, s)' = Approving(q, s)
    BY <2>4 DEF Approving
  <2>6. AppliedQuorate'
    BY <2>1, <2>2, <2>3, <2>4, <2>5 DEF Paper, AppliedQuorate, Quorate, Quorum
  <2>7. RequestsListed' /\ FromHolders' /\ StepsStand'
    BY <2>4, <2>5 DEF Paper, RequestsListed, FromHolders, StepsStand, Standing, Quorum
  <2> QED
    BY <2>6, <2>7 DEF Paper
<1>7. ASSUME NEW t \in Tasks,
             \/ change_contact_status(t) \/ requires_approval(t) \/ MoveRecord(t) \/ create_request(t)
             \/ (\E q \in DOMAIN requests : decide(t, q)) \/ CountApprovals(t) \/ LoseTask(t)
      PROVE  UNCHANGED paper
  BY <1>7 DEF change_contact_status, requires_approval, MoveRecord, create_request, decide, CountApprovals,
              LoseTask, paper
<1>8. CASE UNCHANGED approvalVars
  BY <1>1, <1>8 DEF approvalVars, paper
<1> QED
  BY <1>1, <1>2, <1>3, <1>4, <1>5, <1>6, <1>7, <1>8 DEF ApprovalNext

\* Nobody loses a request, its requester or a decision.
LEMMA PapersAreKept ==
    ASSUME ApprovalInv, [ApprovalNext]_approvalVars
    PROVE  /\ decisions \subseteq decisions' /\ DOMAIN requests \subseteq DOMAIN requests'
           /\ \A q \in DOMAIN requests : requests'[q].by = requests[q].by
<1> USE DEF ApprovalInv, ApprovalTypeOK
<1>1. ASSUME NEW t \in Tasks, InsertRequest_(t)
      PROVE  \A q \in DOMAIN requests : requests'[q] = requests[q]
  <2> PICK n \in Nat : DOMAIN requests = 1..n
    BY DEF Paper, RequestsListed
  <2>1. Cardinality(DOMAIN requests) + 1 = n + 1
    BY SMTT(60), FS_Interval
  <2> QED
    BY <1>1, <2>1 DEF InsertRequest_
<1>2. ASSUME NEW t \in Tasks, RejectRequest(t) \/ Resolve(t) \/ Advance(t)
      PROVE  \A q \in DOMAIN requests : requests'[q].by = requests[q].by
  BY <1>2 DEF RejectRequest, Resolve, Advance, Requests
<1> QED
  BY <1>1, <1>2
  DEF ApprovalNext, approvalVars, paper, change_contact_status, requires_approval, MoveRecord, create_request,
      InsertRequest_, decide, Vote, RejectRequest, CountApprovals, Advance, apply_transition, Resolve, LoseTask

LEMMA SignerStep ==
    ASSUME ApprovalInv, [ApprovalNext]_approvalVars, NEW u \in Tasks
    PROVE  SignerKnows(u)'
<1> USE DEF ApprovalInv, ApprovalTypeOK
<1>0. signer'[u] = signer[u] => SignerKnows(u)'
  BY DeskStays, PapersAreKept
<1>1. ASSUME NEW t \in Tasks, change_contact_status(t) PROVE SignerKnows(u)'
  <2>1. u = t => signer'[u].at \in {"gate", "move"} /\ (signer'[u].at = "gate" => signer'[u].by \in Members)
    BY <1>1 DEF change_contact_status, AtRest
  <2>2. u # t => signer'[u] = signer[u]
    BY <1>1 DEF change_contact_status
  <2> QED
    BY <1>0, <2>1, <2>2 DEF SignerKnows, Deciding
<1>2. ASSUME NEW t \in Tasks, requires_approval(t) PROVE SignerKnows(u)'
  <2>1. u = t => signer'[u].at \in {"ask", "move"} /\ signer'[u].by = signer[u].by
    BY <1>2, GoMeans DEF requires_approval, Positions, Signers
  <2>2. u # t => signer'[u] = signer[u]
    BY <1>2, GoMeans DEF requires_approval, Positions
  <2> QED
    BY <1>0, <1>2, <2>1, <2>2 DEF SignerKnows, Deciding, requires_approval, At_
<1>3. ASSUME NEW t \in Tasks, Go(t, "idle") PROVE SignerKnows(u)'
  <2>1. u = t => signer'[u].at = "idle"
    BY <1>3, GoMeans DEF Positions, AtRest
  <2>2. u # t => signer'[u] = signer[u]
    BY <1>3, GoMeans DEF Positions
  <2> QED
    BY <1>0, <2>1, <2>2, RestDesk
<1>4. ASSUME NEW t \in Tasks, create_request(t) PROVE SignerKnows(u)'
  <2>1. u = t => signer'[u].at \in {"idle", "insert"} /\ (signer'[u].at = "insert" => signer'[u].by = signer[u].by)
    BY <1>4, GoMeans DEF create_request, Positions, Signers, AtRest
  <2>2. u # t => signer'[u] = signer[u]
    BY <1>4, GoMeans DEF create_request, Positions
  <2> QED
    BY <1>0, <1>4, <2>1, <2>2 DEF SignerKnows, Deciding, create_request, At_
<1>5. ASSUME NEW t \in Tasks, NEW q \in DOMAIN requests, decide(t, q) PROVE SignerKnows(u)'
  <2>1. CASE u # t
    BY <1>0, <1>5, <2>1 DEF decide
  <2>2. CASE u = t
    <3>1. /\ signer'[u].at = "vote" /\ signer'[u].req = q /\ signer'[u].step = requests[q].step
          /\ signer'[u].by \in Holders[requests[q].step] \ {requests[q].by}
      BY <1>5, <2>2 DEF decide, eligible_to_decide, AtRest
    <3>2. requests' = requests /\ decisions' = decisions
      BY <1>5 DEF decide, paper
    <3>3. Standing(q, requests[q].step)'
      BY <3>2, StandingGrows DEF Paper, StepsStand
    <3> QED
      BY <3>1, <3>2, <3>3 DEF SignerKnows, Deciding, Standing
  <2> QED
    BY <2>1, <2>2
<1>6. ASSUME NEW t \in Tasks, NEW p \in {"count", "reject", "resolve"}, Go(t, p), signer[t].at \in Deciding
      PROVE  SignerKnows(u)'
  <2>1. CASE u # t
    BY <1>0, <1>6, <2>1, GoMeans DEF Positions, Deciding
  <2>2. CASE u = t
    <3>1. signer'[u].at = p /\ signer'[u].req = signer[u].req /\ signer'[u].step = signer[u].step
      BY <1>6, <2>2, GoMeans DEF Positions, Deciding, Signers
    <3>2. signer[u].req \in DOMAIN requests /\ Standing(signer[u].req, signer[u].step)
      BY <1>6, <2>2 DEF SignerKnows
    <3>3. decisions \subseteq decisions' /\ DOMAIN requests \subseteq DOMAIN requests'
      BY PapersAreKept
    <3>4. \A q, s : Standing(q, s) => Standing(q, s)'
      BY ONLY <3>3, StandingGrows
    <3>5. Standing(signer[u].req, signer[u].step)'
      BY <3>1, <3>2, <3>4
    <3> QED
      BY <3>1, <3>2, <3>3, <3>5 DEF SignerKnows, Standing
  <2> QED
    BY <2>1, <2>2
<1>7. ASSUME NEW t \in Tasks, CountApprovals(t) PROVE SignerKnows(u)'
  <2> DEFINE c == signer[t]
  <2>1. CASE Cardinality(ApprovalsSoFar(c.req, c.step)) < Quota[c.step]
    BY <1>3, <1>7, <2>1 DEF CountApprovals
  <2>2. CASE u # t
    BY <1>0, <1>7, <2>2, GoMeans DEF CountApprovals, Positions, Deciding
  <2>3. CASE u = t /\ ~(Cardinality(ApprovalsSoFar(c.req, c.step)) < Quota[c.step])
    <3>1. c.step \in Steps /\ c.step \in 1..NumSteps /\ NumSteps \in Nat /\ Quota[c.step] \in Nat
      BY ApprovalAssumption DEF Signers, Steps
    <3>2. Quorum(c.req, c.step)
      <4>1. IsFiniteSet(ApprovalsSoFar(c.req, c.step))
            /\ Cardinality(ApprovalsSoFar(c.req, c.step)) <= Cardinality(Approving(c.req, c.step))
        BY <3>1, RowsAreMembers
      <4> QED
        BY <2>3, <3>1, <4>1, ApprovingFinite, FS_CardinalityType DEF Quorum
    <3>3. c.step + 1 \in Steps \/ c.step = NumSteps
      BY <3>1 DEF Steps
    <3>4. LET p == IF c.step + 1 \in Steps THEN "advance" ELSE "apply"
          IN signer'[u].at = p /\ signer'[u].req = c.req /\ signer'[u].step = c.step
      BY <1>7, <2>3, GoMeans DEF CountApprovals, Positions, Deciding, Signers
    <3>5. requests' = requests /\ decisions' = decisions /\ c.req \in DOMAIN requests /\ Standing(c.req, c.step)
      BY <1>7 DEF CountApprovals, paper, At_, SignerKnows, Deciding
    <3>6. \A q, s : Approving(q, s)' = Approving(q, s)
      BY <3>5 DEF Approving
    <3> QED
      BY <3>2, <3>3, <3>4, <3>5, <3>6 DEF SignerKnows, Standing, Quorum, Deciding
  <2> QED
    BY <2>1, <2>2, <2>3
<1>8. CASE UNCHANGED approvalVars
  BY <1>0, <1>8 DEF approvalVars
<1> QED
  BY <1>1, <1>2, <1>3, <1>4, <1>5, <1>6, <1>7, <1>8
  DEF ApprovalNext, MoveRecord, InsertRequest_, Vote, RejectRequest, Advance, apply_transition, Resolve, LoseTask,
      At_, Deciding

-----------------------------------------------------------------------------

LEMMA InvStep == ApprovalInv /\ [ApprovalNext]_approvalVars => ApprovalInv'
BY TypeStep, PaperStep, SignerStep DEF ApprovalInv

\* decide and apply_transition: a transition is applied only when every step
\* had its approvals, each by a holder of its role who did not ask for it.
THEOREM NothingWithoutAQuorum == ApprovalSpec => []QuorumBeforeTransition
BY InitInv, InvStep, InvMeans, PTL DEF ApprovalSpec

\* The types, from the same invariant.
THEOREM ApprovalTypes == ApprovalSpec => []ApprovalTypeOK
<1>1. ApprovalInv => ApprovalTypeOK
  BY DEF ApprovalInv
<1> QED
  BY InitInv, InvStep, <1>1, PTL DEF ApprovalSpec

-----------------------------------------------------------------------------
(***************************************************************************)
(* The outcome of a request for approval is what its decisions say,        *)
(* whichever tasks decide at once (Approvals).                             *)
(***************************************************************************)

Decides(t, q) == signer[t].at \in Deciding /\ signer[t].req = q
Rejected(q) == \E d \in decisions : d.req = q /\ ~d.approve
About(q) == {d \in decisions : d.req = q}

\* What the table holds of a request nobody is deciding on.
Outcome(q) ==
    /\ applied[q] = (IF requests[q].status = "approved" THEN 1 ELSE 0)
    /\ Rejected(q) <=> requests[q].status = "rejected"
    /\ requests[q].status = "pending" => ~Quorum(q, requests[q].step)

\* And of one that t is deciding on.
Decision(t, q) ==
    LET c == signer[t]
    IN /\ requests[q].status = "pending" /\ c.step = requests[q].step
       /\ applied[q] = (IF c.at = "resolve" THEN 1 ELSE 0)
       /\ Rejected(q) <=> c.at = "reject"
       /\ c.at = "vote" => /\ ~Quorum(q, c.step)
                           /\ \A d \in About(q) : ~(d.step = c.step /\ d.by = c.by)

Followed(q) ==
    q \notin contested \cup halved =>
        /\ \A t, u \in Tasks : Decides(t, q) /\ Decides(u, q) => t = u
        /\ (\A t \in Tasks : ~Decides(t, q)) => Outcome(q)
        /\ \A t \in Tasks : Decides(t, q) => Decision(t, q)
        /\ requests[q].status = "pending" => \A d \in About(q) : d.step <= requests[q].step

OutcomeInv == ApprovalInv /\ \A q \in DOMAIN requests : Followed(q)

LEMMA OutcomeInvMeans == OutcomeInv => OutcomeIsTheDecision
BY DEF OutcomeInv, Followed, Outcome, Decides, Rejected, OutcomeIsTheDecision

\* The rows counted are exactly the members who approved.
LEMMA MembersAreRows ==
    ASSUME ApprovalTypeOK, NEW q, NEW s \in Steps
    PROVE  Cardinality(Approving(q, s)) <= Cardinality(ApprovalsSoFar(q, s))
<1> DEFINE rec == [m \in Approving(q, s) |-> CHOOSE d \in ApprovalsSoFar(q, s) : d.by = m]
<1>1. \A m \in Approving(q, s) : \E d \in ApprovalsSoFar(q, s) : d.by = m
  BY DEF ApprovalsSoFar, Approving
<1>2. \A m \in Approving(q, s) : rec[m] \in ApprovalsSoFar(q, s) /\ rec[m].by = m
  BY <1>1
<1> HIDE DEF rec
<1>3. rec \in [Approving(q, s) -> ApprovalsSoFar(q, s)]
  BY <1>1 DEF rec
<1>4. rec \in Injection(Approving(q, s), ApprovalsSoFar(q, s))
  BY <1>2, <1>3 DEF Injection, IsInjective
<1> QED
  BY <1>4, RowsAreMembers, FS_Injection

\* A step that works on another request.
LEMMA FollowedStays ==
    ASSUME NEW q, Followed(q), requests'[q] = requests[q], applied'[q] = applied[q], About(q)' = About(q),
           contested \subseteq contested', halved \subseteq halved',
           \A t \in Tasks : signer'[t] = signer[t] \/ (~Decides(t, q) /\ ~Decides(t, q)')
    PROVE  Followed(q)'
<1>1. \A t \in Tasks : Decides(t, q)' <=> Decides(t, q)
  BY DEF Decides
<1>2. Rejected(q)' <=> Rejected(q)
  <2>1. Rejected(q) <=> \E d \in About(q) : ~d.approve
    BY DEF Rejected, About
  <2>2. Rejected(q)' <=> \E d \in About(q)' : ~d.approve
    BY DEF Rejected, About
  <2> QED
    BY <2>1, <2>2
<1>3. \A s : Quorum(q, s)' <=> Quorum(q, s)
  <2>1. \A s : Approving(q, s) = {m \in Members : \E d \in About(q) : d.step = s /\ d.by = m /\ d.approve}
    BY DEF Approving, About
  <2>2. \A s : Approving(q, s)' = {m \in Members : \E d \in About(q)' : d.step = s /\ d.by = m /\ d.approve}
    BY DEF Approving, About
  <2> QED
    BY <2>1, <2>2 DEF Quorum
<1>4. Outcome(q)' <=> Outcome(q)
  BY <1>2, <1>3 DEF Outcome
<1>5. ASSUME NEW t \in Tasks, Decides(t, q), Decision(t, q) PROVE Decision(t, q)'
  <2>1. signer'[t] = signer[t]
    BY <1>5
  <2> QED
    BY <1>2, <1>3, <1>5, <2>1 DEF Decision
<1> QED
  BY <1>1, <1>4, <1>5 DEF Followed

\* A step of t on request k that leaves everything else alone.
LEMMA OtherRequests ==
    ASSUME OutcomeInv, NEW t \in Tasks, NEW k, NEW q \in DOMAIN requests \ {k},
           \A u \in Tasks \ {t} : signer'[u] = signer[u],
           Decides(t, q) => q = k, Decides(t, q)' => q = k,
           requests'[q] = requests[q], applied'[q] = applied[q], About(q)' = About(q),
           contested \subseteq contested', halved \subseteq halved'
    PROVE  Followed(q)'
<1>1. Followed(q) /\ \A u \in Tasks : signer'[u] = signer[u] \/ (~Decides(u, q) /\ ~Decides(u, q)')
  BY DEF OutcomeInv
<1> QED
  BY <1>1, FollowedStays

\* The steps before a decision.
LEMMA AsideStep ==
    ASSUME OutcomeInv, NEW t \in Tasks,
           change_contact_status(t) \/ requires_approval(t) \/ MoveRecord(t) \/ create_request(t),
           NEW q \in DOMAIN requests
    PROVE  Followed(q)'
<1>1. signer \in [Tasks -> Signers] /\ UNCHANGED <<requests, decisions, applied, contested, halved>>
  BY DEF OutcomeInv, ApprovalInv, ApprovalTypeOK, change_contact_status, requires_approval, MoveRecord, create_request, paper, watched
<1>2. signer[t].at \notin Deciding /\ signer'[t].at \notin Deciding /\ \A u \in Tasks \ {t} : signer'[u] = signer[u]
  <2>1. CASE change_contact_status(t)
    <3>1. signer'[t].at \in {"gate", "move"} /\ \A u \in Tasks \ {t} : signer'[u] = signer[u]
      BY ZenonT(90), <1>1, <2>1 DEF change_contact_status, AtRest
    <3>2. signer[t].at = "idle"
      BY <2>1 DEF change_contact_status, At_
    <3> QED
      BY <3>1, <3>2 DEF Deciding
  <2>2. CASE requires_approval(t) \/ MoveRecord(t) \/ create_request(t)
    <3>1. PICK p \in {"ask", "move", "idle", "insert"} : Go(t, p)
      BY <2>2 DEF requires_approval, MoveRecord, create_request
    <3> QED
      BY <1>1, <2>2, <3>1, GoMeans DEF requires_approval, MoveRecord, create_request, At_, Deciding, Positions
  <2> QED
    BY <2>1, <2>2
<1> QED
  BY <1>1, <1>2, FollowedStays DEF Decides, OutcomeInv, About

LEMMA AskStep ==
    ASSUME OutcomeInv, NEW t \in Tasks, InsertRequest_(t), NEW q \in DOMAIN requests'
    PROVE  Followed(q)'
<1> USE DEF OutcomeInv, ApprovalInv
<1> PICK n \in Nat : DOMAIN requests = 1..n
  BY DEF Paper, RequestsListed
<1> DEFINE new == n + 1
<1>1. Cardinality(DOMAIN requests) + 1 = new
  BY SMTT(60), FS_Interval
<1>2. /\ DOMAIN requests' = DOMAIN requests \cup {new} /\ new \notin DOMAIN requests /\ new \in Asked
      /\ \A k \in DOMAIN requests : requests'[k] = requests[k]
      /\ requests'[new].step = 1 /\ requests'[new].status = "pending"
      /\ UNCHANGED <<decisions, applied, contested, halved>> /\ signer[t].at = "insert" /\ Go(t, "idle")
  BY <1>1 DEF InsertRequest_, watched, At_
<1>3. /\ signer \in [Tasks -> Signers] /\ signer'[t].at = "idle" /\ \A u \in Tasks \ {t} : signer'[u] = signer[u]
  BY <1>2, GoMeans DEF ApprovalTypeOK, Positions
<1> HIDE DEF new
<1>4. CASE q # new
  <2>1. Followed(q) /\ requests'[q] = requests[q] /\ About(q)' = About(q)
    BY <1>2, <1>4 DEF About
  <2>2. ~Decides(t, q) /\ ~Decides(t, q)'
    BY <1>2, <1>3 DEF Decides, Deciding
  <2> QED
    BY <1>2, <1>3, <2>1, <2>2, FollowedStays
<1>5. CASE q = new
  <2>1. \A d \in decisions : d.req # new
    BY <1>2 DEF Paper, FromHolders
  <2>2. \A u \in Tasks : ~Decides(u, new)'
    BY <1>2, <1>3 DEF Decides, SignerKnows, Deciding
  <2>3. applied[new] = 0
    BY <1>2 DEF Paper, AppliedQuorate, ApprovalTypeOK
  <2>4. ~Rejected(q)' /\ About(q)' = {}
    BY <2>1, <1>2, <1>5 DEF Rejected, About
  <2>5. ~Quorum(q, 1)'
    <3>1. Approving(q, 1)' = {}
      BY <2>1, <1>2, <1>5 DEF Approving
    <3>2. Quota[1] \in Nat \ {0}
      BY ApprovalAssumption DEF Steps
    <3>3. Cardinality({}) = 0
      BY FS_EmptySet
    <3>4. Cardinality(Approving(q, 1)') = 0
      BY <3>1, <3>3
    <3>5. ~(0 >= Quota[1])
      BY <3>2
    <3>6. Quorum(q, 1)' <=> Cardinality(Approving(q, 1)') >= Quota[1]
      BY DEF Quorum
    <3> QED
      BY <3>4, <3>5, <3>6
  <2>6. Outcome(q)'
    BY <1>2, <1>5, <2>3, <2>4, <2>5 DEF Outcome
  <2> QED
    BY <1>5, <2>2, <2>4, <2>6 DEF Followed
<1> QED
  BY <1>2, <1>4, <1>5

LEMMA DecideStep ==
    ASSUME OutcomeInv, NEW t \in Tasks, NEW k \in DOMAIN requests, decide(t, k), NEW q \in DOMAIN requests
    PROVE  Followed(q)'
<1> USE DEF OutcomeInv, ApprovalInv
<1> PICK m \in Members, yes \in BOOLEAN :
        /\ eligible_to_decide(m, k)
        /\ signer' = [signer EXCEPT ![t] = [AtRest EXCEPT !.at = "vote", !.by = m, !.req = k,
                                                         !.step = requests[k].step, !.approve = yes]]
  BY DEF decide
<1>1. /\ signer \in [Tasks -> Signers] /\ signer[t].at = "idle" /\ UNCHANGED <<requests, decisions, applied, halved>>
      /\ contested' = contested \cup (IF \E v \in Tasks \ {t} : Decides(v, k) THEN {k} ELSE {})
  BY DEF decide, At_, paper, ApprovalTypeOK, Decides
<1>2. /\ signer'[t].at = "vote" /\ signer'[t].req = k /\ signer'[t].step = requests[k].step /\ signer'[t].by = m
      /\ \A u \in Tasks \ {t} : signer'[u] = signer[u]
  BY <1>1 DEF AtRest
<1>3. ~Decides(t, q) /\ (Decides(t, q)' <=> q = k)
  BY <1>1, <1>2 DEF Decides, Deciding
<1>4. About(q)' = About(q) /\ contested \subseteq contested' /\ contested' \subseteq contested \cup {k}
  BY <1>1 DEF About
<1>5. CASE q # k
  BY <1>1, <1>2, <1>3, <1>4, <1>5, OtherRequests
<1>6. CASE q = k
  <2> SUFFICES ASSUME q \notin contested' \cup halved PROVE Followed(q)'
    BY <1>1 DEF Followed
  <2>1. \A u \in Tasks : ~Decides(u, q)
    BY <1>1, <1>3, <1>6
  <2>2. Outcome(q) /\ (requests[q].status = "pending" => \A d \in About(q) : d.step <= requests[q].step)
    BY <1>1, <2>1 DEF Followed
  <2>3. requests[q].status = "pending" /\ \A d \in About(q) : ~(d.step = requests[q].step /\ d.by = m)
    BY <1>6 DEF eligible_to_decide, About
  <2>4. \A u \in Tasks : Decides(u, q)' <=> u = t
    BY <2>1, <1>2, <1>3, <1>6 DEF Decides
  <2>5. (Rejected(q)' <=> Rejected(q)) /\ \A s : Quorum(q, s)' <=> Quorum(q, s)
    BY <1>1 DEF Rejected, Quorum, Approving
  <2>6. Decision(t, q)'
    BY <1>1, <1>2, <1>4, <1>6, <2>2, <2>3, <2>5 DEF Decision, Outcome
  <2> QED
    BY <1>1, <1>4, <2>2, <2>4, <2>6 DEF Followed
<1> QED
  BY <1>5, <1>6

\* What is known of the request a task is deciding on.
LEMMA DecisionKnown ==
    ASSUME OutcomeInv, NEW t \in Tasks, signer[t].at \in Deciding
    PROVE  /\ signer \in [Tasks -> Signers] /\ signer[t] \in Signers
           /\ signer[t].req \in DOMAIN requests /\ signer[t].req \in Asked /\ signer[t].step \in Steps
           /\ requests[signer[t].req] \in Requests
           /\ signer[t].req \notin contested \cup halved =>
                 /\ Decision(t, signer[t].req) /\ \A u \in Tasks : Decides(u, signer[t].req) <=> u = t
                 /\ \A d \in About(signer[t].req) : d.step <= requests[signer[t].req].step
<1>1. /\ signer \in [Tasks -> Signers] /\ signer[t] \in Signers
      /\ signer[t].req \in DOMAIN requests /\ signer[t].req \in Asked /\ signer[t].step \in Steps
      /\ requests[signer[t].req] \in Requests /\ Followed(signer[t].req) /\ Decides(t, signer[t].req)
  BY DEF OutcomeInv, ApprovalInv, ApprovalTypeOK, SignerKnows, Decides, Signers
<1> QED
  BY <1>1 DEF Followed, Decision

LEMMA VoteStep ==
    ASSUME OutcomeInv, NEW t \in Tasks, Vote(t), NEW q \in DOMAIN requests
    PROVE  Followed(q)'
<1> PICK k, s, m : k = signer[t].req /\ s = signer[t].step /\ m = signer[t].by
  OBVIOUS
<1>1. /\ signer[t].at = "vote" /\ signer[t].at \in Deciding /\ UNCHANGED <<requests, applied, contested, halved>>
      /\ signer[t].approve \in BOOLEAN
  BY DEF Vote, At_, Deciding, watched, OutcomeInv, ApprovalInv, ApprovalTypeOK, Signers
<1>2. /\ signer \in [Tasks -> Signers] /\ k \in DOMAIN requests /\ s \in Steps
      /\ k \notin contested \cup halved => /\ Decision(t, k) /\ \A u \in Tasks : Decides(u, k) <=> u = t
                                          /\ \A d \in About(k) : d.step <= requests[k].step
  BY <1>1, DecisionKnown
<1>3. \/ decisions' = decisions /\ Go(t, "idle") /\ \E d \in About(k) : d.step = s /\ d.by = m
      \/ /\ decisions' = decisions \cup {[req |-> k, step |-> s, by |-> m, approve |-> signer[t].approve]}
         /\ Go(t, IF signer[t].approve THEN "count" ELSE "reject")
  BY DEF Vote, About
<1>4. /\ \A u \in Tasks \ {t} : signer'[u] = signer[u]
      /\ signer'[t].at # "idle" => signer'[t].req = k /\ signer'[t].step = s
  BY <1>2, <1>3, GoMeans DEF Positions, Deciding
<1>5. About(q)' = About(q) \/ q = k
  BY <1>3 DEF About
<1>6. CASE q # k
  <2>1. ~Decides(t, q) /\ ~Decides(t, q)'
    BY <1>4, <1>6 DEF Decides, Deciding
  <2> QED
    BY <1>1, <1>4, <1>5, <1>6, <2>1, OtherRequests
<1>7. CASE q = k /\ q \notin contested \cup halved
  <2>1. /\ requests[k].status = "pending" /\ s = requests[k].step /\ applied[k] = 0 /\ ~Rejected(k)
        /\ ~Quorum(k, s) /\ \A d \in About(k) : ~(d.step = s /\ d.by = m)
    BY <1>1, <1>2, <1>7 DEF Decision
  <2>2. /\ decisions' = decisions \cup {[req |-> k, step |-> s, by |-> m, approve |-> signer[t].approve]}
        /\ Go(t, IF signer[t].approve THEN "count" ELSE "reject")
    BY <1>3, <2>1
  <2>3. /\ signer'[t].at = (IF signer[t].approve THEN "count" ELSE "reject") /\ signer'[t].req = k /\ signer'[t].step = s
    BY <1>1, <1>2, <2>2, GoMeans DEF Positions, Deciding
  <2>4. \A u \in Tasks : Decides(u, k)' <=> u = t
    BY <1>2, <1>4, <1>7, <2>3 DEF Decides, Deciding
  <2>5. Rejected(k)' <=> ~signer[t].approve
    <3>1. Rejected(k)' <=> Rejected(k) \/ ~[req |-> k, step |-> s, by |-> m, approve |-> signer[t].approve].approve
      BY <2>2 DEF Rejected
    <3> QED
      BY <2>1, <3>1
  <2>6. \A d \in About(k)' : d.step <= requests[k].step
    <3>1. s <= requests[k].step
      BY <1>2, <2>1, ApprovalAssumption DEF Steps
    <3> QED
      BY <1>2, <1>7, <2>2, <3>1 DEF About
  <2>7. Decision(t, k)'
    <3>1. signer'[t].at # "vote" /\ signer'[t].at # "resolve" /\ (signer'[t].at = "reject" <=> ~signer[t].approve)
      BY <2>3
    <3> QED
      BY <1>1, <2>1, <2>3, <2>5, <3>1 DEF Decision
  <2> QED
    BY <1>1, <1>7, <2>4, <2>6, <2>7 DEF Followed
<1>8. CASE q \in contested \cup halved
  BY <1>1, <1>8 DEF Followed
<1> QED
  BY <1>6, <1>7, <1>8

LEMMA CloseStep ==
    ASSUME OutcomeInv, NEW t \in Tasks, RejectRequest(t) \/ Resolve(t) \/ Advance(t), NEW q \in DOMAIN requests
    PROVE  Followed(q)'
<1> PICK k : k = signer[t].req
  OBVIOUS
<1>1. /\ signer[t].at \in {"reject", "resolve", "advance"} /\ signer[t].at \in Deciding /\ UNCHANGED <<decisions, applied, contested, halved>>
      /\ Go(t, "idle")
  BY DEF RejectRequest, Resolve, Advance, At_, Deciding, watched
<1>2. /\ signer \in [Tasks -> Signers] /\ k \in DOMAIN requests /\ requests[k] \in Requests /\ signer[t].step \in Steps
      /\ k \notin contested \cup halved => /\ Decision(t, k) /\ \A u \in Tasks : Decides(u, k) <=> u = t
                                          /\ \A d \in About(k) : d.step <= requests[k].step
  BY <1>1, DecisionKnown
<1>3. /\ signer'[t].at = "idle" /\ \A u \in Tasks \ {t} : signer'[u] = signer[u]
  BY <1>1, <1>2, GoMeans DEF Positions
<1>4. /\ \A r \in DOMAIN requests \ {k} : requests'[r] = requests[r]
      /\ signer[t].at = "reject" => requests'[k].status = "rejected"
      /\ signer[t].at = "resolve" => requests'[k].status = "approved"
      /\ signer[t].at = "advance" => requests'[k].status = requests[k].status /\ requests'[k].step = signer[t].step + 1
  BY <1>1, <1>2 DEF RejectRequest, Resolve, Advance, At_, Requests
<1>5. About(q)' = About(q) /\ (Rejected(q)' <=> Rejected(q)) /\ \A s : Quorum(q, s)' <=> Quorum(q, s)
  BY <1>1 DEF About, Rejected, Quorum, Approving
<1>6. CASE q # k
  <2>1. ~Decides(t, q) /\ ~Decides(t, q)'
    BY <1>3, <1>6 DEF Decides, Deciding
  <2> QED
    BY <1>1, <1>3, <1>4, <1>5, <1>6, <2>1, OtherRequests
<1>7. CASE q = k /\ q \notin contested \cup halved
  <2>1. /\ Decision(t, q) /\ requests[q].status = "pending" /\ signer[t].step = requests[q].step
    BY <1>2, <1>7 DEF Decision
  <2>2. \A u \in Tasks : ~Decides(u, q)'
    BY <1>2, <1>3, <1>7 DEF Decides, Deciding
  <2>3. CASE signer[t].at = "reject"
    BY <1>1, <1>4, <1>5, <1>7, <2>1, <2>2, <2>3 DEF Followed, Outcome, Decision
  <2>4. CASE signer[t].at = "resolve"
    BY <1>1, <1>4, <1>5, <1>7, <2>1, <2>2, <2>4 DEF Followed, Outcome, Decision
  <2>5. CASE signer[t].at = "advance"
    <3>1. signer[t].step + 1 \in Steps /\ \A d \in About(q) : d.step <= signer[t].step /\ d.step \in Nat
      BY <1>2, <1>7, <2>1, <2>5 DEF OutcomeInv, ApprovalInv, SignerKnows, ApprovalTypeOK, Decisions, About, Steps
    <3>2. ~Quorum(q, signer[t].step + 1)
      <4>1. Approving(q, signer[t].step + 1) = {}
        BY <3>1, <1>2 DEF Approving, About, Steps
      <4>2. Quota[signer[t].step + 1] \in Nat \ {0}
        BY <3>1, ApprovalAssumption
      <4> QED
        BY <4>1, <4>2, FS_EmptySet DEF Quorum
    <3>3. Outcome(q)'
      BY <1>1, <1>4, <1>5, <1>7, <2>1, <2>5, <3>2 DEF Outcome, Decision
    <3>4. \A d \in About(q)' : d.step <= requests'[q].step
      BY <1>2, <1>4, <1>5, <1>7, <2>5, <3>1 DEF Steps
    <3> QED
      BY <2>2, <3>3, <3>4 DEF Followed
  <2> QED
    BY <1>1, <2>3, <2>4, <2>5
<1>8. CASE q \in contested \cup halved
  BY <1>1, <1>8 DEF Followed
<1> QED
  BY <1>6, <1>7, <1>8

LEMMA CountStep ==
    ASSUME OutcomeInv, NEW t \in Tasks, CountApprovals(t) \/ apply_transition(t), NEW q \in DOMAIN requests
    PROVE  Followed(q)'
<1> PICK k, s : k = signer[t].req /\ s = signer[t].step
  OBVIOUS
<1>1. /\ signer[t].at \in {"count", "apply"} /\ signer[t].at \in Deciding /\ UNCHANGED <<requests, decisions>>
      /\ contested' = contested /\ halved \subseteq halved'
  BY DEF CountApprovals, apply_transition, At_, Deciding, watched, paper
<1>2. /\ signer \in [Tasks -> Signers] /\ k \in DOMAIN requests /\ k \in Asked /\ s \in Steps
      /\ k \notin contested \cup halved => /\ Decision(t, k) /\ \A u \in Tasks : Decides(u, k) <=> u = t
                                          /\ \A d \in About(k) : d.step <= requests[k].step
  BY <1>1, DecisionKnown
<1>3. \E p \in {"idle", "advance", "apply", "resolve"} : Go(t, p)
  BY DEF CountApprovals, apply_transition
<1>4. /\ signer'[t].at \in {"idle", "advance", "apply", "resolve"} /\ \A u \in Tasks \ {t} : signer'[u] = signer[u]
      /\ signer'[t].at # "idle" => signer'[t].req = k /\ signer'[t].step = s
  BY <1>2, <1>3, GoMeans DEF Positions, Deciding
<1>5. About(q)' = About(q) /\ (Rejected(q)' <=> Rejected(q)) /\ \A x : Quorum(q, x)' <=> Quorum(q, x)
  BY <1>1 DEF About, Rejected, Quorum, Approving
<1>6. \A r \in Asked \ {k} : applied'[r] = applied[r]
  BY DEF CountApprovals, apply_transition, paper, OutcomeInv, ApprovalInv, ApprovalTypeOK
<1>7. CASE q # k
  <2>1. ~Decides(t, q) /\ ~Decides(t, q)'
    BY <1>4, <1>7 DEF Decides, Deciding
  <2>2. q \in Asked
    BY DEF OutcomeInv, ApprovalInv, ApprovalTypeOK
  <2> QED
    BY <1>1, <1>4, <1>5, <1>6, <1>7, <2>1, <2>2, OtherRequests
<1>8. CASE q = k /\ q \notin contested \cup halved'
  <2>0. Decision(t, q) /\ \A d \in About(q) : d.step <= requests[q].step
    BY <1>1, <1>2, <1>8
  <2>1. /\ requests[q].status = "pending" /\ s = requests[q].step /\ applied[q] = 0 /\ ~Rejected(q)
    BY <1>1, <2>0 DEF Decision
  <2>2. \A u \in Tasks : Decides(u, q)' <=> u = t /\ signer'[t].at # "idle"
    BY <1>1, <1>2, <1>4, <1>8 DEF Decides, Deciding
  <2>3. CASE CountApprovals(t)
    <3>1. applied' = applied /\ Go(t, IF Cardinality(ApprovalsSoFar(k, s)) < Quota[s] THEN "idle"
                                     ELSE IF s + 1 \in Steps THEN "advance" ELSE "apply")
      BY <2>3 DEF CountApprovals, paper
    <3>2. CASE Cardinality(ApprovalsSoFar(k, s)) < Quota[s]
      <4>1. signer'[t].at = "idle"
        BY <1>2, <3>1, <3>2, GoMeans DEF Positions
      <4>2. ~Quorum(q, s)
        <5>1. /\ Cardinality(Approving(q, s)) <= Cardinality(ApprovalsSoFar(q, s)) /\ Cardinality(ApprovalsSoFar(q, s)) \in Nat
              /\ Cardinality(Approving(q, s)) \in Nat
          BY <1>2, MembersAreRows, RowsAreMembers, ApprovingFinite, FS_CardinalityType DEF OutcomeInv, ApprovalInv
        <5>2. Quota[s] \in Nat
          BY <1>2, ApprovalAssumption
        <5> QED
          BY <1>8, <3>2, <5>1, <5>2 DEF Quorum
      <4>3. Outcome(q)'
        BY <1>1, <1>5, <2>1, <3>1, <4>2 DEF Outcome
      <4> QED
        BY <1>1, <1>5, <2>0, <2>2, <4>1, <4>3 DEF Followed
    <3>3. CASE ~(Cardinality(ApprovalsSoFar(k, s)) < Quota[s])
      <4>1. signer'[t].at \in {"advance", "apply"}
        BY <1>2, <3>1, <3>3, GoMeans DEF Positions, Deciding
      <4>2. Decision(t, q)'
        BY <1>1, <1>4, <1>5, <2>1, <3>1, <4>1 DEF Decision
      <4> QED
        BY <1>1, <1>5, <2>0, <2>2, <4>1, <4>2 DEF Followed
    <3> QED
      BY <3>2, <3>3
  <2>4. CASE apply_transition(t)
    <3>1. applied' = [applied EXCEPT ![k] = @ + 1] /\ Go(t, "resolve")
      BY <1>8, <2>4 DEF apply_transition
    <3>2. signer'[t].at = "resolve" /\ applied'[q] = 1
      BY <1>2, <1>8, <2>1, <3>1, GoMeans DEF Positions, Deciding, OutcomeInv, ApprovalInv, ApprovalTypeOK
    <3>3. Decision(t, q)'
      BY <1>1, <1>4, <1>5, <2>1, <3>2 DEF Decision
    <3> QED
      BY <1>1, <1>5, <2>0, <2>2, <3>2, <3>3 DEF Followed
  <2> QED
    BY <2>3, <2>4
<1>9. CASE q \in contested \cup halved'
  BY <1>1, <1>9 DEF Followed
<1> QED
  BY <1>7, <1>8, <1>9

LEMMA LoseTaskStep ==
    ASSUME OutcomeInv, NEW t \in Tasks, LoseTask(t), NEW q \in DOMAIN requests
    PROVE  Followed(q)'
<1>1. /\ signer[t].at # "idle" /\ signer \in [Tasks -> Signers] /\ UNCHANGED <<requests, decisions, applied, contested>>
      /\ halved' = halved \cup (IF signer[t].at \in Deciding \ {"vote"} THEN {signer[t].req} ELSE {}) /\ Go(t, "idle")
  BY DEF LoseTask, paper, OutcomeInv, ApprovalInv, ApprovalTypeOK
<1>2. signer'[t].at = "idle" /\ \A u \in Tasks \ {t} : signer'[u] = signer[u]
  BY <1>1, GoMeans DEF Positions
<1>3. About(q)' = About(q) /\ (Rejected(q)' <=> Rejected(q)) /\ \A x : Quorum(q, x)' <=> Quorum(q, x)
  BY <1>1 DEF About, Rejected, Quorum, Approving
<1>4. CASE ~Decides(t, q)
  <2>1. ~Decides(t, q)' /\ Followed(q) /\ halved \subseteq halved'
    BY <1>1, <1>2 DEF Decides, Deciding, OutcomeInv
  <2> QED
    BY <1>1, <1>2, <1>3, <1>4, <2>1, FollowedStays
<1>5. CASE Decides(t, q) /\ q \notin contested \cup halved'
  <2>1. signer[t].at = "vote" /\ q = signer[t].req /\ q \notin contested \cup halved /\ signer[t].at \in Deciding
    BY <1>1, <1>5 DEF Decides
  <2>2. /\ Decision(t, q) /\ \A u \in Tasks : Decides(u, q) <=> u = t
        /\ \A d \in About(q) : d.step <= requests[q].step
    BY <2>1, DecisionKnown
  <2>3. \A u \in Tasks : ~Decides(u, q)'
    BY <1>2, <2>2 DEF Decides, Deciding
  <2>4. Outcome(q)'
    BY <1>1, <1>3, <2>1, <2>2 DEF Outcome, Decision
  <2> QED
    BY <1>1, <1>3, <2>2, <2>3, <2>4 DEF Followed
<1>6. CASE q \in contested \cup halved'
  BY <1>1, <1>6 DEF Followed
<1> QED
  BY <1>4, <1>5, <1>6

LEMMA OutcomeInitInv == ApprovalInit => OutcomeInv
BY InitInv DEF ApprovalInit, OutcomeInv

LEMMA OutcomeNextInv == OutcomeInv /\ [ApprovalNext]_approvalVars => OutcomeInv'
<1> SUFFICES ASSUME OutcomeInv, [ApprovalNext]_approvalVars PROVE OutcomeInv'
  OBVIOUS
<1>1. ApprovalInv'
  BY InvStep DEF OutcomeInv
<1> SUFFICES ASSUME NEW q \in DOMAIN requests' PROVE Followed(q)'
  BY <1>1 DEF OutcomeInv
<1>2. CASE UNCHANGED approvalVars
  BY <1>2, FollowedStays DEF approvalVars, OutcomeInv, About
<1>3. ASSUME NEW t \in Tasks, InsertRequest_(t) PROVE Followed(q)'
  BY <1>3, AskStep
<1>4. CASE q \in DOMAIN requests /\ ApprovalNext
  BY <1>3, <1>4, AsideStep, DecideStep, VoteStep, CloseStep, CountStep, LoseTaskStep DEF ApprovalNext
<1>5. CASE q \notin DOMAIN requests /\ ApprovalNext
  <2>1. \E t \in Tasks : InsertRequest_(t)
    <3>1. DOMAIN requests' # DOMAIN requests
      BY <1>5
    <3>2. ASSUME NEW t \in Tasks,
             \/ change_contact_status(t) \/ requires_approval(t) \/ MoveRecord(t)
             \/ create_request(t)
             \/ \E k \in DOMAIN requests : decide(t, k)
             \/ Vote(t) \/ RejectRequest(t) \/ CountApprovals(t) \/ Advance(t)
             \/ apply_transition(t) \/ Resolve(t) \/ LoseTask(t)
          PROVE  DOMAIN requests' = DOMAIN requests
      BY <3>2 DEF change_contact_status, requires_approval, MoveRecord, create_request, decide, Vote, RejectRequest,
                  CountApprovals, Advance, apply_transition, Resolve, LoseTask, paper
    <3> QED
      BY <1>5, <3>1, <3>2 DEF ApprovalNext
  <2> QED
    BY <1>3, <2>1
<1> QED
  BY <1>2, <1>4, <1>5

\* decide, count_approvals_so_far and resolve_request: what became of a
\* request is what was decided on it, unless two people decided at once or a
\* decision was lost halfway: for every number of users, steps, requests
\* and tasks.
THEOREM OutcomeIsDecided == ApprovalSpec => []OutcomeIsTheDecision
BY OutcomeInitInv, OutcomeNextInv, OutcomeInvMeans, PTL DEF ApprovalSpec

-----------------------------------------------------------------------------
(***************************************************************************)
(* The history of a change request explains its state, for any number of   *)
(* requests, users and clients (ChangeRequests): what a handler has read   *)
(* is still so while nobody else has written, and every row of the history *)
(* leads from one state to the next.                                       *)
(***************************************************************************)

InProgress == {"audit", "record", "update"}
Errands == [at : {"idle", "count", "insert"} \cup InProgress, on : Instances, edge : cr_state_machine,
            entry : Nat, n : Nat, tries : Nat]
EntriesOf(i) == {k \in DOMAIN ledger : ledger[k].on = i}
Places(t) == {t[k].edge.to : k \in DOMAIN t}
EntryFor(i, edge, by) == [on |-> i, edge |-> edge, by |-> by]

\* A history that goes on has been where it was, and where its new row leads.
LEMMA PlacesGrow ==
    ASSUME NEW t, NEW s, NEW n, NEW rec,
           DOMAIN s = DOMAIN t \cup {n}, \A k \in DOMAIN t : s[k] = t[k], s[n] = rec
    PROVE  Places(t) \subseteq Places(s) /\ rec.edge.to \in Places(s)
BY DEF Places

ChangeStored ==
    /\ instance \in Seq([state : WorkflowStates, by : Users]) /\ Len(instance) <= MaxInstances
    /\ timeline \in [Instances -> Seq(History)]
    /\ ledger \in Seq(LedgerRows)
    /\ errand \in [Users -> Errands]

\* Rows of the history and of the ledger.
Traced(i) ==
    \A k \in DOMAIN timeline[i] :
        /\ timeline[i][k].entry \in DOMAIN ledger
        /\ ledger[timeline[i][k].entry] = EntryFor(i, timeline[i][k].edge, timeline[i][k].by)
Fresh == \A i \in Instances \ DOMAIN instance : timeline[i] = <<>> /\ EntriesOf(i) = {}
Reached(i) == instance[i].state \in {"draft"} \cup Places(timeline[i])
FourEyes(i) ==
    i \notin unread => \A k \in DOMAIN timeline[i] : timeline[i][k].edge.name = "approve" => timeline[i][k].by # instance[i].by

\* What a transition under way carries from one statement to the next.
Carried(u) ==
    errand[u].at \in InProgress =>
        /\ errand[u].on \in DOMAIN instance
        /\ errand[u].at = "record" =>
              errand[u].entry \in DOMAIN ledger /\ ledger[errand[u].entry] = EntryFor(errand[u].on, errand[u].edge, u)
        /\ errand[u].at = "update" => errand[u].edge.to \in Places(timeline[errand[u].on])
        /\ errand[u].at # "update" /\ errand[u].on \notin unread /\ errand[u].edge.name = "approve"
              => u # instance[errand[u].on].by

\* Transitions that met are known.
Alone ==
    \A u, v \in Users :
        /\ errand[u].at \in InProgress /\ errand[v].at \in InProgress
        /\ errand[u].on = errand[v].on /\ errand[u].on \notin entangled
        => u = v

\* One path, and how far a transition under way has extended it.
Told(i) ==
    i \notin entangled \cup severed =>
        LET t == timeline[i]
            rows == Cardinality(EntriesOf(i))
        IN /\ ~InTransition(i) => PathTo(t, instance[i].state) /\ rows = Len(t)
           /\ \A u \in Users : errand[u].on = i =>
                /\ errand[u].at = "audit" => PathTo(t, instance[i].state) /\ errand[u].edge.from = instance[i].state /\ rows = Len(t)
                /\ errand[u].at = "record" => PathTo(t, instance[i].state) /\ errand[u].edge.from = instance[i].state /\ rows = Len(t) + 1
                /\ errand[u].at = "update" => PathTo(t, errand[u].edge.to) /\ rows = Len(t)

ChangeInv ==
    /\ ChangeStored /\ Fresh /\ Alone
    /\ \A i \in Instances : Traced(i)
    /\ \A i \in DOMAIN instance : Reached(i) /\ FourEyes(i) /\ Told(i)
    /\ \A u \in Users : Carried(u)

LEMMA InstancesAre ==
    ASSUME ChangeStored
    PROVE  DOMAIN instance = 1..Len(instance) /\ Len(instance) \in Nat /\ DOMAIN instance \subseteq Instances
<1>1. DOMAIN instance = 1..Len(instance) /\ Len(instance) \in Nat
  BY LenProperties DEF ChangeStored
<1> QED
  BY <1>1, ChangeAssumption DEF ChangeStored, Instances

LEMMA ChangeInvMeans == ChangeInv => HistoryExplainsState
<1> SUFFICES ASSUME ChangeInv, NEW i \in DOMAIN instance
             PROVE  LET t == timeline[i]
                    IN /\ \A k \in DOMAIN t : ledger[t[k].entry] = [on |-> i, edge |-> t[k].edge, by |-> t[k].by]
                       /\ instance[i].state \in {"draft"} \cup {t[k].edge.to : k \in DOMAIN t}
                       /\ i \notin unread => \A k \in DOMAIN t : t[k].edge.name = "approve" => t[k].by # instance[i].by
                       /\ i \notin entangled \cup severed /\ ~InTransition(i) =>
                             /\ PathTo(t, instance[i].state)
                             /\ Cardinality({k \in DOMAIN ledger : ledger[k].on = i}) = Len(t)
  BY DEF HistoryExplainsState
<1>1. i \in Instances
  BY InstancesAre DEF ChangeInv
<1>2. Traced(i) /\ Reached(i) /\ FourEyes(i) /\ Told(i)
  BY <1>1 DEF ChangeInv
<1>3. \A k \in DOMAIN timeline[i] : ledger[timeline[i][k].entry] = [on |-> i, edge |-> timeline[i][k].edge, by |-> timeline[i][k].by]
  BY <1>2 DEF Traced, EntryFor
<1>4. instance[i].state \in {"draft"} \cup {timeline[i][k].edge.to : k \in DOMAIN timeline[i]}
  BY <1>2 DEF Reached, Places
<1> QED
  BY <1>2, <1>3, <1>4 DEF FourEyes, Told, EntriesOf

-----------------------------------------------------------------------------
(* Appending a row *)

LEMMA HistoryAppend ==
    ASSUME NEW S, NEW q \in Seq(S), NEW x \in S
    PROVE  /\ Append(q, x) \in Seq(S) /\ Len(Append(q, x)) = Len(q) + 1
           /\ DOMAIN Append(q, x) = DOMAIN q \cup {Len(q) + 1} /\ Len(q) + 1 \notin DOMAIN q
           /\ \A k \in DOMAIN q : Append(q, x)[k] = q[k]
           /\ Append(q, x)[Len(q) + 1] = x
           /\ DOMAIN q = 1..Len(q) /\ Len(q) \in Nat
<1>1. DOMAIN q = 1..Len(q) /\ Len(q) \in Nat
  BY LenProperties
<1>2. Append(q, x) \in Seq(S) /\ Len(Append(q, x)) = Len(q) + 1 /\ Append(q, x)[Len(q) + 1] = x
      /\ \A k \in 1..Len(q) : Append(q, x)[k] = q[k]
  BY AppendProperties
<1>3. DOMAIN Append(q, x) = 1..(Len(q) + 1)
  BY <1>2, LenProperties
<1> QED
  BY <1>1, <1>2, <1>3

\* A path extended by an edge that starts where it ends.
LEMMA PathExtends ==
    ASSUME NEW t \in Seq(History), NEW rec \in History, PathTo(t, rec.edge.from)
    PROVE  PathTo(Append(t, rec), rec.edge.to)
<1> DEFINE q == Append(t, rec)
<1>1. /\ q \in Seq(History) /\ Len(q) = Len(t) + 1 /\ DOMAIN q = DOMAIN t \cup {Len(t) + 1}
      /\ \A k \in DOMAIN t : q[k] = t[k]
      /\ q[Len(t) + 1] = rec /\ DOMAIN t = 1..Len(t) /\ Len(t) \in Nat
  BY HistoryAppend
<1>2. t = <<>> <=> Len(t) = 0
  BY EmptySeq, LenProperties
<1>3. t # <<>> => rec.edge.from = t[Len(t)].edge.to
  BY DEF PathTo, Last
<1>4. t = <<>> => rec.edge.from = "draft"
  BY DEF PathTo
<1>5. ASSUME NEW k \in DOMAIN q PROVE q[k].edge.from = IF k = 1 THEN "draft" ELSE q[k - 1].edge.to
  <2>1. CASE k \in DOMAIN t
    <3>1. t[k].edge.from = IF k = 1 THEN "draft" ELSE t[k - 1].edge.to
      BY <2>1 DEF PathTo
    <3>2. k # 1 => k - 1 \in DOMAIN t
      BY <2>1, <1>1
    <3> QED
      BY <2>1, <3>1, <3>2, <1>1
  <2>2. CASE k = Len(t) + 1 /\ t = <<>>
    BY <2>2, <1>1, <1>2, <1>4
  <2>3. CASE k = Len(t) + 1 /\ t # <<>>
    <3>1. k # 1 /\ k - 1 = Len(t) /\ k - 1 \in DOMAIN t
      BY <2>3, <1>1, <1>2
    <3> QED
      BY <3>1, <2>3, <1>1, <1>3
  <2> QED
    BY <2>1, <2>2, <2>3, <1>1
<1>6. q # <<>> /\ Last(q) = rec
  BY <1>1 DEF Last
<1> QED
  BY <1>5, <1>6 DEF PathTo

LEMMA EntriesFinite ==
    ASSUME ChangeStored, NEW i
    PROVE  IsFiniteSet(EntriesOf(i)) /\ Cardinality(EntriesOf(i)) \in Nat
<1>1. IsFiniteSet(1..Len(ledger)) /\ DOMAIN ledger = 1..Len(ledger)
  BY FS_Interval, LenProperties DEF ChangeStored
<1>2. IsFiniteSet(EntriesOf(i))
  BY <1>1, FS_Subset DEF EntriesOf
<1> QED
  BY <1>2, FS_CardinalityType

LEMMA EdgesAre ==
    ASSUME NEW e \in cr_state_machine
    PROVE  e.to \in WorkflowStates
BY DEF WorkflowStates

LEMMA NothingTypes == Nothing \in Errands /\ Nothing.at = "idle" /\ Nothing.on \in Instances
BY ChangeAssumption DEF Nothing, Errands, cr_state_machine, Instances

-----------------------------------------------------------------------------
(* What stays *)

\* An instance no statement has touched.
LEMMA ToldStays ==
    ASSUME NEW i, Told(i), entangled \subseteq entangled', severed \subseteq severed',
           timeline'[i] = timeline[i], instance'[i] = instance[i], EntriesOf(i)' = EntriesOf(i),
           \A u \in Users : \/ errand'[u] = errand[u]
                            \/ /\ errand[u].at \notin InProgress \/ errand[u].on # i
                               /\ errand'[u].at \notin InProgress \/ errand'[u].on # i
    PROVE  Told(i)'
<1>1. InTransition(i)' <=> InTransition(i)
  BY DEF InTransition, InProgress
<1>2. \A t, s : PathTo(t, s)' <=> PathTo(t, s)
  BY DEF PathTo
<1> QED
  BY <1>1 DEF Told, PathTo, InProgress

LEMMA AloneStays ==
    ASSUME Alone, entangled \subseteq entangled', errand \in [Users -> Errands],
           \A u \in Users : errand'[u].at \in InProgress =>
               errand[u].at \in InProgress /\ errand'[u].on = errand[u].on
    PROVE  Alone'
BY DEF Alone

\* The ledger has grown, or not.
LEMMA TracedStays ==
    ASSUME NEW i, Traced(i), timeline'[i] = timeline[i], DOMAIN ledger \subseteq DOMAIN ledger',
           \A k \in DOMAIN ledger : ledger'[k] = ledger[k]
    PROVE  Traced(i)'
BY DEF Traced

LEMMA CarriedStays ==
    ASSUME NEW u \in Users, Carried(u), errand'[u] = errand[u], unread \subseteq unread',
           DOMAIN instance \subseteq DOMAIN instance', \A i \in DOMAIN instance : instance'[i].by = instance[i].by,
           \A i \in DOMAIN instance : Places(timeline[i]) \subseteq Places(timeline'[i]),
           DOMAIN ledger \subseteq DOMAIN ledger', \A k \in DOMAIN ledger : ledger'[k] = ledger[k]
    PROVE  Carried(u)'
BY DEF Carried, InProgress

\* A step that leaves the tables alone and ends, begins or continues no transition.
LEMMA QuietErrand ==
    ASSUME ChangeInv, NEW u \in Users, UNCHANGED <<instance, timeline, ledger, seen>>,
           errand' \in [Users -> Errands], \A v \in Users \ {u} : errand'[v] = errand[v],
           errand[u].at \notin InProgress, errand'[u].at \notin InProgress
    PROVE  ChangeInv'
<1>0. UNCHANGED <<entangled, severed, unread>>
  BY DEF seen
<1>1. ChangeStored' /\ Fresh'
  BY DEF ChangeInv, ChangeStored, Fresh, EntriesOf
<1>2. Alone'
  BY <1>0 DEF ChangeInv, Alone
<1>3. \A i \in Instances : Traced(i)'
  BY TracedStays DEF ChangeInv
<1>4. ASSUME NEW i \in DOMAIN instance PROVE Reached(i)' /\ FourEyes(i)' /\ Told(i)'
  <2>1. Told(i) /\ EntriesOf(i)' = EntriesOf(i)
    BY DEF ChangeInv, EntriesOf
  <2>2. Told(i)'
    BY <1>0, <2>1, ToldStays
  <2> QED
    BY <1>0, <2>2 DEF ChangeInv, Reached, FourEyes, Places
<1>5. ASSUME NEW v \in Users PROVE Carried(v)'
  BY <1>0 DEF ChangeInv, Carried
<1> QED
  BY <1>1, <1>2, <1>3, <1>4, <1>5 DEF ChangeInv

-----------------------------------------------------------------------------
(* The steps *)

LEMMA CreateStep ==
    ASSUME ChangeInv, NEW u \in Users, create_instance(u)
    PROVE  ChangeInv'
<1> PICK j : j = Len(instance) + 1
  OBVIOUS
<1> DEFINE rec == [state |-> "draft", by |-> u]
<1>0. rec \in [state : WorkflowStates, by : Users] /\ ChangeStored /\ UNCHANGED <<number, timeline, ledger, entangled, severed, unread>>
  BY DEF WorkflowStates, ChangeInv, create_instance, seen
<1>1. /\ instance' \in Seq([state : WorkflowStates, by : Users]) /\ Len(instance') = j /\ j <= MaxInstances
      /\ DOMAIN instance' = DOMAIN instance \cup {j} /\ j \notin DOMAIN instance /\ j \in Instances
      /\ \A k \in DOMAIN instance : instance'[k] = instance[k]
      /\ instance'[j] = rec
  <2>1. /\ instance' = Append(instance, rec) /\ j <= MaxInstances /\ instance \in Seq([state : WorkflowStates, by : Users])
    BY <1>0 DEF create_instance, ChangeStored
  <2>2. j \in Nat \ {0}
    BY InstancesAre, <1>0
  <2> HIDE DEF rec
  <2>3. /\ Append(instance, rec) \in Seq([state : WorkflowStates, by : Users]) /\ Len(Append(instance, rec)) = j
        /\ DOMAIN Append(instance, rec) = DOMAIN instance \cup {j} /\ j \notin DOMAIN instance
        /\ \A k \in DOMAIN instance : Append(instance, rec)[k] = instance[k]
        /\ Append(instance, rec)[j] = rec
    BY <2>1, <1>0, HistoryAppend
  <2>4. j \in Instances
    BY <2>1, <2>2, ChangeAssumption DEF Instances
  <2> QED
    BY <2>1, <2>3, <2>4
<1>2. errand' = [errand EXCEPT ![u] = [Nothing EXCEPT !.at = "count", !.on = j]] /\ errand[u].at = "idle"
  BY DEF create_instance
<1>3. errand \in [Users -> Errands] /\ errand' \in [Users -> Errands] /\ errand'[u].at = "count"
      /\ \A v \in Users \ {u} : errand'[v] = errand[v]
  <2>1. [Nothing EXCEPT !.at = "count", !.on = j] \in Errands
    BY NothingTypes, <1>1 DEF Errands
  <2>2. [Nothing EXCEPT !.at = "count", !.on = j].at = "count"
    BY NothingTypes DEF Errands
  <2> QED
    BY <1>0, <1>2, <2>1, <2>2 DEF ChangeStored
<1> HIDE DEF rec
<1>4. ChangeStored'
  BY <1>0, <1>1, <1>3 DEF ChangeStored
<1>5. Fresh'
  BY <1>0, <1>1 DEF ChangeInv, Fresh, EntriesOf
<1>6. Alone'
  BY <1>0, <1>2, <1>3, AloneStays DEF ChangeInv, InProgress
<1>7. \A i \in Instances : Traced(i)'
  BY <1>0, TracedStays DEF ChangeInv
<1>8. ASSUME NEW i \in DOMAIN instance PROVE Reached(i)' /\ FourEyes(i)' /\ Told(i)'
  <2>1. Told(i) /\ EntriesOf(i)' = EntriesOf(i)
    BY <1>0 DEF ChangeInv, EntriesOf
  <2>2. Told(i)'
    BY <1>0, <1>1, <1>2, <1>3, <2>1, ToldStays DEF InProgress
  <2> QED
    BY <1>0, <1>1, <2>2 DEF ChangeInv, Reached, FourEyes, Places
<1>9. ASSUME NEW v \in Users PROVE Carried(v)'
  <2>1. CASE v = u
    BY <2>1, <1>3 DEF Carried, InProgress
  <2>2. CASE v # u
    <3>1. Carried(v) /\ errand'[v] = errand[v]
      BY <2>2, <1>3 DEF ChangeInv
    <3> QED
      BY <3>1, <1>0, <1>1, CarriedStays
  <2> QED
    BY <2>1, <2>2
<1>10. Reached(j)' /\ FourEyes(j)' /\ Told(j)'
  <2>1. timeline'[j] = <<>> /\ EntriesOf(j)' = {} /\ instance'[j].state = "draft"
    BY <1>0, <1>1 DEF ChangeInv, Fresh, EntriesOf, rec
  <2>2. \A v \in Users : errand'[v].at \in InProgress => errand'[v].on # j
    BY <1>3, <1>1 DEF ChangeInv, Carried, InProgress
  <2>3. Cardinality({}) = 0 /\ Len(<<>>) = 0 /\ DOMAIN <<>> = {}
    BY FS_EmptySet
  <2>4. Reached(j)' /\ FourEyes(j)'
    BY <2>1, <2>3 DEF Reached, FourEyes
  <2>5. PathTo(timeline[j], instance[j].state)' /\ Cardinality(EntriesOf(j))' = Len(timeline[j])'
    BY <2>1, <2>3 DEF PathTo
  <2> QED
    BY <2>2, <2>4, <2>5 DEF Told, InProgress
<1> QED
  BY <1>1, <1>4, <1>5, <1>6, <1>7, <1>8, <1>9, <1>10 DEF ChangeInv

LEMMA NumberingStep ==
    ASSUME ChangeInv, NEW u \in Users, generate_cr_number(u) \/ InsertRequest(u)
    PROVE  ChangeInv'
<1> DEFINE taken == Cardinality({i \in Instances : number[i] # 0}) + 1
<1>1. taken \in Nat
  <2>1. IsFiniteSet(Instances)
    BY FS_Interval, ChangeAssumption DEF Instances
  <2> QED
    BY <2>1, FS_Subset, FS_CardinalityType
<1>2. errand \in [Users -> Errands] /\ errand[u].at \in {"count", "insert"} /\ UNCHANGED <<instance, timeline, ledger, seen>>
  BY DEF ChangeInv, ChangeStored, generate_cr_number, InsertRequest
<1>3. \/ errand' = [errand EXCEPT ![u] = Nothing]
      \/ errand' = [errand EXCEPT ![u] = [@ EXCEPT !.at = "count"]]
      \/ errand' = [errand EXCEPT ![u].at = "insert", ![u].tries = @ + 1, ![u].n = taken]
  BY DEF generate_cr_number, InsertRequest, Step_
<1> HIDE DEF taken
<1>4. errand' \in [Users -> Errands] /\ errand'[u].at \in {"idle", "count", "insert"} /\ \A v \in Users \ {u} : errand'[v] = errand[v]
  BY <1>1, <1>2, <1>3, NothingTypes DEF Errands
<1> QED
  BY <1>2, <1>4, QuietErrand DEF InProgress

LEMMA TransitionStep ==
    ASSUME ChangeInv, NEW u \in Users, NEW j \in DOMAIN instance, NEW unseen \in BOOLEAN, cr_transition(u, j, unseen)
    PROVE  ChangeInv'
<1>1. PICK e \in cr_state_machine :
        /\ errand[u].at = "idle" /\ instance[j].state = e.from
        /\ e.name = "approve" => unseen \/ instance[j].by # u
        /\ errand' = [errand EXCEPT ![u] = [Nothing EXCEPT !.at = "audit", !.on = j, !.edge = e]]
        /\ unread' = unread \cup (IF unseen THEN {j} ELSE {})
        /\ entangled' = entangled \cup
              (IF \E v \in Users \ {u} : errand[v].on = j /\ errand[v].at \in InProgress THEN {j} ELSE {})
        /\ UNCHANGED <<instance, timeline, ledger, severed>>
  BY DEF cr_transition, NotTheirOwn, InProgress
<1>2. j \in Instances
  BY InstancesAre DEF ChangeInv
<1>3. /\ errand \in [Users -> Errands] /\ errand' \in [Users -> Errands] /\ \A v \in Users \ {u} : errand'[v] = errand[v]
      /\ errand'[u].at = "audit" /\ errand'[u].on = j /\ errand'[u].edge = e
  BY <1>1, <1>2, NothingTypes DEF ChangeInv, ChangeStored, Errands, InProgress
<1>4. ChangeStored' /\ Fresh'
  BY <1>1, <1>3 DEF ChangeInv, ChangeStored, Fresh, EntriesOf
<1>5. Alone'
  <2> SUFFICES ASSUME NEW v \in Users, NEW w \in Users, errand'[v].at \in InProgress, errand'[w].at \in InProgress,
                      errand'[v].on = errand'[w].on, errand'[v].on \notin entangled'
               PROVE  v = w
    BY DEF Alone
  <2>1. CASE v # u /\ w # u
    BY <2>1, <1>1, <1>3 DEF ChangeInv, Alone
  <2>2. CASE v = u \/ w = u
    BY <2>2, <1>1, <1>3
  <2> QED
    BY <2>1, <2>2
<1>6. \A i \in Instances : Traced(i)'
  BY <1>1, TracedStays DEF ChangeInv
<1>7. ASSUME NEW i \in DOMAIN instance PROVE Reached(i)' /\ FourEyes(i)' /\ Told(i)'
  <2>1. Told(i) /\ EntriesOf(i)' = EntriesOf(i)
    BY <1>1 DEF ChangeInv, EntriesOf
  <2> SUFFICES Told(i)'
    BY <1>1 DEF ChangeInv, Reached, FourEyes, Places
  <2>2. CASE i # j
    <3>1. \A v \in Users : \/ errand'[v] = errand[v]
                           \/ /\ errand[v].at \notin InProgress \/ errand[v].on # i
                              /\ errand'[v].at \notin InProgress \/ errand'[v].on # i
      BY <1>1, <1>3, <2>2 DEF InProgress
    <3>2. /\ entangled \subseteq entangled' /\ severed \subseteq severed'
          /\ timeline'[i] = timeline[i] /\ instance'[i] = instance[i]
      BY <1>1
    <3> QED
      BY <2>1, <3>1, <3>2, ToldStays
  <2>3. CASE i = j
    <3> SUFFICES ASSUME i \notin entangled' \cup severed'
                 PROVE  Told(i)'
      BY <1>1 DEF ChangeInv, Reached, FourEyes, Places, Told
    <3>1. \A v \in Users \ {u} : ~(errand[v].on = i /\ errand[v].at \in InProgress)
      BY <1>1, <2>3
    <3>2. ~InTransition(i) /\ i \notin entangled \cup severed
      BY <1>1, <3>1 DEF InTransition, InProgress
    <3>3. PathTo(timeline[i], instance[i].state) /\ Cardinality(EntriesOf(i)) = Len(timeline[i])
      BY <3>2, <2>1 DEF Told
    <3>4. PathTo(timeline[i], instance[i].state)' /\ Cardinality(EntriesOf(i))' = Len(timeline[i])'
      BY <3>3, <2>1, <1>1 DEF PathTo
    <3>5. \A v \in Users : errand'[v].on = i /\ errand'[v].at \in InProgress => v = u
      BY <3>1, <1>3
    <3> QED
      BY <1>1, <1>3, <2>3, <3>4, <3>5 DEF Told, InTransition, InProgress
  <2> QED
    BY <1>1, <2>2, <2>3 DEF ChangeInv, Reached, FourEyes, Places
<1>8. ASSUME NEW v \in Users PROVE Carried(v)'
  <2>1. CASE v = u
    BY <2>1, <1>1, <1>3 DEF Carried, InProgress
  <2>2. CASE v # u
    <3>1. Carried(v) /\ errand'[v] = errand[v]
      BY <2>2, <1>3 DEF ChangeInv
    <3> QED
      BY <3>1, <1>1, CarriedStays
  <2> QED
    BY <2>1, <2>2
<1> QED
  BY <1>1, <1>4, <1>5, <1>6, <1>7, <1>8 DEF ChangeInv

LEMMA LogStep ==
    ASSUME ChangeInv, NEW u \in Users, LogTransition(u)
    PROVE  ChangeInv'
<1> PICK j, k, rec : j = errand[u].on /\ k = Len(ledger) + 1 /\ rec = EntryFor(j, errand[u].edge, u)
  OBVIOUS
<1>1. /\ errand \in [Users -> Errands] /\ errand[u] \in Errands /\ j \in DOMAIN instance /\ j \in Instances
      /\ errand[u].edge \in cr_state_machine /\ errand[u].at = "audit" /\ errand[u].at \in InProgress
  <2>1. errand \in [Users -> Errands] /\ errand[u].at = "audit"
    BY DEF LogTransition, ChangeInv, ChangeStored
  <2>2. errand[u].on \in DOMAIN instance
    BY <2>1 DEF ChangeInv, Carried, InProgress
  <2> QED
    BY <2>1, <2>2 DEF Errands, InProgress
<1>2. rec \in LedgerRows /\ rec.on = j
  BY <1>1 DEF EntryFor, LedgerRows
<1>3. /\ ledger' = Append(ledger, rec) /\ UNCHANGED <<instance, timeline, entangled, severed, unread>>
      /\ errand' = [errand EXCEPT ![u].at = "record", ![u].entry = k]
  BY DEF LogTransition, EntryFor, seen
<1>4. /\ ledger' \in Seq(LedgerRows) /\ DOMAIN ledger' = DOMAIN ledger \cup {k} /\ k \notin DOMAIN ledger
      /\ \A n \in DOMAIN ledger : ledger'[n] = ledger[n]
      /\ ledger'[k] = rec /\ k \in Nat
  <2>1. ledger \in Seq(LedgerRows)
    BY DEF ChangeInv, ChangeStored
  <2> QED
    BY <1>2, <1>3, <2>1, HistoryAppend
<1>5. /\ errand' \in [Users -> Errands] /\ \A v \in Users \ {u} : errand'[v] = errand[v]
      /\ errand'[u].at = "record" /\ errand'[u].on = j /\ errand'[u].edge = errand[u].edge /\ errand'[u].entry = k
  BY <1>1, <1>3, <1>4 DEF Errands, InProgress
<1>6. \A i : EntriesOf(i)' = EntriesOf(i) \cup (IF i = j THEN {k} ELSE {})
  BY <1>2, <1>4 DEF EntriesOf
<1>7. Cardinality(EntriesOf(j))' = Cardinality(EntriesOf(j)) + 1
  <2>1. IsFiniteSet(EntriesOf(j)) /\ k \notin EntriesOf(j)
    BY <1>4, EntriesFinite DEF ChangeInv, EntriesOf
  <2>2. Cardinality(EntriesOf(j) \cup {k}) = Cardinality(EntriesOf(j)) + 1
    BY <2>1, FS_AddElement
  <2> QED
    BY <2>2, <1>6
<1>8. ChangeStored' /\ Fresh'
  BY <1>1, <1>3, <1>4, <1>5, <1>6 DEF ChangeInv, ChangeStored, Fresh
<1>9. Alone'
  BY <1>1, <1>3, <1>5, AloneStays DEF ChangeInv
<1>10. \A i \in Instances : Traced(i)'
  BY <1>3, <1>4, TracedStays DEF ChangeInv
<1>11. ASSUME NEW i \in DOMAIN instance PROVE Reached(i)' /\ FourEyes(i)' /\ Told(i)'
  <2>1. Told(i)
    BY DEF ChangeInv
  <2>2. CASE i # j
    <3>1. EntriesOf(i)' = EntriesOf(i)
      BY <1>6, <2>2
    <3>2. \A v \in Users : errand'[v] = errand[v] \/ (errand[v].on # i /\ errand'[v].on # i)
      BY <1>5, <2>2
    <3> QED
      BY <1>3, <2>1, <3>1, <3>2, ToldStays DEF ChangeInv, Reached, FourEyes, Places
  <2>3. CASE i = j
    <3> SUFFICES ASSUME i \notin entangled \cup severed
                 PROVE  Told(i)'
      BY <1>3 DEF ChangeInv, Reached, FourEyes, Places, Told
    <3>1. /\ PathTo(timeline[i], instance[i].state) /\ errand[u].edge.from = instance[i].state
          /\ Cardinality(EntriesOf(i)) = Len(timeline[i])
      BY <1>1, <2>1, <2>3 DEF Told
    <3>2. \A v \in Users : errand[v].on = i /\ errand[v].at \in InProgress => v = u
      BY <1>1, <2>3 DEF ChangeInv, Alone
    <3>3. \A v \in Users : errand'[v].on = i /\ errand'[v].at \in InProgress => v = u
      BY <1>5, <3>2
    <3>4. PathTo(timeline[i], instance[i].state)' /\ (errand[u].edge.from)' = (instance[i].state)'
      BY <1>3, <1>5, <3>1 DEF PathTo
    <3>5. InTransition(i)' /\ Cardinality(EntriesOf(i))' = Len(timeline[i])' + 1
      BY <1>3, <1>5, <1>7, <2>3, <3>1 DEF InTransition
    <3> QED
      BY <1>5, <3>3, <3>4, <3>5 DEF Told, InProgress
  <2> QED
    BY <2>2, <2>3
<1>12. ASSUME NEW v \in Users PROVE Carried(v)'
  <2>0. Carried(v)
    BY DEF ChangeInv
  <2>1. CASE v = u
    BY <2>0, <2>1, <1>1, <1>3, <1>4, <1>5 DEF Carried, InProgress
  <2>2. CASE v # u
    BY <2>0, <2>2, <1>3, <1>4, <1>5, CarriedStays
  <2> QED
    BY <2>1, <2>2
<1> QED
  BY <1>3, <1>8, <1>9, <1>10, <1>11, <1>12 DEF ChangeInv

LEMMA RecordStep ==
    ASSUME ChangeInv, NEW u \in Users, record_transition(u)
    PROVE  ChangeInv'
<1> PICK j, rec : j = errand[u].on /\ rec = [edge |-> errand[u].edge, by |-> u, entry |-> errand[u].entry]
  OBVIOUS
<1>1. /\ errand \in [Users -> Errands] /\ errand[u] \in Errands /\ j \in DOMAIN instance /\ j \in Instances
      /\ errand[u].edge \in cr_state_machine /\ errand[u].at = "record" /\ errand[u].at \in InProgress
      /\ errand[u].entry \in DOMAIN ledger /\ ledger[errand[u].entry] = EntryFor(j, errand[u].edge, u)
      /\ j \notin unread /\ errand[u].edge.name = "approve" => u # instance[j].by
  <2>1. errand \in [Users -> Errands] /\ errand[u].at = "record"
    BY DEF record_transition, ChangeInv, ChangeStored
  <2>2. Carried(u)
    BY DEF ChangeInv
  <2> QED
    BY <2>1, <2>2 DEF Errands, InProgress, Carried
<1>2. rec \in History /\ rec.edge = errand[u].edge /\ rec.by = u /\ rec.entry = errand[u].entry
  BY <1>1 DEF Errands, History
<1>3. /\ timeline' = [timeline EXCEPT ![j] = Append(@, rec)] /\ UNCHANGED <<instance, ledger, entangled, severed, unread>>
      /\ errand' = [errand EXCEPT ![u].at = "update"]
  BY DEF record_transition, Step_, seen
<1>4. /\ timeline \in [Instances -> Seq(History)] /\ timeline'[j] \in Seq(History)
      /\ timeline'[j] = Append(timeline[j], rec)
      /\ Len(timeline'[j]) = Len(timeline[j]) + 1 /\ Len(timeline[j]) \in Nat
      /\ DOMAIN timeline'[j] = DOMAIN timeline[j] \cup {Len(timeline[j]) + 1}
      /\ \A n \in DOMAIN timeline[j] : timeline'[j][n] = timeline[j][n]
      /\ timeline'[j][Len(timeline[j]) + 1] = rec
      /\ \A i \in Instances \ {j} : timeline'[i] = timeline[i]
  <2>1. timeline \in [Instances -> Seq(History)] /\ timeline[j] \in Seq(History)
    BY <1>1 DEF ChangeInv, ChangeStored
  <2>2. timeline'[j] = Append(timeline[j], rec) /\ \A i \in Instances \ {j} : timeline'[i] = timeline[i]
    BY <1>1, <1>3, <2>1
  <2> QED
    BY <1>2, <2>1, <2>2, HistoryAppend
<1>5. /\ errand' \in [Users -> Errands] /\ \A v \in Users \ {u} : errand'[v] = errand[v]
      /\ errand'[u].at = "update" /\ errand'[u].on = j /\ errand'[u].edge = errand[u].edge
  BY <1>1, <1>3 DEF Errands, InProgress
<1>6. \A i : EntriesOf(i)' = EntriesOf(i)
  BY <1>3 DEF EntriesOf
<1>7. Places(timeline[j]) \subseteq Places(timeline'[j]) /\ rec.edge.to \in Places(timeline'[j])
  <2>1. PICK t, s, n : t = timeline[j] /\ s = timeline'[j] /\ n = Len(timeline[j]) + 1
    OBVIOUS
  <2>2. DOMAIN s = DOMAIN t \cup {n} /\ (\A k \in DOMAIN t : s[k] = t[k]) /\ s[n] = rec
    BY <1>4, <2>1
  <2> QED
    BY ONLY <2>1, <2>2, PlacesGrow
<1>8. ChangeStored' /\ Fresh'
  <2>1. ChangeStored'
    BY <1>1, <1>3, <1>4, <1>5 DEF ChangeInv, ChangeStored
  <2> QED
    BY <2>1, <1>1, <1>3, <1>4, <1>6 DEF ChangeInv, Fresh
<1>9. Alone'
  BY <1>1, <1>3, <1>5, AloneStays DEF ChangeInv
<1>10. ASSUME NEW i \in Instances PROVE Traced(i)'
  <2>1. CASE i # j
    BY <2>1, <1>3, <1>4, TracedStays DEF ChangeInv
  <2>2. CASE i = j
    BY <2>2, <1>1, <1>2, <1>3, <1>4 DEF ChangeInv, Traced
  <2> QED
    BY <2>1, <2>2
<1>11. ASSUME NEW i \in DOMAIN instance PROVE Reached(i)' /\ FourEyes(i)' /\ Told(i)'
  <2>1. Told(i) /\ Reached(i) /\ FourEyes(i) /\ i \in Instances
    BY InstancesAre DEF ChangeInv
  <2>2. CASE i # j
    <3>2. \A v \in Users : errand'[v] = errand[v] \/ (errand[v].on # i /\ errand'[v].on # i)
      BY <1>5, <2>2
    <3>3. Told(i)'
      BY <1>3, <1>4, <1>6, <2>1, <2>2, <3>2, ToldStays
    <3> QED
      BY SMTT(60), <1>3, <1>4, <2>1, <2>2, <3>3 DEF Reached, FourEyes, Places
  <2>3. CASE i = j
    <3>0. instance'[i] = instance[i] /\ unread' = unread
      BY <1>3
    <3>a. Reached(i)'
      BY <1>7, <2>1, <2>3, <3>0 DEF Reached
    <3>b. FourEyes(i)'
      <4> SUFFICES ASSUME i \notin unread, NEW n \in DOMAIN timeline'[i], timeline'[i][n].edge.name = "approve"
                   PROVE  timeline'[i][n].by # instance[i].by
        BY <3>0 DEF FourEyes
      <4>1. CASE n \in DOMAIN timeline[i]
        BY <4>1, <1>4, <2>1, <2>3 DEF FourEyes
      <4>2. CASE n = Len(timeline[i]) + 1
        BY <4>2, <1>1, <1>2, <1>4, <2>3
      <4> QED
        BY <4>1, <4>2, <1>4, <2>3
    <3>1. Reached(i)' /\ FourEyes(i)'
      BY <3>a, <3>b
    <3> SUFFICES ASSUME i \notin entangled \cup severed
                 PROVE  Told(i)'
      BY <1>3, <3>1 DEF Told
    <3>2. /\ PathTo(timeline[i], instance[i].state) /\ errand[u].edge.from = instance[i].state
          /\ Cardinality(EntriesOf(i)) = Len(timeline[i]) + 1
      BY <1>1, <2>1, <2>3 DEF Told
    <3>3. \A v \in Users : errand[v].on = i /\ errand[v].at \in InProgress => v = u
      BY <1>1, <2>3 DEF ChangeInv, Alone
    <3>4. \A v \in Users : errand'[v].on = i /\ errand'[v].at \in InProgress => v = u
      BY <1>5, <3>3
    <3>5. PathTo(Append(timeline[j], rec), rec.edge.to)
      <4>1. timeline[j] \in Seq(History)
        BY <1>1, <1>4
      <4> QED
        BY <4>1, <1>2, <2>3, <3>2, PathExtends
    <3>6. PathTo(timeline[i], errand[u].edge.to)'
      BY ZenonT(90), <1>2, <1>4, <1>5, <2>3, <3>5 DEF PathTo
    <3>7. InTransition(i)' /\ Cardinality(EntriesOf(i))' = Len(timeline[i])'
      BY <1>4, <1>5, <1>6, <2>3, <3>2 DEF InTransition
    <3> QED
      BY <1>5, <3>4, <3>6, <3>7 DEF Told, InProgress
  <2> QED
    BY <2>2, <2>3
<1>12. ASSUME NEW v \in Users PROVE Carried(v)'
  <2>0. Carried(v)
    BY DEF ChangeInv
  <2>1. CASE v = u
    BY <2>0, <2>1, <1>1, <1>2, <1>3, <1>5, <1>7 DEF Carried, InProgress
  <2>2. CASE v # u
    <3>1. \A i \in DOMAIN instance : Places(timeline[i]) \subseteq Places(timeline'[i])
      BY <1>4, <1>7, InstancesAre DEF ChangeInv
    <3> QED
      BY <2>0, <2>2, <1>3, <1>5, <3>1, CarriedStays
  <2> QED
    BY <2>1, <2>2
<1> QED
  BY <1>3, <1>8, <1>9, <1>10, <1>11, <1>12 DEF ChangeInv

LEMMA UpdateStep ==
    ASSUME ChangeInv, NEW u \in Users, update_instance_state(u)
    PROVE  ChangeInv'
<1> PICK j, to : j = errand[u].on /\ to = errand[u].edge.to
  OBVIOUS
<1>1. /\ errand \in [Users -> Errands] /\ errand[u] \in Errands /\ j \in DOMAIN instance /\ j \in Instances
      /\ to \in WorkflowStates /\ errand[u].at = "update" /\ errand[u].at \in InProgress /\ to \in Places(timeline[j])
  <2>1. errand \in [Users -> Errands] /\ errand[u].at = "update"
    BY DEF update_instance_state, ChangeInv, ChangeStored
  <2>2. Carried(u)
    BY DEF ChangeInv
  <2> QED
    BY <2>1, <2>2, EdgesAre DEF Errands, InProgress, Carried
<1>2. /\ instance' = [instance EXCEPT ![j].state = to] /\ UNCHANGED <<timeline, ledger, entangled, severed, unread>>
      /\ errand' = [errand EXCEPT ![u] = Nothing]
  BY DEF update_instance_state, Step_, seen
<1>3. /\ instance' \in Seq([state : WorkflowStates, by : Users]) /\ Len(instance') = Len(instance)
      /\ DOMAIN instance' = DOMAIN instance /\ instance'[j].state = to
      /\ \A i \in DOMAIN instance : instance'[i].by = instance[i].by /\ (i # j => instance'[i] = instance[i])
  <2>1. /\ instance \in Seq([state : WorkflowStates, by : Users]) /\ DOMAIN instance = 1..Len(instance)
        /\ \A i \in DOMAIN instance : instance[i] \in [state : WorkflowStates, by : Users]
    BY ElementOfSeq, InstancesAre DEF ChangeInv, ChangeStored
  <2>2. [instance[j] EXCEPT !.state = to] \in [state : WorkflowStates, by : Users]
    BY <1>1, <2>1
  <2>3. instance' = [instance EXCEPT ![j] = [instance[j] EXCEPT !.state = to]]
    BY <1>2
  <2>4. instance' \in Seq([state : WorkflowStates, by : Users]) /\ Len(instance') = Len(instance)
    BY <1>1, <2>1, <2>2, <2>3, ExceptSeq
  <2> QED
    BY <1>1, <2>1, <2>3, <2>4
<1>4. /\ errand' \in [Users -> Errands] /\ \A v \in Users \ {u} : errand'[v] = errand[v]
      /\ errand'[u].at = "idle"
  BY <1>1, <1>2, NothingTypes
<1>5. \A i : EntriesOf(i)' = EntriesOf(i)
  BY <1>2 DEF EntriesOf
<1>6. ChangeStored' /\ Fresh'
  BY <1>2, <1>3, <1>4, <1>5 DEF ChangeInv, ChangeStored, Fresh
<1>7. Alone'
  BY <1>1, <1>2, <1>4, AloneStays DEF ChangeInv, InProgress
<1>8. \A i \in Instances : Traced(i)'
  BY <1>2, TracedStays DEF ChangeInv
<1>9. ASSUME NEW i \in DOMAIN instance PROVE Reached(i)' /\ FourEyes(i)' /\ Told(i)'
  <2>1. Told(i) /\ Reached(i) /\ FourEyes(i)
    BY DEF ChangeInv
  <2>2. CASE i # j
    <3>1. \A v \in Users : \/ errand'[v] = errand[v]
                           \/ /\ errand[v].at \notin InProgress \/ errand[v].on # i
                              /\ errand'[v].at \notin InProgress \/ errand'[v].on # i
      BY <1>4, <2>2 DEF InProgress
    <3>2. Told(i)'
      BY <1>2, <1>3, <1>5, <2>1, <2>2, <3>1, ToldStays
    <3> QED
      BY <1>2, <1>3, <2>1, <2>2, <3>2 DEF Reached, FourEyes, Places
  <2>3. CASE i = j
    <3>1. Reached(i)' /\ FourEyes(i)'
      <4>1. instance'[i].state = to /\ Places(timeline[i])' = Places(timeline[i])
        BY <1>2, <1>3, <2>3 DEF Places
      <4>2. Reached(i)'
        BY <1>1, <2>3, <4>1 DEF Reached
      <4>3. FourEyes(i)'
        BY <1>1, <1>2, <1>3, <2>1, <2>3 DEF FourEyes
      <4> QED
        BY <4>2, <4>3
    <3> SUFFICES ASSUME i \notin entangled \cup severed
                 PROVE  Told(i)'
      BY <1>2, <3>1 DEF Told
    <3>2. PathTo(timeline[i], to) /\ Cardinality(EntriesOf(i)) = Len(timeline[i])
      BY <1>1, <2>1, <2>3 DEF Told
    <3>3. \A v \in Users : errand[v].on = i /\ errand[v].at \in InProgress => v = u
      BY <1>1, <2>3 DEF ChangeInv, Alone
    <3>4. \A v \in Users : ~(errand'[v].on = i /\ errand'[v].at \in InProgress)
      BY <1>4, <3>3 DEF InProgress
    <3>5. PathTo(timeline[i], instance[i].state)' /\ Cardinality(EntriesOf(i))' = Len(timeline[i])'
      BY <1>2, <1>3, <1>5, <2>3, <3>2 DEF PathTo
    <3> QED
      BY <3>4, <3>5 DEF Told, InProgress
  <2> QED
    BY <2>2, <2>3
<1>10. ASSUME NEW v \in Users PROVE Carried(v)'
  <2>1. CASE v = u
    BY <2>1, <1>4 DEF Carried, InProgress
  <2>2. CASE v # u
    <3>1. Carried(v) /\ errand'[v] = errand[v]
      BY <2>2, <1>4 DEF ChangeInv
    <3> QED
      BY <3>1, <1>2, <1>3, CarriedStays
  <2> QED
    BY <2>1, <2>2
<1> QED
  BY <1>2, <1>3, <1>6, <1>7, <1>8, <1>9, <1>10 DEF ChangeInv

LEMMA LoseStep ==
    ASSUME ChangeInv, NEW u \in Users, LoseRequest(u)
    PROVE  ChangeInv'
<1> PICK j : j = errand[u].on
  OBVIOUS
<1>1. /\ errand \in [Users -> Errands] /\ UNCHANGED <<instance, timeline, ledger, entangled, unread>>
      /\ errand' = [errand EXCEPT ![u] = Nothing]
      /\ severed' = severed \cup (IF errand[u].at \in {"record", "update"} THEN {j} ELSE {})
  BY DEF LoseRequest, Step_, ChangeInv, ChangeStored
<1>2. /\ errand' \in [Users -> Errands] /\ \A v \in Users \ {u} : errand'[v] = errand[v]
      /\ errand'[u].at = "idle"
  BY <1>1, NothingTypes
<1>3. \A i : EntriesOf(i)' = EntriesOf(i)
  BY <1>1 DEF EntriesOf
<1>4. ChangeStored' /\ Fresh'
  BY <1>1, <1>2, <1>3 DEF ChangeInv, ChangeStored, Fresh
<1>5. Alone'
  BY <1>1, <1>2, AloneStays DEF ChangeInv, InProgress
<1>6. \A i \in Instances : Traced(i)'
  BY <1>1, TracedStays DEF ChangeInv
<1>7. ASSUME NEW i \in DOMAIN instance PROVE Reached(i)' /\ FourEyes(i)' /\ Told(i)'
  <2>1. Told(i) /\ Reached(i) /\ FourEyes(i)
    BY DEF ChangeInv
  <2> SUFFICES Told(i)'
    BY <1>1, <2>1 DEF Reached, FourEyes, Places
  <2>2. CASE errand[u].at \notin InProgress \/ i # j
    <3>1. \A v \in Users : \/ errand'[v] = errand[v]
                           \/ /\ errand[v].at \notin InProgress \/ errand[v].on # i
                              /\ errand'[v].at \notin InProgress \/ errand'[v].on # i
      BY <1>2, <2>2 DEF InProgress
    <3>2. severed \subseteq severed'
      BY <1>1
    <3> QED
      BY <1>1, <1>3, <2>1, <3>1, <3>2, ToldStays
  <2>3. CASE errand[u].at \in InProgress /\ i = j
    <3> SUFFICES ASSUME i \notin entangled' \cup severed'
                 PROVE  Told(i)'
      BY DEF Told
    <3>1. errand[u].at = "audit" /\ i \notin entangled \cup severed
      BY <1>1, <2>3 DEF InProgress
    <3>2. PathTo(timeline[i], instance[i].state) /\ Cardinality(EntriesOf(i)) = Len(timeline[i])
      BY <2>1, <2>3, <3>1 DEF Told
    <3>3. \A v \in Users : errand[v].on = i /\ errand[v].at \in InProgress => v = u
      BY <2>3, <3>1 DEF ChangeInv, Alone
    <3>4. \A v \in Users : ~(errand'[v].on = i /\ errand'[v].at \in InProgress)
      BY <1>2, <3>3 DEF InProgress
    <3>5. PathTo(timeline[i], instance[i].state)' /\ Cardinality(EntriesOf(i))' = Len(timeline[i])'
      BY <1>1, <1>3, <3>2 DEF PathTo
    <3> QED
      BY <3>4, <3>5 DEF Told, InProgress
  <2> QED
    BY <2>2, <2>3
<1>8. ASSUME NEW v \in Users PROVE Carried(v)'
  <2>1. CASE v = u
    BY <2>1, <1>2 DEF Carried, InProgress
  <2>2. CASE v # u
    <3>1. Carried(v) /\ errand'[v] = errand[v]
      BY <2>2, <1>2 DEF ChangeInv
    <3> QED
      BY <3>1, <1>1, CarriedStays
  <2> QED
    BY <2>1, <2>2
<1> QED
  BY <1>1, <1>4, <1>5, <1>6, <1>7, <1>8 DEF ChangeInv

-----------------------------------------------------------------------------

LEMMA ChangeInitInv == ChangeInit => ChangeInv
<1> SUFFICES ASSUME ChangeInit PROVE ChangeInv
  OBVIOUS
<1>1. /\ instance = <<>> /\ ledger = <<>> /\ timeline = [i \in Instances |-> <<>>] /\ errand = [u \in Users |-> Nothing]
      /\ DOMAIN instance = {} /\ DOMAIN ledger = {}
  BY DEF ChangeInit
<1>2. ChangeStored
  BY <1>1, EmptySeq, NothingTypes, ChangeAssumption DEF ChangeStored
<1>3. \A i \in Instances : Traced(i) /\ timeline[i] = <<>> /\ EntriesOf(i) = {}
  BY <1>1 DEF Traced, EntriesOf
<1>4. \A u \in Users : errand[u].at \notin InProgress
  BY <1>1, NothingTypes DEF InProgress
<1> QED
  BY <1>1, <1>2, <1>3, <1>4 DEF ChangeInv, Fresh, Alone, Carried

LEMMA ChangeNextInv == ChangeInv /\ [ChangeNext]_changeVars => ChangeInv'
<1> SUFFICES ASSUME ChangeInv, [ChangeNext]_changeVars PROVE ChangeInv'
  OBVIOUS
<1>1. CASE UNCHANGED changeVars
  <2>1. UNCHANGED <<instance, timeline, ledger, errand, entangled, severed, unread>>
    BY <1>1 DEF changeVars
  <2>2. ChangeStored' /\ Fresh' /\ Alone'
    BY <2>1 DEF ChangeInv, ChangeStored, Fresh, Alone, EntriesOf
  <2>3. \A i \in Instances : Traced(i)'
    BY <2>1, TracedStays DEF ChangeInv
  <2>4. \A i \in DOMAIN instance : Told(i)'
    BY <2>1, ToldStays DEF ChangeInv, EntriesOf
  <2>5. \A i \in DOMAIN instance : Reached(i)' /\ FourEyes(i)'
    BY <2>1 DEF ChangeInv, Reached, FourEyes, Places
  <2>6. \A u \in Users : Carried(u)'
    BY <2>1, CarriedStays DEF ChangeInv
  <2> QED
    BY <2>1, <2>2, <2>3, <2>4, <2>5, <2>6 DEF ChangeInv
<1>2. CASE ChangeNext
  BY <1>2, CreateStep, NumberingStep, TransitionStep, LogStep, RecordStep, UpdateStep, LoseStep DEF ChangeNext
<1> QED
  BY <1>1, <1>2

\* Every row of the history has its row in the ledger, written before it by
\* the same actor, and a change request no two transitions met on and none
\* died on has a history that is one path to its state with nothing beside
\* it in the ledger: for every number of users, requests and losses.
THEOREM HistoryExplains == ChangeSpec => []HistoryExplainsState
<1> QED
  BY ChangeInitInv, ChangeNextInv, ChangeInvMeans, PTL DEF ChangeSpec

-----------------------------------------------------------------------------
(* The types *)

Creating == {"count", "insert"}
TakenNumbers == {i \in Instances : number[i] # 0}

\* A number is sought for an instance that has none, by the one request that
\* created it; so there is always a number left to try.
NumbersInv ==
    /\ number \in [Instances -> 0..MaxInstances]
    /\ \A i \in Instances \ DOMAIN instance : number[i] = 0
    /\ \A u \in Users :
          /\ errand[u].tries \in 0..MaxNumberAttempts /\ errand[u].n \in 0..MaxInstances
          /\ errand[u].at \in Creating => errand[u].on \in DOMAIN instance /\ number[errand[u].on] = 0
    /\ \A u, v \in Users :
          errand[u].at \in Creating /\ errand[v].at \in Creating /\ errand[u].on = errand[v].on => u = v
    /\ entangled \subseteq Instances /\ severed \subseteq Instances /\ unread \subseteq Instances

\* Nothing is numbered at the start.
LEMMA NumbersInitially == ChangeInit => NumbersInv
BY ChangeAssumption DEF ChangeInit, NumbersInv, Nothing, Creating

\* A request that ends, or goes on without creating, leaves the numbers so.
LEMMA NumbersRest ==
    ASSUME NumbersInv, NEW u \in Users, NEW v,
           errand' = [errand EXCEPT ![u] = v], v.at \notin Creating,
           v.tries \in 0..MaxNumberAttempts, v.n \in 0..MaxInstances,
           number' = number, DOMAIN errand = Users, DOMAIN instance' = DOMAIN instance,
           entangled' \subseteq Instances, severed' \subseteq Instances, unread' \subseteq Instances
    PROVE  NumbersInv'
<1>1. \A w \in Users : errand'[w] = IF w = u THEN v ELSE errand[w]
  OBVIOUS
<1> QED
  BY <1>1 DEF NumbersInv

\* As many numbers are taken as requests have been numbered: one that has
\* none of its own finds at most MaxInstances - 1 taken.
LEMMA ANumberIsLeft ==
    ASSUME NumbersInv, NEW i \in Instances, number[i] = 0
    PROVE  Cardinality(TakenNumbers) + 1 \in 0..MaxInstances
<1>1. MaxInstances \in Nat /\ MaxInstances >= 1
  BY ChangeAssumption
<1>2. IsFiniteSet(Instances) /\ Cardinality(Instances) = MaxInstances
  BY <1>1, FS_Interval DEF Instances
<1>3. IsFiniteSet(Instances \ {i}) /\ Cardinality(Instances \ {i}) = MaxInstances - 1
  BY <1>2, FS_RemoveElement
<1>4. TakenNumbers \subseteq Instances \ {i}
  BY DEF TakenNumbers
<1>5. Cardinality(TakenNumbers) \in Nat /\ Cardinality(TakenNumbers) <= MaxInstances - 1
  BY <1>3, <1>4, FS_Subset, FS_CardinalityType
<1> QED
  BY <1>1, <1>5

\* Every step of every request keeps them.
LEMMA NumbersKept ==
    ASSUME ChangeStored, NumbersInv, [ChangeNext]_changeVars
    PROVE  NumbersInv'
<1>0. /\ DOMAIN errand = Users /\ \A u \in Users : errand[u] \in Errands
      /\ DOMAIN instance = 1..Len(instance) /\ Len(instance) \in Nat /\ DOMAIN instance \subseteq Instances
  BY InstancesAre DEF ChangeStored
<1>00. entangled \subseteq Instances /\ severed \subseteq Instances /\ unread \subseteq Instances
  BY DEF NumbersInv
<1>01. /\ Nothing.at = "idle" /\ Nothing.tries \in 0..MaxNumberAttempts /\ Nothing.n \in 0..MaxInstances
       /\ "idle" \notin Creating
  BY ChangeAssumption DEF Nothing, Creating
<1>1. ASSUME NEW u \in Users, create_instance(u) PROVE NumbersInv'
  <2>1. PICK i : i = Len(instance) + 1
    OBVIOUS
  <2>2. i \in Instances /\ i \notin DOMAIN instance
    BY <1>0, <1>1, <2>1, ChangeAssumption DEF create_instance, Instances
  <2>3. PICK v : v = [Nothing EXCEPT !.at = "count", !.on = i]
    OBVIOUS
  <2>4. v.on = i /\ v.tries \in 0..MaxNumberAttempts /\ v.n \in 0..MaxInstances
    BY <2>3, ChangeAssumption DEF Nothing
  <2>5. /\ instance' = Append(instance, [state |-> "draft", by |-> u])
        /\ errand' = [errand EXCEPT ![u] = v]
        /\ UNCHANGED <<number, entangled, severed, unread>>
    BY <1>1, <2>1, <2>3 DEF create_instance, seen
  <2>6. DOMAIN instance' = DOMAIN instance \cup {i}
    <3>1. [state |-> "draft", by |-> u] \in [state : WorkflowStates, by : Users]
      BY DEF WorkflowStates
    <3> QED
      BY <2>1, <2>5, <3>1, HistoryAppend DEF ChangeStored
  <2>7. \A w \in Users : errand'[w] = IF w = u THEN v ELSE errand[w]
    BY <1>0, <2>5
  <2>8. number[i] = 0
    BY <2>2 DEF NumbersInv
  <2> QED
    BY <1>0, <2>2, <2>4, <2>5, <2>6, <2>7, <2>8 DEF NumbersInv
<1>2. ASSUME NEW u \in Users, generate_cr_number(u) PROVE NumbersInv'
  <2>1. UNCHANGED <<instance, number, entangled, severed, unread>> /\ errand[u].at = "count"
    BY <1>2 DEF generate_cr_number, seen
  <2>2. CASE errand[u].tries < MaxNumberAttempts
    <3>1. errand' = [errand EXCEPT ![u].at = "insert", ![u].tries = @ + 1, ![u].n = Cardinality(TakenNumbers) + 1]
      BY <1>2, <2>2 DEF generate_cr_number, TakenNumbers
    <3>2. PICK v : v = [errand[u] EXCEPT !.at = "insert", !.tries = @ + 1, !.n = Cardinality(TakenNumbers) + 1]
      OBVIOUS
    <3>3. errand[u] \in Errands /\ errand[u].tries \in 0..MaxNumberAttempts
      BY <1>0 DEF NumbersInv
    <3>4. v.on = errand[u].on /\ v.tries = errand[u].tries + 1 /\ v.n = Cardinality(TakenNumbers) + 1 /\ v.at = "insert"
      BY <3>2, <3>3 DEF Errands
    <3>5. \A w \in Users : errand'[w] = IF w = u THEN v ELSE errand[w]
      BY <1>0, <3>1, <3>2
    <3>6. errand[u].on \in Instances /\ number[errand[u].on] = 0
      BY <2>1, <1>0 DEF NumbersInv, Creating
    <3>7. v.n \in 0..MaxInstances
      BY <3>4, <3>6, ANumberIsLeft
    <3>8. v.tries \in 0..MaxNumberAttempts
      BY <2>2, <3>3, <3>4, ChangeAssumption
    <3>9. errand[u].at \in Creating
      BY <2>1 DEF Creating
    <3> HIDE DEF TakenNumbers
    <3> QED
      BY <2>1, <3>4, <3>5, <3>7, <3>8, <3>9 DEF NumbersInv
  <2>3. CASE ~(errand[u].tries < MaxNumberAttempts)
    <3>1. errand' = [errand EXCEPT ![u] = Nothing]
      BY <1>2, <2>3 DEF generate_cr_number, Step_
    <3> QED
      BY <1>0, <1>00, <1>01, <2>1, <3>1, NumbersRest
  <2> QED
    BY <2>2, <2>3
<1>3. ASSUME NEW u \in Users, InsertRequest(u) PROVE NumbersInv'
  <2>1. UNCHANGED <<instance, entangled, severed, unread>> /\ errand[u].at \in Creating
    BY <1>3 DEF InsertRequest, seen, Creating
  <2>2. CASE \E i \in Instances : number[i] = errand[u].n
    <3>1. number' = number /\ errand' = [errand EXCEPT ![u] = [errand[u] EXCEPT !.at = "count"]]
      BY <1>0, <1>3, <2>2 DEF InsertRequest, Step_
    <3>2. PICK v : v = [errand[u] EXCEPT !.at = "count"]
      OBVIOUS
    <3>3. v.on = errand[u].on /\ v.tries = errand[u].tries /\ v.n = errand[u].n
      BY <1>0, <3>2 DEF Errands
    <3>4. \A w \in Users : errand'[w] = IF w = u THEN v ELSE errand[w]
      BY <1>0, <3>1, <3>2
    <3> QED
      BY <2>1, <3>1, <3>3, <3>4 DEF NumbersInv
  <2>3. CASE ~\E i \in Instances : number[i] = errand[u].n
    <3>1. errand' = [errand EXCEPT ![u] = Nothing] /\ number' = [number EXCEPT ![errand[u].on] = errand[u].n]
      BY <1>3, <2>3 DEF InsertRequest, Step_
    <3>2. \A w \in Users : errand'[w] = IF w = u THEN Nothing ELSE errand[w]
      BY <1>0, <3>1
    <3>3. errand[u].on \in DOMAIN instance /\ errand[u].n \in 0..MaxInstances
      BY <2>1 DEF NumbersInv
    <3>4. \A w \in Users \ {u} : errand[w].at \in Creating => errand[w].on # errand[u].on
      BY <2>1 DEF NumbersInv
    <3>5. \A j \in Instances : number'[j] = IF j = errand[u].on THEN errand[u].n ELSE number[j]
      BY <3>1 DEF NumbersInv
    <3>6. number' \in [Instances -> 0..MaxInstances]
      BY <3>1, <3>3 DEF NumbersInv
    <3>7. /\ instance' = instance /\ \A i \in Instances \ DOMAIN instance : number'[i] = 0
          /\ (entangled \subseteq Instances /\ severed \subseteq Instances /\ unread \subseteq Instances)'
      BY <2>1, <3>3, <3>5 DEF NumbersInv
    <3>8. ASSUME NEW w \in Users
          PROVE  /\ errand'[w].tries \in 0..MaxNumberAttempts /\ errand'[w].n \in 0..MaxInstances
                 /\ errand'[w].at \in Creating => errand'[w].on \in DOMAIN instance /\ number'[errand'[w].on] = 0
      <4>1. CASE w = u
        BY <1>01, <3>2, <4>1
      <4>2. CASE w # u
        <5>1. errand'[w] = errand[w]
          BY <3>2, <4>2
        <5>2. errand[w].at \in Creating => errand[w].on \in Instances /\ errand[w].on # errand[u].on
          BY <1>0, <3>4, <4>2 DEF NumbersInv
        <5> QED
          BY <3>5, <5>1, <5>2 DEF NumbersInv
      <4> QED
        BY <4>1, <4>2
    <3>9. ASSUME NEW w \in Users, NEW x \in Users,
                 errand'[w].at \in Creating, errand'[x].at \in Creating, errand'[w].on = errand'[x].on
          PROVE  w = x
      <4>1. w # u /\ x # u
        BY <1>01, <3>2, <3>9
      <4>2. errand'[w] = errand[w] /\ errand'[x] = errand[x]
        BY <3>2, <4>1
      <4> QED
        BY <3>9, <4>2 DEF NumbersInv
    <3> QED
      BY <3>6, <3>7, <3>8, <3>9 DEF NumbersInv
  <2> QED
    BY <2>2, <2>3
<1>4. ASSUME NEW u \in Users, NEW i \in DOMAIN instance, NEW unseen \in BOOLEAN, cr_transition(u, i, unseen)
      PROVE  NumbersInv'
  <2>1. PICK e \in cr_state_machine :
            /\ errand' = [errand EXCEPT ![u] = [Nothing EXCEPT !.at = "audit", !.on = i, !.edge = e]]
            /\ UNCHANGED <<instance, number, severed>>
            /\ unread' \subseteq unread \cup {i} /\ entangled' \subseteq entangled \cup {i}
    BY <1>4 DEF cr_transition
  <2>2. PICK v : v = [Nothing EXCEPT !.at = "audit", !.on = i, !.edge = e]
    OBVIOUS
  <2>3. v.at \notin Creating /\ v.tries \in 0..MaxNumberAttempts /\ v.n \in 0..MaxInstances
    BY <2>2, ChangeAssumption DEF Nothing, Creating
  <2> QED
    BY <1>0, <1>00, <2>1, <2>2, <2>3, NumbersRest
<1>5. ASSUME NEW u \in Users, LogTransition(u) \/ record_transition(u) \/ update_instance_state(u) \/ LoseRequest(u)
      PROVE  NumbersInv'
  <2>1. errand[u] \in Errands /\ errand[u].on \in Instances
    BY <1>0 DEF Errands
  <2>2. UNCHANGED <<number, entangled, unread>> /\ severed' \subseteq severed \cup {errand[u].on}
    BY <1>5 DEF LogTransition, record_transition, update_instance_state, LoseRequest, seen
  <2>3. DOMAIN instance' = DOMAIN instance
    BY <1>5 DEF LogTransition, record_transition, update_instance_state, LoseRequest
  <2>4. \E v : /\ errand' = [errand EXCEPT ![u] = v] /\ v.at \notin Creating
               /\ v.tries \in {errand[u].tries, Nothing.tries} /\ v.n \in {errand[u].n, Nothing.n}
    <3>1. CASE LogTransition(u)
      <4>1. errand' = [errand EXCEPT ![u] = [errand[u] EXCEPT !.at = "record", !.entry = Len(ledger) + 1]]
        BY <1>0, <3>1 DEF LogTransition
      <4>2. PICK v : v = [errand[u] EXCEPT !.at = "record", !.entry = Len(ledger) + 1]
        OBVIOUS
      <4>3. v.at = "record" /\ v.tries = errand[u].tries /\ v.n = errand[u].n
        BY <2>1, <4>2 DEF Errands
      <4> QED
        BY <4>1, <4>2, <4>3 DEF Creating
    <3>2. CASE record_transition(u)
      <4>1. errand' = [errand EXCEPT ![u] = [errand[u] EXCEPT !.at = "update"]]
        BY <1>0, <3>2 DEF record_transition, Step_
      <4>2. PICK v : v = [errand[u] EXCEPT !.at = "update"]
        OBVIOUS
      <4>3. v.at = "update" /\ v.tries = errand[u].tries /\ v.n = errand[u].n
        BY <2>1, <4>2 DEF Errands
      <4> QED
        BY <4>1, <4>2, <4>3 DEF Creating
    <3>3. CASE update_instance_state(u) \/ LoseRequest(u)
      <4>1. errand' = [errand EXCEPT ![u] = Nothing]
        BY <3>3 DEF update_instance_state, LoseRequest, Step_
      <4> QED
        BY <1>01, <4>1
    <3> QED
      BY <1>5, <3>1, <3>2, <3>3
  <2>5. errand[u].tries \in 0..MaxNumberAttempts /\ errand[u].n \in 0..MaxInstances
    BY DEF NumbersInv
  <2> QED
    BY <1>0, <1>00, <1>01, <2>1, <2>2, <2>3, <2>4, <2>5, NumbersRest
<1>6. CASE UNCHANGED changeVars
  BY <1>6 DEF changeVars, NumbersInv
<1> QED
  BY <1>1, <1>2, <1>3, <1>4, <1>5, <1>6 DEF ChangeNext

\* The types as ChangeTypeOK states them.
LEMMA ChangeTypesMean == ChangeStored /\ NumbersInv => ChangeTypeOK
<1> SUFFICES ASSUME ChangeStored, NumbersInv PROVE ChangeTypeOK
  OBVIOUS
<1>1. DOMAIN instance \subseteq Instances /\ \A i \in DOMAIN instance : instance[i] \in [state : WorkflowStates, by : Users]
  BY InstancesAre, ElementOfSeq, LenProperties DEF ChangeStored
<1>2. \A k \in DOMAIN ledger : ledger[k] \in LedgerRows
  BY ElementOfSeq, LenProperties DEF ChangeStored
<1>3. ASSUME NEW i \in Instances, NEW k \in DOMAIN timeline[i] PROVE timeline[i][k] \in History
  <2>1. timeline[i] \in Seq(History)
    BY DEF ChangeStored
  <2> QED
    BY <2>1, ElementOfSeq, LenProperties
<1>4. \A u \in Users : /\ errand[u].at \in {"idle", "count", "insert", "audit", "record", "update"}
                       /\ errand[u].on \in Instances /\ errand[u].edge \in cr_state_machine
  BY DEF ChangeStored, Errands, InProgress
<1> QED
  BY <1>1, <1>2, <1>3, <1>4 DEF ChangeTypeOK, NumbersInv

\* Instances, numbers, history and ledger stay in their types; in particular
\* counting the requests and adding one never runs past the number of
\* instances, however many requests count at once and however often one tries.
THEOREM ChangeTypes == ChangeSpec => []ChangeTypeOK
<1>1. ChangeInv /\ NumbersInv /\ [ChangeNext]_changeVars => ChangeInv' /\ NumbersInv'
  BY ChangeNextInv, NumbersKept DEF ChangeInv
<1>2. ChangeInv /\ NumbersInv => ChangeTypeOK
  BY ChangeTypesMean DEF ChangeInv
<1> QED
  BY ChangeInitInv, NumbersInitially, <1>1, <1>2, PTL DEF ChangeSpec

-----------------------------------------------------------------------------
(***************************************************************************)
(* One fire per interval, for any number of servers and actions and any    *)
(* time. The property speaks of actions that are in the table; what makes  *)
(* it inductive is that nothing is claimed, counted or under way of an     *)
(* action that is not, that claims lie in the past, and that an action     *)
(* rests beyond every claim of it until an operator ends that.             *)
(***************************************************************************)

Kinds ==
    /\ clock \in Nat /\ upsets \in Nat
    /\ DOMAIN schedule \subseteq Actions
    /\ schedule \in [DOMAIN schedule -> [active : BOOLEAN, next : Nat, every : Intervals]]
    /\ DOMAIN tally = Actions /\ \A a \in Actions : tally[a].runs \in Nat
    /\ DOMAIN lost = Actions /\ \A a \in Actions : lost[a] \in Nat
    /\ DOMAIN claims = Actions /\ rests \in [Actions -> Nat]
    /\ \A a \in Actions : IsFiniteSet(claims[a]) /\ \A c \in claims[a] : c \in Nat /\ c <= clock
    /\ DOMAIN server = Servers
    /\ \A s \in Servers : server[s].at \in {"run", "record"} => server[s].action \in DOMAIN schedule

Spaced == \A a \in DOMAIN schedule : schedule[a].next >= rests[a]
Rested == upsets = 0 => \A a \in Actions : \A c \in claims[a] : c < rests[a]
NothingOfOthers == \A a \in Actions \ DOMAIN schedule : claims[a] = {} /\ rests[a] = 0

ClaimsBalance(a) ==
    /\ upsets = 0 => Cardinality(claims[a]) = tally[a].runs + Cardinality(BusyWith(a))
    /\ Cardinality(claims[a]) <= tally[a].runs + lost[a] + Cardinality(BusyWith(a))

SchedulerInv ==
    /\ Kinds /\ Spaced /\ Rested /\ NothingOfOthers
    /\ \A a \in Actions : ClaimsBalance(a)

LEMMA SchedulerInvMeans == SchedulerInv => OneFirePerInterval
BY DEF SchedulerInv, Kinds, Spaced, ClaimsBalance, OneFirePerInterval

\* BusyWith is a set of servers: finite, and it grows and shrinks by one.
LEMMA BusyFinite ==
    ASSUME NEW a
    PROVE  IsFiniteSet(BusyWith(a)) /\ Cardinality(BusyWith(a)) \in Nat
<1>1. BusyWith(a) \subseteq Servers
  BY DEF BusyWith
<1> QED
  BY <1>1, SchedulerAssumption, FS_Subset, FS_CardinalityType

LEMMA SchedulerInitInv == SchedulerInit => SchedulerInv
<1> SUFFICES ASSUME SchedulerInit PROVE SchedulerInv
  OBVIOUS
<1>1. Kinds /\ Spaced /\ Rested /\ NothingOfOthers
  BY FS_EmptySet DEF SchedulerInit, Kinds, Spaced, Rested, NothingOfOthers, Down
<1>2. ASSUME NEW a \in Actions PROVE ClaimsBalance(a)
  <2>1. BusyWith(a) = {} /\ claims[a] = {} /\ tally[a].runs = 0 /\ lost[a] = 0
    BY DEF SchedulerInit, BusyWith, Down
  <2> QED
    BY <2>1, FS_EmptySet DEF ClaimsBalance
<1> QED
  BY <1>1, <1>2 DEF SchedulerInv

\* Everything but the balance.
LEMMA KindsStep ==
    ASSUME SchedulerInv, [SchedulerNext]_schedulerVars
    PROVE  Kinds' /\ Spaced' /\ Rested' /\ NothingOfOthers'
<1> USE SchedulerAssumption DEF SchedulerInv, Kinds, Spaced, Rested, NothingOfOthers
<1>1. CASE Tick
  BY <1>1 DEF Tick
<1>2. ASSUME NEW s \in Servers, upsert_definition(s)
      PROVE  Kinds' /\ Spaced' /\ Rested' /\ NothingOfOthers'
  <2> PICK every \in [Handled[s] -> Intervals], enabled \in SUBSET (Handled[s] \ DOMAIN schedule) :
          schedule' = [a \in DOMAIN schedule \cup Handled[s] |->
                          IF a \notin DOMAIN schedule
                          THEN [active |-> a \in enabled, next |-> clock, every |-> every[a]]
                          ELSE IF a \in Handled[s] THEN Refreshed(a, every[a]) ELSE schedule[a]]
    BY <1>2 DEF upsert_definition
  <2>0. /\ server' = [server EXCEPT ![s] = Polling] /\ UNCHANGED <<clock, tally, claims, lost, rests, upsets>>
    BY <1>2 DEF upsert_definition
  <2>1. DOMAIN schedule' = DOMAIN schedule \cup Handled[s] /\ Handled[s] \subseteq Actions
    OBVIOUS
  <2>2. \A a \in DOMAIN schedule :
            /\ schedule'[a] \in [active : BOOLEAN, next : Nat, every : Intervals]
            /\ schedule'[a].next = schedule[a].next
    BY DEF Refreshed
  <2>3. \A a \in Handled[s] \ DOMAIN schedule :
            /\ schedule'[a] \in [active : BOOLEAN, next : Nat, every : Intervals]
            /\ schedule'[a].next = clock /\ claims[a] = {} /\ rests[a] = 0
    <3> TAKE a \in Handled[s] \ DOMAIN schedule
    <3>1. schedule'[a] = [active |-> a \in enabled, next |-> clock, every |-> every[a]]
      OBVIOUS
    <3>2. (a \in enabled) \in BOOLEAN /\ every[a] \in Intervals /\ a \in Actions
      BY <2>1
    <3> QED
      BY Zenon, <3>1, <3>2
  <2>4. Kinds'
    <3>1. schedule' \in [DOMAIN schedule' -> [active : BOOLEAN, next : Nat, every : Intervals]]
      BY <2>1, <2>2, <2>3
    <3> QED
      BY <2>0, <2>1, <3>1 DEF Polling
  <2> QED
    BY <2>0, <2>1, <2>2, <2>3, <2>4
<1>3. ASSUME NEW s \in Servers, HandlerDone(s)
      PROVE  Kinds' /\ Spaced' /\ Rested' /\ NothingOfOthers'
  BY <1>3 DEF HandlerDone
<1>4. ASSUME NEW s \in Servers, record_result(s)
      PROVE  Kinds' /\ Spaced' /\ Rested' /\ NothingOfOthers'
  <2>1. server[s].action \in Actions
    BY <1>4 DEF record_result
  <2> QED
    BY <1>4, <2>1 DEF record_result, Polling
<1>5. ASSUME NEW s \in Servers, LoseRun(s)
      PROVE  Kinds' /\ Spaced' /\ Rested' /\ NothingOfOthers'
  <2>1. /\ UNCHANGED <<clock, schedule, tally, claims, rests>> /\ upsets' = upsets + 1
        /\ server[s].action \in Actions /\ lost' = [lost EXCEPT ![server[s].action] = @ + 1]
        /\ server' = [server EXCEPT ![s] = Down] \/ server' = [server EXCEPT ![s] = Polling]
    BY <1>5 DEF LoseRun, Upset
  <2>2. DOMAIN lost' = Actions /\ \A a \in Actions : lost'[a] \in Nat
    BY <2>1
  <2>3. DOMAIN server' = Servers /\ \A t \in Servers : server'[t].at \in {"run", "record"} => server'[t].action \in DOMAIN schedule
    BY <2>1 DEF Polling, Down
  <2>4. Kinds'
    BY <2>1, <2>2, <2>3
  <2> QED
    BY <2>1, <2>4
<1>6. ASSUME NEW s \in Servers, NEW a \in DOMAIN schedule, claim_due(s, a)
      PROVE  Kinds' /\ Spaced' /\ Rested' /\ NothingOfOthers'
  <2>1. a \in Actions /\ schedule[a].every \in Nat \ {0}
    OBVIOUS
  <2>2. NextCall(a) \in Nat /\ NextCall(a) >= clock + schedule[a].every
    BY <2>1 DEF NextCall, Greatest
  <2>3. DOMAIN schedule' = DOMAIN schedule /\ schedule'[a].next = NextCall(a) /\ schedule'[a].active = schedule[a].active
        /\ schedule'[a].every = schedule[a].every
    BY <1>6 DEF claim_due
  <2>4. \A x \in DOMAIN schedule \ {a} : schedule'[x] = schedule[x]
    BY <1>6 DEF claim_due
  <2>5. DOMAIN claims' = Actions /\ claims'[a] = claims[a] \cup {clock} /\ (\A x \in Actions \ {a} : claims'[x] = claims[x])
        /\ rests' \in [Actions -> Nat] /\ rests'[a] = clock + schedule[a].every /\ \A x \in Actions \ {a} : rests'[x] = rests[x]
    BY <1>6, <2>1 DEF claim_due
  <2>6. IsFiniteSet(claims'[a])
    <3>1. IsFiniteSet(claims[a]) /\ claims'[a] = claims[a] \cup {clock}
      BY <2>1, <2>5
    <3> QED
      BY ONLY <3>1, FS_AddElement
  <2>7. Kinds'
    BY <1>6, <2>1, <2>2, <2>3, <2>4, <2>5, <2>6 DEF claim_due, Running
  <2>8. Spaced'
    <3>1. schedule'[a].next >= rests'[a]
      BY <2>2, <2>3, <2>5
    <3>2. \A x \in DOMAIN schedule \ {a} : schedule'[x].next >= rests'[x]
      BY <2>1, <2>4, <2>5
    <3> QED
      BY ONLY <2>3, <3>1, <3>2 DEF Spaced
  <2>9. Rested'
    BY <1>6, <2>1, <2>5 DEF claim_due
  <2> QED
    BY <2>3, <2>5, <2>7, <2>8, <2>9
<1>7. ASSUME NEW a \in DOMAIN schedule, Operator(a)
      PROVE  Kinds' /\ Spaced' /\ Rested' /\ NothingOfOthers'
  <2>1. upsets' = upsets + 1 /\ UNCHANGED <<clock, tally, server, claims, lost>>
    BY <1>7 DEF Operator, Upset
  <2>2. CASE schedule' = [schedule EXCEPT ![a].active = ~@] /\ rests' = rests
    <3>1. \A x \in DOMAIN schedule : schedule'[x].next = schedule[x].next
      BY <2>2
    <3>2. DOMAIN schedule' = DOMAIN schedule /\ (~schedule[a].active) \in BOOLEAN
      BY <2>2
    <3>3. schedule' \in [DOMAIN schedule -> [active : BOOLEAN, next : Nat, every : Intervals]]
      BY ZenonT(90), <2>2, <3>2
    <3>4. Kinds'
      BY <2>1, <2>2, <3>2, <3>3
    <3> QED
      BY <2>1, <2>2, <3>1, <3>2, <3>4
  <2>3. CASE schedule' = [schedule EXCEPT ![a].next = clock] /\ rests' = [rests EXCEPT ![a] = 0]
    <3>1. \A x \in DOMAIN schedule \ {a} : schedule'[x] = schedule[x]
      BY <2>3
    <3> QED
      BY <2>1, <2>3, <3>1
  <2> QED
    BY <1>7, <2>2, <2>3 DEF Operator
<1>8. CASE UNCHANGED schedulerVars
  BY <1>8 DEF schedulerVars
<1> QED
  BY <1>1, <1>2, <1>3, <1>4, <1>5, <1>6, <1>7, <1>8 DEF SchedulerNext

\* A claim adds one to both sides: its time was not claimed before unless
\* something was upset.
LEMMA ClaimBalance ==
    ASSUME SchedulerInv, NEW s \in Servers, NEW b \in DOMAIN schedule, claim_due(s, b), NEW a \in Actions
    PROVE  ClaimsBalance(a)'
<1> USE DEF SchedulerInv, Kinds
<1>0. ClaimsBalance(a) /\ b \in Actions
  OBVIOUS
<1>1. CASE a # b
  <2>1. BusyWith(a)' = BusyWith(a)
    BY <1>1 DEF claim_due, BusyWith, Running
  <2> QED
    BY <1>0, <1>1, <2>1 DEF claim_due, ClaimsBalance
<1>2. CASE a = b
  <2>1. BusyWith(a)' = BusyWith(a) \cup {s} /\ s \notin BusyWith(a)
    BY <1>2 DEF claim_due, BusyWith, Running
  <2>2. Cardinality(BusyWith(a)') = Cardinality(BusyWith(a)) + 1
    BY <2>1, BusyFinite, FS_AddElement
  <2>3. claims'[a] = claims[a] \cup {clock} /\ tally' = tally /\ lost' = lost /\ upsets' = upsets
    BY <1>0, <1>2 DEF claim_due
  <2>4. IsFiniteSet(claims[a]) /\ Cardinality(claims[a]) \in Nat
    BY FS_CardinalityType
  <2>6. \/ Cardinality(claims'[a]) = Cardinality(claims[a]) + 1
        \/ Cardinality(claims'[a]) = Cardinality(claims[a])
    BY ONLY <2>3, <2>4, FS_AddElement
  <2>7. tally[a].runs \in Nat /\ lost[a] \in Nat /\ Cardinality(BusyWith(a)) \in Nat
    BY BusyFinite
  <2>5. upsets = 0 => Cardinality(claims'[a]) = Cardinality(claims[a]) + 1
    <3> SUFFICES ASSUME upsets = 0 PROVE clock \notin claims[a]
      BY <2>3, FS_AddElement
    <3>1. schedule[a].next <= clock
      BY <1>2 DEF claim_due, Due
    <3>2. schedule[a].next >= rests[a] /\ \A c \in claims[a] : c < rests[a]
      BY <1>2 DEF Spaced, Rested
    <3> QED
      BY <1>2, <3>1, <3>2
  <2> QED
    BY ONLY <1>0, <2>2, <2>3, <2>4, <2>5, <2>6, <2>7 DEF ClaimsBalance
<1> QED
  BY <1>1, <1>2

\* A result moves one from the runs under way to the runs counted.
LEMMA RecordBalance ==
    ASSUME SchedulerInv, NEW s \in Servers, record_result(s), NEW a \in Actions
    PROVE  ClaimsBalance(a)'
<1> USE DEF SchedulerInv, Kinds
<1>0. ClaimsBalance(a) /\ server[s].action \in Actions /\ claims' = claims /\ lost' = lost /\ upsets' = upsets
  BY DEF record_result
<1>1. CASE a # server[s].action
  <2>1. BusyWith(a)' = BusyWith(a) /\ tally'[a] = tally[a]
    BY <1>1 DEF record_result, BusyWith, Polling
  <2> QED
    BY <1>0, <2>1 DEF ClaimsBalance
<1>2. CASE a = server[s].action
  <2>1. BusyWith(a)' = BusyWith(a) \ {s} /\ s \in BusyWith(a)
    BY <1>2 DEF record_result, BusyWith, Polling
  <2>2. Cardinality(BusyWith(a)') = Cardinality(BusyWith(a)) - 1
    BY <2>1, BusyFinite, FS_RemoveElement
  <2>3. tally'[a].runs = tally[a].runs + 1
    BY <1>0, <1>2 DEF record_result
  <2>4. Cardinality(claims[a]) \in Nat
    BY FS_CardinalityType
  <2> QED
    BY <1>0, <2>2, <2>3, <2>4, BusyFinite DEF ClaimsBalance
<1> QED
  BY <1>1, <1>2

\* A lost run moves one from the runs under way to the runs lost.
LEMMA LossBalance ==
    ASSUME SchedulerInv, NEW s \in Servers, LoseRun(s), NEW a \in Actions
    PROVE  ClaimsBalance(a)'
<1> USE DEF SchedulerInv, Kinds
<1>0. ClaimsBalance(a) /\ server[s].action \in Actions /\ claims' = claims /\ tally' = tally /\ upsets' # 0
  BY DEF LoseRun, Upset
<1>1. CASE a # server[s].action
  <2>1. BusyWith(a)' = BusyWith(a) /\ lost'[a] = lost[a]
    BY <1>1 DEF LoseRun, BusyWith, Polling, Down
  <2> QED
    BY <1>0, <2>1 DEF ClaimsBalance
<1>2. CASE a = server[s].action
  <2>1. BusyWith(a)' = BusyWith(a) \ {s} /\ s \in BusyWith(a)
    BY <1>2 DEF LoseRun, BusyWith, Polling, Down
  <2>2. Cardinality(BusyWith(a)') = Cardinality(BusyWith(a)) - 1
    BY <2>1, BusyFinite, FS_RemoveElement
  <2>3. lost'[a] = lost[a] + 1
    BY <1>0, <1>2 DEF LoseRun
  <2>4. Cardinality(claims[a]) \in Nat
    BY FS_CardinalityType
  <2> QED
    BY <1>0, <2>2, <2>3, <2>4, BusyFinite DEF ClaimsBalance
<1> QED
  BY <1>1, <1>2

\* No other step touches what is balanced.
LEMMA BalanceStep ==
    ASSUME SchedulerInv, [SchedulerNext]_schedulerVars, NEW a \in Actions
    PROVE  ClaimsBalance(a)'
<1> USE DEF SchedulerInv, Kinds
<1>0. ClaimsBalance(a)
  OBVIOUS
<1>1. CASE Tick
  BY <1>0, <1>1 DEF Tick, ClaimsBalance, BusyWith
<1>2. ASSUME NEW s \in Servers, upsert_definition(s)
      PROVE  ClaimsBalance(a)'
  <2>1. BusyWith(a)' = BusyWith(a)
    BY <1>2 DEF upsert_definition, BusyWith, Polling
  <2> QED
    BY <1>0, <1>2, <2>1 DEF upsert_definition, ClaimsBalance
<1>3. ASSUME NEW s \in Servers, HandlerDone(s)
      PROVE  ClaimsBalance(a)'
  <2>1. BusyWith(a)' = BusyWith(a)
    BY <1>3 DEF HandlerDone, BusyWith
  <2> QED
    BY <1>0, <1>3, <2>1 DEF HandlerDone, ClaimsBalance
<1>4. ASSUME NEW b \in DOMAIN schedule, Operator(b)
      PROVE  ClaimsBalance(a)'
  <2>1. BusyWith(a)' = BusyWith(a) /\ upsets' # 0 /\ claims' = claims /\ tally' = tally /\ lost' = lost
    BY <1>4 DEF Operator, Upset, BusyWith
  <2> QED
    BY <1>0, <2>1 DEF ClaimsBalance
<1>5. CASE UNCHANGED schedulerVars
  BY <1>0, <1>5 DEF schedulerVars, ClaimsBalance, BusyWith
<1> QED
  BY <1>1, <1>2, <1>3, <1>4, <1>5, ClaimBalance, RecordBalance, LossBalance DEF SchedulerNext

\* One fire per claim and a full interval after the last one (claim_due),
\* and every claim is a recorded result, a lost run or a run under way
\* (record_result), for every number of servers, restarts and crashes.
THEOREM FiresOncePerInterval == SchedulerSpec => []OneFirePerInterval
<1>1. SchedulerInv /\ [SchedulerNext]_schedulerVars => SchedulerInv'
  BY KindsStep, BalanceStep DEF SchedulerInv, Kinds
<1> QED
  BY SchedulerInitInv, <1>1, SchedulerInvMeans, PTL DEF SchedulerSpec

-----------------------------------------------------------------------------
(* The types *)

\* What the rows hold besides: results in their range, claims of the past.
SchedulerNotes ==
    /\ clock <= MaxTime
    /\ \A a \in Actions : tally[a].errors \in 0..tally[a].runs /\ tally[a].failing \in BOOLEAN
    /\ \A s \in Servers : server[s].at \in {"down", "poll", "run", "record"}
    /\ \A s \in Servers : server[s].at = "record" => server[s].ok \in BOOLEAN
    /\ claims \in [Actions -> SUBSET Nat] /\ lost \in [Actions -> Nat]

\* There are no results and no claims at the start.
LEMMA SchedulerNotesInitially == SchedulerInit => SchedulerNotes
<1> SUFFICES ASSUME SchedulerInit PROVE SchedulerNotes
  OBVIOUS
<1>1. clock <= MaxTime
  BY SchedulerAssumption DEF SchedulerInit
<1>2. \A a \in Actions : tally[a].errors \in 0..tally[a].runs /\ tally[a].failing \in BOOLEAN
  <2>1. [runs |-> 0, errors |-> 0, failing |-> FALSE] \in [runs : {0}, errors : {0}, failing : BOOLEAN]
    OBVIOUS
  <2>2. \A a \in Actions : tally[a] \in [runs : {0}, errors : {0}, failing : BOOLEAN]
    BY <2>1 DEF SchedulerInit
  <2> QED
    BY <2>2
<1>3. \A s \in Servers : server[s].at = "down"
  BY DEF SchedulerInit, Down
<1>4. claims \in [Actions -> SUBSET Nat] /\ lost \in [Actions -> Nat]
  BY DEF SchedulerInit
<1> QED
  BY <1>1, <1>2, <1>3, <1>4 DEF SchedulerNotes

\* Every step of a server, an operator or the clock keeps them.
LEMMA SchedulerNotesKept ==
    ASSUME Kinds, SchedulerNotes, [SchedulerNext]_schedulerVars
    PROVE  SchedulerNotes'
<1> USE SchedulerAssumption DEF SchedulerNotes, Kinds
<1>1. CASE Tick
  BY <1>1 DEF Tick
<1>2. ASSUME NEW s \in Servers, upsert_definition(s) PROVE SchedulerNotes'
  BY <1>2 DEF upsert_definition, Polling
<1>3. ASSUME NEW s \in Servers, HandlerDone(s) PROVE SchedulerNotes'
  <2>1. PICK ok \in BOOLEAN :
            server' = [server EXCEPT ![s] = [at |-> "record", action |-> server[s].action, since |-> server[s].since, ok |-> ok]]
    BY <1>3 DEF HandlerDone
  <2>2. UNCHANGED <<clock, tally, claims, lost>>
    BY <1>3 DEF HandlerDone
  <2>3. \A x \in Servers : server'[x] = 
            IF x = s THEN [at |-> "record", action |-> server[s].action, since |-> server[s].since, ok |-> ok] ELSE server[x]
    BY <2>1
  <2> QED
    BY <2>2, <2>3
<1>4. ASSUME NEW s \in Servers, record_result(s) PROVE SchedulerNotes'
  <2>1. PICK a : a = server[s].action
    OBVIOUS
  <2>2. a \in Actions
    BY <1>4, <2>1 DEF record_result
  <2>3. /\ tally' = [tally EXCEPT ![a] = [runs |-> tally[a].runs + 1,
                                          errors |-> tally[a].errors + (IF server[s].ok THEN 0 ELSE 1),
                                          failing |-> ~server[s].ok]]
        /\ server' = [server EXCEPT ![s] = Polling]
        /\ UNCHANGED <<clock, claims, lost>>
    BY <1>4, <2>1, <2>2 DEF record_result
  <2>4. \A x \in Actions : tally'[x].errors \in 0..tally'[x].runs /\ tally'[x].failing \in BOOLEAN
    <3>1. tally[a].runs \in Nat /\ tally[a].errors \in 0..tally[a].runs /\ server[s].ok \in BOOLEAN
      BY <1>4, <2>2 DEF record_result
    <3>2. \A x \in Actions : x # a => tally'[x] = tally[x]
      BY <2>3
    <3>3. /\ tally'[a].runs = tally[a].runs + 1 /\ tally'[a].failing = ~server[s].ok
          /\ tally'[a].errors = tally[a].errors + (IF server[s].ok THEN 0 ELSE 1)
      BY <2>2, <2>3
    <3>4. tally'[a].errors \in 0..tally'[a].runs /\ tally'[a].failing \in BOOLEAN
      BY <3>1, <3>3
    <3> QED
      BY <3>2, <3>4
  <2> QED
    BY <2>3, <2>4 DEF Polling
<1>5. ASSUME NEW s \in Servers, LoseRun(s) PROVE SchedulerNotes'
  BY SMTT(60), <1>5 DEF LoseRun, Down, Polling
<1>6. ASSUME NEW s \in Servers, NEW a \in DOMAIN schedule, claim_due(s, a) PROVE SchedulerNotes'
  BY <1>6 DEF claim_due, Running
<1>7. ASSUME NEW a \in DOMAIN schedule, Operator(a) PROVE SchedulerNotes'
  BY <1>7 DEF Operator
<1>8. CASE UNCHANGED schedulerVars
  BY <1>8 DEF schedulerVars
<1> QED
  BY <1>1, <1>2, <1>3, <1>4, <1>5, <1>6, <1>7, <1>8 DEF SchedulerNext

\* The types as SchedulerTypeOK states them.
LEMMA SchedulerTypesMean == Kinds /\ SchedulerNotes => SchedulerTypeOK
<1> SUFFICES ASSUME Kinds, SchedulerNotes PROVE SchedulerTypeOK
  OBVIOUS
<1>1. clock \in Times
  BY SchedulerAssumption DEF Kinds, SchedulerNotes, Times
<1>2. claims \in [Actions -> SUBSET Times]
  BY SchedulerAssumption DEF Kinds, SchedulerNotes, Times
<1>3. \A a \in DOMAIN schedule : schedule[a].active \in BOOLEAN /\ schedule[a].next \in Nat /\ schedule[a].every \in Intervals
  BY DEF Kinds
<1> QED
  BY <1>1, <1>2, <1>3 DEF Kinds, SchedulerNotes, SchedulerTypeOK

\* scheduled_actions and its servers stay in their types: an action has no
\* more errors than runs, and nothing is claimed at a time that is to come.
THEOREM SchedulerTypes == SchedulerSpec => []SchedulerTypeOK
<1>1. SchedulerInv /\ SchedulerNotes /\ [SchedulerNext]_schedulerVars => SchedulerInv' /\ SchedulerNotes'
  BY KindsStep, BalanceStep, SchedulerNotesKept DEF SchedulerInv, Kinds
<1>2. SchedulerInv /\ SchedulerNotes => SchedulerTypeOK
  BY SchedulerTypesMean DEF SchedulerInv
<1> QED
  BY SchedulerInitInv, SchedulerNotesInitially, <1>1, <1>2, PTL DEF SchedulerSpec

-----------------------------------------------------------------------------
(***************************************************************************)
(* A sealed set stays as it was sealed, for any number of freezes, keys,   *)
(* versions and changes of the data. The property is inductive together    *)
(* with the types: what keeps it is that a freeze starts on open sets only *)
(* and that an insert leaves the keys that are there alone.                *)
(***************************************************************************)

\* Frozen, without the union: a function from some of the keys.
LEMMA FrozenMeans ==
    ASSUME NEW r
    PROVE  r \in Frozen <=> (r = [x \in DOMAIN r |-> r[x]] /\ DOMAIN r \subseteq Keys
                             /\ \A x \in DOMAIN r : r[x] \in 0..MaxLive)
BY DEF Frozen

\* Taking a key out, putting one in: still records of the keys; what was in
\* stays, and nothing but the new key is added.
LEMMA WithoutIsFrozen ==
    ASSUME NEW r \in Frozen, NEW k
    PROVE  Without(r, k) \in Frozen
<1>1. DOMAIN r \subseteq Keys /\ \A x \in DOMAIN r : r[x] \in 0..MaxLive
  BY FrozenMeans
<1>2. Without(r, k) \in [DOMAIN r \ {k} -> 0..MaxLive]
  BY <1>1 DEF Without
<1>3. DOMAIN r \ {k} \in SUBSET Keys
  BY <1>1
<1> QED
  BY <1>2, <1>3 DEF Frozen

\* No records at all.
LEMMA EmptyIsFrozen == [k \in {} |-> 0] \in Frozen
<1>1. [k \in {} |-> 0] \in [{} -> 0..MaxLive]
  OBVIOUS
<1>2. {} \in SUBSET Keys
  OBVIOUS
<1> QED
  BY <1>1, <1>2 DEF Frozen

LEMMA InactiveTypes == Inactive \in [on : {0} \cup Versions, todo : Frozen]
BY EmptyIsFrozen DEF Inactive

LEMMA InsertedKeeps ==
    ASSUME NEW r \in Frozen, NEW k \in Keys, NEW value \in 0..MaxLive
    PROVE  /\ Inserted(r, k, value) \in Frozen
           /\ DOMAIN Inserted(r, k, value) = DOMAIN r \cup {k}
           /\ \A x \in DOMAIN r : Inserted(r, k, value)[x] = r[x]
<1>1. DOMAIN r \subseteq Keys /\ \A x \in DOMAIN r : r[x] \in 0..MaxLive
  BY FrozenMeans
<1>2. Inserted(r, k, value) \in [DOMAIN r \cup {k} -> 0..MaxLive]
  BY <1>1 DEF Inserted
<1> QED
  BY <1>1, <1>2 DEF Inserted, Frozen

SnapshotInv == SnapshotTypeOK /\ SealedStaysAsSealed

\* There is nothing sealed at the start.
LEMMA SnapshotInitInv == SnapshotInit => SnapshotInv
<1> SUFFICES ASSUME SnapshotInit PROVE SnapshotInv
  OBVIOUS
<1>1. Unborn.records \in Frozen /\ Inactive.todo \in Frozen
  BY EmptyIsFrozen DEF Unborn, Inactive
<1>2. SnapshotTypeOK
  BY <1>1, SnapshotAssumption DEF SnapshotInit, SnapshotTypeOK, Unborn, Inactive
<1>3. SealedStaysAsSealed
  BY DEF SnapshotInit, SealedStaysAsSealed, Unborn
<1> QED
  BY <1>2, <1>3 DEF SnapshotInv

\* Every step keeps the types.
LEMMA SnapshotTypeStep ==
    ASSUME SnapshotTypeOK, [SnapshotNext]_snapshotVars
    PROVE  SnapshotTypeOK'
<1> USE SnapshotAssumption DEF SnapshotTypeOK
<1>1. CASE DataChanges
  BY <1>1 DEF DataChanges, Frozen
<1>2. ASSUME NEW v \in Versions, create_set(v)
      PROVE  SnapshotTypeOK'
  BY <1>2 DEF create_set
<1>3. ASSUME NEW v \in Versions, seal(v)
      PROVE  SnapshotTypeOK'
  BY <1>3 DEF seal
<1>4. ASSUME NEW f \in Freezers, NEW v \in Versions, NEW K \in SUBSET Keys, freeze(f, v, K)
      PROVE  SnapshotTypeOK'
  <2>1. [k \in K |-> live] \in Frozen
    BY DEF Frozen
  <2> QED
    BY <1>4, <2>1 DEF freeze
<1>5. ASSUME NEW f \in Freezers, NEW k \in Keys, InsertBatch(f, k)
      PROVE  SnapshotTypeOK'
  <2> DEFINE v == freezer[f].on
             todo == freezer[f].todo
  <2>1. v \in Versions /\ todo \in Frozen /\ k \in DOMAIN todo
    BY <1>5 DEF InsertBatch
  <2>2. Inserted(sets[v].records, k, todo[k]) \in Frozen
    BY <2>1, FrozenMeans, InsertedKeeps
  <2>3. Without(todo, k) \in Frozen
    BY <2>1, WithoutIsFrozen
  <2>4. sets' \in [Versions -> [status : {"none", "open", "sealed"}, records : Frozen]]
    BY <1>5, <2>1, <2>2 DEF InsertBatch
  <2>5. freezer' \in [Freezers -> [on : {0} \cup Versions, todo : Frozen]]
    BY <1>5, <2>1, <2>3, InactiveTypes DEF InsertBatch
  <2> QED
    BY <1>5, <2>4, <2>5 DEF InsertBatch
<1>6. ASSUME NEW f \in Freezers, StopFreeze(f)
      PROVE  SnapshotTypeOK'
  BY <1>6, InactiveTypes DEF StopFreeze
<1>7. CASE UNCHANGED snapshotVars
  BY <1>7 DEF snapshotVars
<1> QED
  BY <1>1, <1>2, <1>3, <1>4, <1>5, <1>6, <1>7 DEF SnapshotNext

\* What the property says of one set.
Kept(v) ==
    LET now == sets[v].records
    IN /\ DOMAIN sealedAs[v] \subseteq DOMAIN now
       /\ \A k \in DOMAIN sealedAs[v] : now[k] = sealedAs[v][k]
       /\ v \notin overtaken => DOMAIN now = DOMAIN sealedAs[v] /\ \A f \in Freezers : freezer[f].on # v

LEMMA KeptMeans == SealedStaysAsSealed <=> \A v \in Versions : sets[v].status = "sealed" => Kept(v)
BY DEF SealedStaysAsSealed, Kept

\* Every step keeps every sealed set.
LEMMA SealedStep ==
    ASSUME SnapshotInv, SnapshotTypeOK', [SnapshotNext]_snapshotVars
    PROVE  SealedStaysAsSealed'
<1> SUFFICES ASSUME NEW w \in Versions, sets'[w].status = "sealed"
             PROVE  Kept(w)'
  BY DEF SealedStaysAsSealed, Kept
<1> USE DEF SnapshotInv, SnapshotTypeOK
<1>0. sets[w].status = "sealed" => Kept(w)
  BY KeptMeans
<1>1. CASE DataChanges
  BY <1>0, <1>1 DEF DataChanges, Kept
<1>2. ASSUME NEW v \in Versions, create_set(v)
      PROVE  Kept(w)'
  BY <1>0, <1>2 DEF create_set, Kept
<1>3. ASSUME NEW v \in Versions, seal(v)
      PROVE  Kept(w)'
  <2>1. CASE v = w
    BY <1>3, <2>1 DEF seal, Kept
  <2>2. CASE v # w
    BY <1>0, <1>3, <2>2 DEF seal, Kept
  <2> QED
    BY <2>1, <2>2
<1>4. ASSUME NEW f \in Freezers, NEW v \in Versions, NEW K \in SUBSET Keys, freeze(f, v, K)
      PROVE  Kept(w)'
  <2>1. v # w /\ sets[w].status = "sealed"
    BY <1>4 DEF freeze
  <2>2. \A g \in Freezers : freezer'[g].on = w => freezer[g].on = w
    BY <1>4, <2>1 DEF freeze
  <2> QED
    BY <1>0, <1>4, <2>1, <2>2 DEF freeze, Kept
<1>5. ASSUME NEW f \in Freezers, NEW k \in Keys, InsertBatch(f, k)
      PROVE  Kept(w)'
  <2> DEFINE v == freezer[f].on
             todo == freezer[f].todo
  <2>1. v \in Versions /\ todo \in Frozen /\ k \in DOMAIN todo /\ todo[k] \in 0..MaxLive
    BY <1>5, FrozenMeans DEF InsertBatch
  <2>2. sets[w].status = "sealed"
    BY <1>5, <2>1 DEF InsertBatch
  <2>3. \A g \in Freezers : freezer'[g].on = w => freezer[g].on = w
    BY <1>5, <2>1, SnapshotAssumption DEF InsertBatch, Inactive, Versions
  <2>4. CASE v = w
    <3>1. w \in overtaken
      BY <1>0, <2>2, <2>4 DEF Kept
    <3>2. sets'[w].records = Inserted(sets[w].records, k, todo[k])
      BY <1>5, <2>1, <2>4 DEF InsertBatch
    <3>3. sets[w].records \in Frozen
      OBVIOUS
    <3>4. k \in Keys /\ todo[k] \in 0..MaxLive
      BY <2>1
    <3> HIDE DEF todo
    <3>5. /\ DOMAIN Inserted(sets[w].records, k, todo[k]) = DOMAIN sets[w].records \cup {k}
          /\ \A x \in DOMAIN sets[w].records :
                Inserted(sets[w].records, k, todo[k])[x] = sets[w].records[x]
      BY ONLY <3>3, <3>4, InsertedKeeps
    <3>6. /\ DOMAIN sets[w].records \subseteq DOMAIN sets'[w].records
          /\ \A x \in DOMAIN sets[w].records : sets'[w].records[x] = sets[w].records[x]
      BY ONLY <3>2, <3>5
    <3> QED
      BY <1>0, <1>5, <2>2, <3>1, <3>6 DEF InsertBatch, Kept
  <2>5. CASE v # w
    <3>1. sets'[w] = sets[w]
      BY <1>5, <2>1, <2>5 DEF InsertBatch
    <3> QED
      BY SMTT(60), <1>0, <1>5, <2>2, <2>3, <3>1 DEF InsertBatch, Kept
  <2> QED
    BY <2>4, <2>5
<1>6. ASSUME NEW f \in Freezers, StopFreeze(f)
      PROVE  Kept(w)'
  <2>1. \A g \in Freezers : freezer'[g].on = w => freezer[g].on = w
    BY <1>6, SnapshotAssumption DEF StopFreeze, Inactive, Versions
  <2> QED
    BY <1>0, <1>6, <2>1 DEF StopFreeze, Kept
<1>7. CASE UNCHANGED snapshotVars
  BY <1>0, <1>7 DEF snapshotVars, Kept
<1> QED
  BY <1>1, <1>2, <1>3, <1>4, <1>5, <1>6, <1>7 DEF SnapshotNext

\* "A sealed freeze is immutable by contract" (freeze, seal): nothing but a
\* freeze that looked before the seal adds to a sealed set, and no freeze,
\* first try or retry, changes a record that is there.
THEOREM SealedSetsStay == SnapshotSpec => []SealedStaysAsSealed
<1>1. SnapshotInv /\ [SnapshotNext]_snapshotVars => SnapshotInv'
  BY SnapshotTypeStep, SealedStep DEF SnapshotInv
<1>2. SnapshotInv => SealedStaysAsSealed
  BY DEF SnapshotInv
<1> QED
  BY SnapshotInitInv, <1>1, <1>2, PTL DEF SnapshotSpec

\* Sets, freezes and what was sealed stay in their types.
THEOREM SnapshotTypes == SnapshotSpec => []SnapshotTypeOK
<1>1. SnapshotInv /\ [SnapshotNext]_snapshotVars => SnapshotInv'
  BY SnapshotTypeStep, SealedStep DEF SnapshotInv
<1>2. SnapshotInv => SnapshotTypeOK
  BY DEF SnapshotInv
<1> QED
  BY SnapshotInitInv, <1>1, <1>2, PTL DEF SnapshotSpec

-----------------------------------------------------------------------------
(***************************************************************************)
(* No stale copy is forgotten, for any number of servers, calls and        *)
(* companies. The property is inductive with the types: whatever makes a   *)
(* copy stale names the copies that its drop will not reach.               *)
(***************************************************************************)

\* A call that is under way runs on a server; a write names a company.
Located ==
    \A c \in Callers : /\ callers[c].at # "idle" => callers[c].app \in Apps
                       /\ callers[c].at \in {"insert", "update"} => callers[c].scope \in Companies

CacheInv == CacheTypeOK /\ Located /\ StaleCopiesAreDropped

LEMMA NoCallTypes == NoCall \in Calls
BY CacheAssumption DEF NoCall, Calls, Scopes, RowVersions

\* A call moves on alone.
LEMMA MoveOnMeans ==
    ASSUME callers \in [Callers -> Calls], NEW c \in Callers,
           NEW at \in {"idle", "select", "put", "insert", "update", "delete", "hook", "drop", "notify"},
           MoveOn(c, at)
    PROVE  /\ callers' \in [Callers -> Calls]
           /\ begun' = begun
           /\ \A d \in Callers \ {c} : callers'[d] = callers[d]
           /\ callers'[c].at = at
           /\ at # "idle" => callers'[c].scope = callers[c].scope /\ callers'[c].app = callers[c].app
BY NoCallTypes DEF MoveOn, Calls, NoCall

LEMMA BeginMeans ==
    ASSUME callers \in [Callers -> Calls], begun \in 0..MaxCalls, NEW c \in Callers,
           NEW at \in {"idle", "select", "put", "insert", "update", "delete", "hook", "drop", "notify"},
           NEW a \in Apps, NEW s \in Scopes, Call_(c, at, a, s)
    PROVE  /\ callers' \in [Callers -> Calls]
           /\ begun' \in 0..MaxCalls
           /\ \A d \in Callers \ {c} : callers'[d] = callers[d]
           /\ callers'[c].at = at /\ callers'[c].app = a /\ callers'[c].scope = s
BY CacheAssumption DEF Call_, Calls, RowVersions

\* What is on its way stays so while a call that brings nothing moves.
LEMMA ComingStays ==
    ASSUME NEW c \in Callers, NEW a \in Apps, NEW s \in Scopes, Coming(a, s),
           callers[c].at \notin {"hook", "drop", "notify"},
           \A d \in Callers \ {c} : callers'[d] = callers[d], inbox' = inbox
    PROVE  Coming(a, s)'
BY DEF Coming, Calling

\* A call that touches neither the row nor a copy.
LEMMA QuietCall ==
    ASSUME CacheInv, NEW c \in Callers, callers[c].at \notin {"hook", "drop", "notify"},
           \A d \in Callers \ {c} : callers'[d] = callers[d], callers' \in [Callers -> Calls],
           callers'[c].at # "idle" => callers'[c].app \in Apps,
           callers'[c].at \in {"insert", "update"} => callers'[c].scope \in Companies,
           begun' \in 0..MaxCalls, UNCHANGED <<row, writes, copies, inbox, listening, gaps, doubted>>
    PROVE  CacheInv'
<1>1. CacheTypeOK'
  BY DEF CacheInv, CacheTypeOK
<1>2. StaleCopiesAreDropped'
  BY ComingStays DEF CacheInv, StaleCopiesAreDropped, Visible
<1>3. Located'
  BY DEF CacheInv, Located
<1> QED
  BY <1>1, <1>2, <1>3 DEF CacheInv

LEMMA ScopesAre == Companies \subseteq Scopes /\ 0 \in RowVersions /\ 1 \in RowVersions /\ 1 \in Companies
BY CacheAssumption DEF Companies, Scopes, RowVersions

LEMMA KeysHere ==
    ASSUME CacheInv, NEW c \in Callers, callers[c].at # "idle"
    PROVE  KeyOf(c) \in CacheKeys /\ callers[c].scope \in Scopes /\ callers[c].app \in Apps
BY DEF CacheInv, CacheTypeOK, Located, KeyOf, CacheKeys, Calls

\* Nothing is on its way that only this call would bring, and others move as before.
LEMMA PutStep ==
    ASSUME CacheInv, NEW c \in Callers, put(c)
    PROVE  CacheInv'
<1>1. callers[c].at = "put" /\ callers[c] \in Calls /\ KeyOf(c) \in CacheKeys
  BY KeysHere DEF put, Calling, CacheInv, CacheTypeOK
<1>2. PICK out \in SUBSET CacheKeys :
          /\ copies' = [k \in CacheKeys |-> IF k = KeyOf(c) THEN callers[c].got ELSE IF k \in out THEN 0 ELSE copies[k]]
          /\ doubted' = (doubted \ (out \cup {KeyOf(c)})) \cup {k \in {KeyOf(c)} : callers[c].got # Visible(callers[c].scope)}
  BY DEF put
<1>3. MoveOn(c, "idle") /\ UNCHANGED <<row, writes, inbox, listening, gaps>>
  BY DEF put, table, wires
<1>4. /\ callers' \in [Callers -> Calls] /\ begun' = begun /\ callers'[c].at = "idle"
      /\ \A d \in Callers \ {c} : callers'[d] = callers[d]
  BY <1>3, MoveOnMeans DEF CacheInv, CacheTypeOK
<1>5. CacheTypeOK'
  BY <1>1, <1>2, <1>3, <1>4, ScopesAre DEF CacheInv, CacheTypeOK, Calls
<1>6. Located'
  BY <1>4 DEF CacheInv, Located
<1>7. ASSUME NEW a \in Apps, NEW s \in Scopes, copies'[<<a, s>>] \notin {0, Visible(s)'}
      PROVE  <<a, s>> \in doubted' \/ Coming(a, s)'
  <2>1. <<a, s>> \in CacheKeys /\ Visible(s)' = Visible(s)
    BY <1>3 DEF CacheKeys, Visible
  <2>2. CASE <<a, s>> = KeyOf(c)
    BY <2>1, <2>2, <1>2, <1>7 DEF KeyOf
  <2>3. CASE <<a, s>> # KeyOf(c)
    <3>1. <<a, s>> \notin out /\ copies[<<a, s>>] \notin {0, Visible(s)}
      BY <2>1, <2>3, <1>2, <1>7
    <3>2. <<a, s>> \in doubted \/ Coming(a, s)
      BY <3>1 DEF CacheInv, StaleCopiesAreDropped
    <3> QED
      BY <3>1, <3>2, <2>3, <1>1, <1>2, <1>3, <1>4, ComingStays
  <2> QED
    BY <2>2, <2>3
<1> QED
  BY <1>5, <1>6, <1>7 DEF CacheInv, StaleCopiesAreDropped

\* A committed write: what it makes stale is doubted, or dropped by the call itself.
LEMMA WriteStep ==
    ASSUME CacheInv, NEW c \in Callers, callers[c].at \in {"insert", "update", "delete"},
           NEW new \in Rows, Written(c, new), writes' \in RowVersions,
           NEW at \in {"hook", "drop"}, MoveOn(c, at)
    PROVE  CacheInv'
<1>1. /\ callers' \in [Callers -> Calls] /\ begun' = begun /\ callers'[c].at = at
      /\ callers'[c].scope = callers[c].scope /\ callers'[c].app = callers[c].app
      /\ \A d \in Callers \ {c} : callers'[d] = callers[d]
  BY MoveOnMeans DEF CacheInv, CacheTypeOK
<1>2. /\ row' = new /\ UNCHANGED <<copies, inbox, listening, gaps>>
      /\ doubted' = doubted \cup {k \in {x \in CacheKeys : x[2] # callers[c].scope} : copies[k] # 0}
  BY DEF Written, Doubt, wires
<1>3. CacheTypeOK'
  BY <1>1, <1>2 DEF CacheInv, CacheTypeOK
<1>4. Located'
  BY <1>1 DEF CacheInv, Located
<1>5. ASSUME NEW a \in Apps, NEW s \in Scopes, copies'[<<a, s>>] \notin {0, Visible(s)'}
      PROVE  <<a, s>> \in doubted' \/ Coming(a, s)'
  <2>1. CASE s = callers[c].scope
    BY <2>1, <1>1 DEF Coming
  <2>2. CASE s # callers[c].scope
    <3>1. <<a, s>> \in CacheKeys /\ <<a, s>>[2] # callers[c].scope /\ copies[<<a, s>>] # 0
      BY <2>2, <1>2, <1>5 DEF CacheKeys
    <3> QED
      BY <3>1, <1>2
  <2> QED
    BY <2>1, <2>2
<1> QED
  BY <1>3, <1>4, <1>5 DEF CacheInv, StaleCopiesAreDropped

\* A drop reaches the copy of its own server; the others are still to come, or
\* were in doubt before.
LEMMA NextStep ==
    ASSUME CacheInv, [CacheNext]_cacheVars
    PROVE  CacheInv'
<1>t. /\ row \in Rows /\ writes \in RowVersions /\ begun \in 0..MaxCalls
      /\ callers \in [Callers -> Calls] /\ copies \in [CacheKeys -> RowVersions]
      /\ inbox \in [Apps -> Seq(Scopes)] /\ doubted \subseteq CacheKeys /\ listening \subseteq Apps
      /\ gaps \in 0..MaxGaps
  BY DEF CacheInv, CacheTypeOK
<1>1. ASSUME NEW c \in Callers, find(c) PROVE CacheInv'
  <2>1. PICK a \in Apps, s \in Scopes : Call_(c, "select", a, s)
    BY <1>1 DEF find
  <2> QED
    BY SMTT(60), <1>1, <1>t, <2>1, BeginMeans, QuietCall DEF find, Calling, table, wires
<1>2. ASSUME NEW c \in Callers, SelectRow(c) PROVE CacheInv'
  <2>1. callers[c].at = "select" /\ callers[c] \in Calls /\ callers[c].app \in Apps
    BY <1>2, <1>t, KeysHere DEF SelectRow, Calling
  <2>2. UNCHANGED <<row, writes, copies, inbox, listening, gaps, doubted>>
    BY <1>2 DEF SelectRow, table, wires
  <2>3. CASE Visible(callers[c].scope) = 0
    <3>1. MoveOn(c, "idle")
      BY <1>2, <2>3 DEF SelectRow
    <3> QED
      BY <3>1, <2>1, <2>2, <1>t, MoveOnMeans, QuietCall
  <2>4. CASE Visible(callers[c].scope) # 0
    <3>1. /\ callers' = [callers EXCEPT ![c].at = "put", ![c].got = Visible(callers[c].scope)]
          /\ begun' = begun
      BY <1>2, <2>4 DEF SelectRow
    <3>2. Visible(callers[c].scope) \in RowVersions
      BY <1>t, ScopesAre DEF Visible, Rows
    <3>3. /\ callers' \in [Callers -> Calls] /\ callers'[c].at = "put" /\ callers'[c].app = callers[c].app
          /\ \A d \in Callers \ {c} : callers'[d] = callers[d]
      BY <1>t, <3>1, <3>2 DEF Calls
    <3> QED
      BY <3>1, <3>3, <2>1, <2>2, <1>t, QuietCall
  <2> QED
    BY <2>3, <2>4
<1>3. ASSUME NEW c \in Callers, save(c) PROVE CacheInv'
  <2>1. PICK a \in Apps, s \in Companies : Call_(c, IF row.version = 0 THEN "insert" ELSE "update", a, s)
    BY <1>3 DEF save
  <2> QED
    BY SMTT(60), <1>3, <1>t, <2>1, BeginMeans, QuietCall, ScopesAre DEF save, Calling, table, wires
<1>4. ASSUME NEW c \in Callers, delete(c) PROVE CacheInv'
  <2>1. PICK a \in Apps : Call_(c, "delete", a, row.company)
    BY <1>4 DEF delete
  <2>2. row.company \in Scopes
    BY <1>t, ScopesAre DEF Rows
  <2> QED
    BY SMTT(60), <1>4, <1>t, <2>1, <2>2, BeginMeans, QuietCall DEF delete, Calling, table, wires
<1>5. ASSUME NEW c \in Callers, callers[c].at \in {"insert", "update", "delete"}, MoveOn(c, "idle"),
             UNCHANGED <<table, copies, wires, doubted>>
      PROVE  CacheInv'
  BY <1>5, <1>t, MoveOnMeans, QuietCall DEF table, wires
<1>6. NewVersion => writes' \in RowVersions
  BY <1>t, CacheAssumption DEF NewVersion, RowVersions
<1>7. ASSUME NEW c \in Callers, InsertRow(c) PROVE CacheInv'
  <2>1. callers[c].at = "insert" /\ callers[c].scope \in Companies
    BY <1>7 DEF InsertRow, Calling, CacheInv, Located
  <2>2. CASE NewVersion /\ MoveOn(c, "hook") /\ Written(c, [version |-> writes', company |-> callers[c].scope, live |-> TRUE])
    <3>1. [version |-> writes', company |-> callers[c].scope, live |-> TRUE] \in Rows
      BY <2>1, <2>2, <1>6 DEF Rows
    <3> QED
      BY <3>1, <2>1, <2>2, <1>6, WriteStep
  <2> QED
    BY <1>5, <1>7, <2>1, <2>2 DEF InsertRow
<1>8. ASSUME NEW c \in Callers, UpdateRow(c) PROVE CacheInv'
  <2>1. callers[c].at = "update" /\ callers[c].scope \in Companies
    BY <1>8 DEF UpdateRow, Calling, CacheInv, Located
  <2>2. CASE NewVersion /\ MoveOn(c, "hook") /\ Written(c, [row EXCEPT !.version = writes', !.company = callers[c].scope])
    <3>1. [row EXCEPT !.version = writes', !.company = callers[c].scope] \in Rows
      BY <2>1, <2>2, <1>6, <1>t DEF Rows
    <3> QED
      BY <3>1, <2>1, <2>2, <1>6, WriteStep
  <2> QED
    BY <1>5, <1>8, <2>1, <2>2 DEF UpdateRow
<1>9. ASSUME NEW c \in Callers, DeleteRow(c) PROVE CacheInv'
  <2>1. callers[c].at = "delete"
    BY <1>9 DEF DeleteRow, Calling
  <2>2. CASE MoveOn(c, "drop") /\ UNCHANGED writes /\ Written(c, IF SoftDelete THEN [row EXCEPT !.live = FALSE] ELSE Absent)
    <3>1. (IF SoftDelete THEN [row EXCEPT !.live = FALSE] ELSE Absent) \in Rows
      BY <1>t, ScopesAre DEF Rows, Absent
    <3> QED
      BY <3>1, <2>1, <2>2, <1>t, WriteStep
  <2> QED
    BY <1>5, <1>9, <2>1, <2>2 DEF DeleteRow
<1>10. ASSUME NEW c \in Callers, AfterWrite(c) PROVE CacheInv'
  <2>1. /\ callers' \in [Callers -> Calls] /\ begun' = begun /\ callers'[c].at = "drop" /\ callers[c].at = "hook"
        /\ callers'[c].scope = callers[c].scope /\ callers'[c].app = callers[c].app
        /\ \A d \in Callers \ {c} : callers'[d] = callers[d]
    BY <1>10, <1>t, MoveOnMeans DEF AfterWrite, Calling
  <2>2. UNCHANGED <<row, writes, copies, inbox, listening, gaps, doubted>>
    BY <1>10 DEF AfterWrite, table, wires
  <2>3. \A a \in Apps, s \in Scopes : Coming(a, s) => Coming(a, s)'
    BY <2>1, <2>2 DEF Coming, Calling
  <2>4. StaleCopiesAreDropped'
    BY <2>2, <2>3 DEF CacheInv, StaleCopiesAreDropped, Visible
  <2> QED
    BY <2>1, <2>2, <2>4 DEF CacheInv, CacheTypeOK, Located
<1>11. ASSUME NEW c \in Callers, invalidate_record(c) PROVE CacheInv'
  <2>1. /\ callers' \in [Callers -> Calls] /\ begun' = begun /\ callers'[c].at = "notify" /\ callers[c].at = "drop"
        /\ callers'[c].scope = callers[c].scope /\ callers'[c].app = callers[c].app
        /\ \A d \in Callers \ {c} : callers'[d] = callers[d]
    BY <1>11, <1>t, MoveOnMeans DEF invalidate_record, Calling
  <2>2. UNCHANGED <<row, writes, inbox, listening, gaps>> /\ Invalidate(KeyOf(c)) /\ KeyOf(c) \in CacheKeys
    BY <1>11, <2>1, KeysHere DEF invalidate_record, table, wires
  <2>3. CacheTypeOK' /\ Located'
    BY <2>1, <2>2, <1>t, ScopesAre DEF CacheInv, CacheTypeOK, Located, Invalidate
  <2>4. ASSUME NEW a \in Apps, NEW s \in Scopes, copies'[<<a, s>>] \notin {0, Visible(s)'}
        PROVE  <<a, s>> \in doubted' \/ Coming(a, s)'
    <3>1. <<a, s>> \in CacheKeys /\ <<a, s>> # KeyOf(c) /\ copies[<<a, s>>] \notin {0, Visible(s)}
      BY <2>2, <2>4, <1>t DEF Invalidate, Visible, CacheKeys
    <3>2. CASE <<a, s>> \in doubted
      BY <3>1, <3>2, <2>2 DEF Invalidate
    <3>3. CASE Coming(a, s)
      BY <3>1, <3>3, <2>1, <2>2 DEF Coming, Calling, KeyOf
    <3> QED
      BY <3>1, <3>2, <3>3 DEF CacheInv, StaleCopiesAreDropped
  <2> QED
    BY <2>3, <2>4 DEF CacheInv, StaleCopiesAreDropped
<1>12. ASSUME NEW c \in Callers, Notify(c) PROVE CacheInv'
  <2>1. /\ callers' \in [Callers -> Calls] /\ begun' = begun /\ callers'[c].at = "idle" /\ callers[c].at = "notify"
        /\ \A d \in Callers \ {c} : callers'[d] = callers[d]
        /\ callers[c].app \in Apps /\ callers[c].scope \in Scopes
    BY <1>12, <1>t, MoveOnMeans, KeysHere DEF Notify, Calling
  <2>2. /\ UNCHANGED <<row, writes, copies, listening, gaps>>
        /\ inbox' = [a \in Apps |-> IF a \in listening THEN Append(inbox[a], callers[c].scope) ELSE inbox[a]]
        /\ doubted' = doubted \cup {k \in (Apps \ (listening \cup {callers[c].app})) \X {callers[c].scope} : copies[k] # 0}
    BY <1>12 DEF Notify, table, Doubt
  <2>3. inbox' \in [Apps -> Seq(Scopes)]
    BY <2>1, <2>2, <1>t, AppendProperties
  <2>4. doubted' \subseteq CacheKeys
    BY <2>1, <2>2, <1>t DEF CacheKeys
  <2>5. CacheTypeOK' /\ Located'
    BY <2>1, <2>2, <2>3, <2>4, <1>t DEF CacheInv, CacheTypeOK, Located
  <2>6. ASSUME NEW a \in Apps PROVE Range(inbox[a]) \subseteq Range(inbox'[a])
                                    /\ (a \in listening => callers[c].scope \in Range(inbox'[a]))
    <3>1. inbox[a] \in Seq(Scopes)
      BY <1>t
    <3>2. CASE a \notin listening
      BY <3>2, <2>2
    <3>3. CASE a \in listening
      <4>1. inbox'[a] = Append(inbox[a], callers[c].scope)
        BY <3>3, <2>2
      <4>2. /\ DOMAIN inbox'[a] = 1..(Len(inbox[a]) + 1) /\ DOMAIN inbox[a] = 1..Len(inbox[a])
            /\ \A i \in 1..Len(inbox[a]) : inbox'[a][i] = inbox[a][i]
            /\ inbox'[a][Len(inbox[a]) + 1] = callers[c].scope /\ Len(inbox[a]) \in Nat
        BY <3>1, <4>1, <2>1, AppendProperties, LenProperties
      <4> QED
        BY <4>2 DEF Range
    <3> QED
      BY <3>2, <3>3
  <2>7. ASSUME NEW a \in Apps, NEW s \in Scopes, copies'[<<a, s>>] \notin {0, Visible(s)'}
        PROVE  <<a, s>> \in doubted' \/ Coming(a, s)'
    <3>1. copies[<<a, s>>] \notin {0, Visible(s)}
      BY <2>2, <2>7 DEF Visible
    <3>2. CASE <<a, s>> \in doubted
      BY <3>2, <2>2
    <3>3. CASE s \in Range(inbox[a])
      BY <3>3, <2>6 DEF Coming
    <3>4. ASSUME NEW d \in Callers, callers[d].scope = s,
                 callers[d].at \in {"hook", "drop"} \/ (Calling(d, "notify") /\ callers[d].app # a)
          PROVE  <<a, s>> \in doubted' \/ Coming(a, s)'
      <4>1. CASE d # c
        BY <4>1, <3>4, <2>1 DEF Coming, Calling
      <4>2. CASE d = c
        <5>1. s = callers[c].scope /\ callers[c].app # a
          BY <4>2, <3>4, <2>1 DEF Calling
        <5>2. CASE a \in listening
          BY <5>1, <5>2, <2>6 DEF Coming
        <5>3. CASE a \notin listening
          BY <5>1, <5>3, <3>1, <2>2
        <5> QED
          BY <5>2, <5>3
      <4> QED
        BY <4>1, <4>2
    <3> QED
      BY <3>1, <3>2, <3>3, <3>4 DEF CacheInv, StaleCopiesAreDropped, Coming
  <2> QED
    BY <2>5, <2>7 DEF CacheInv, StaleCopiesAreDropped
<1>13. ASSUME NEW c \in Callers, CutShort(c) PROVE CacheInv'
  <2>1. /\ callers' \in [Callers -> Calls] /\ begun' = begun /\ callers'[c].at = "idle"
        /\ callers[c].at \in {"hook", "drop", "notify"}
        /\ \A d \in Callers \ {c} : callers'[d] = callers[d]
        /\ callers[c].app \in Apps /\ callers[c].scope \in Scopes
    BY <1>13, <1>t, MoveOnMeans, KeysHere DEF CutShort
  <2>2. /\ UNCHANGED <<row, writes, copies, listening, inbox>> /\ gaps' \in 0..MaxGaps
        /\ doubted' = doubted \cup {k \in (IF Calling(c, "notify") THEN Apps \ {callers[c].app} ELSE Apps)
                                          \X {callers[c].scope} : copies[k] # 0}
    BY <1>13, <1>t, CacheAssumption DEF CutShort, table, Doubt, Gap
  <2>3. doubted' \subseteq CacheKeys
    BY <2>1, <2>2, <1>t DEF CacheKeys
  <2>4. CacheTypeOK' /\ Located'
    BY <2>1, <2>2, <2>3, <1>t DEF CacheInv, CacheTypeOK, Located
  <2>5. ASSUME NEW a \in Apps, NEW s \in Scopes, copies'[<<a, s>>] \notin {0, Visible(s)'}
        PROVE  <<a, s>> \in doubted' \/ Coming(a, s)'
    <3>1. copies[<<a, s>>] \notin {0, Visible(s)}
      BY <2>2, <2>5 DEF Visible
    <3>2. CASE <<a, s>> \in doubted \/ s \in Range(inbox[a])
      BY <3>2, <2>2 DEF Coming
    <3>3. ASSUME NEW d \in Callers, callers[d].scope = s,
                 callers[d].at \in {"hook", "drop"} \/ (Calling(d, "notify") /\ callers[d].app # a)
          PROVE  <<a, s>> \in doubted' \/ Coming(a, s)'
      <4>1. CASE d # c
        BY <4>1, <3>3, <2>1 DEF Coming, Calling
      <4>2. CASE d = c
        BY <4>2, <3>1, <3>3, <2>2 DEF Calling
      <4> QED
        BY <4>1, <4>2
    <3> QED
      BY <3>1, <3>2, <3>3 DEF CacheInv, StaleCopiesAreDropped, Coming
  <2> QED
    BY <2>4, <2>5 DEF CacheInv, StaleCopiesAreDropped
<1>14. ASSUME NEW a \in Apps, Listen(a) PROVE CacheInv'
  <2>1. /\ UNCHANGED <<row, writes, listening, callers, begun, gaps>>
        /\ inbox' = [inbox EXCEPT ![a] = Tail(@)] /\ inbox[a] # <<>> /\ inbox[a] \in Seq(Scopes)
        /\ Invalidate(<<a, Head(inbox[a])>>)
    BY <1>14, <1>t DEF Listen, table, calls
  <2>2. /\ Head(inbox[a]) \in Scopes /\ Tail(inbox[a]) \in Seq(Scopes)
        /\ Range(inbox[a]) \subseteq {Head(inbox[a])} \cup Range(Tail(inbox[a]))
    <3>1. /\ Len(inbox[a]) \in Nat /\ Len(inbox[a]) > 0 /\ Head(inbox[a]) = inbox[a][1] /\ Head(inbox[a]) \in Scopes
          /\ Tail(inbox[a]) \in Seq(Scopes) /\ DOMAIN Tail(inbox[a]) = 1..(Len(inbox[a]) - 1)
          /\ DOMAIN inbox[a] = 1..Len(inbox[a])
          /\ \A i \in 1..(Len(inbox[a]) - 1) : Tail(inbox[a])[i] = inbox[a][i + 1]
      BY <2>1, EmptySeq, LenProperties, HeadTailProperties
    <3>2. ASSUME NEW i \in 1..Len(inbox[a]), i # 1
          PROVE  i - 1 \in DOMAIN Tail(inbox[a]) /\ Tail(inbox[a])[i - 1] = inbox[a][i]
      BY <3>1, <3>2
    <3>3. ASSUME NEW i \in DOMAIN inbox[a] PROVE inbox[a][i] \in {Head(inbox[a])} \cup Range(Tail(inbox[a]))
      BY <3>1, <3>2 DEF Range
    <3> QED
      BY <3>1, <3>3 DEF Range
  <2>3. <<a, Head(inbox[a])>> \in CacheKeys
    BY <2>2 DEF CacheKeys
  <2>4. CacheTypeOK' /\ Located'
    BY <2>1, <2>2, <2>3, <1>t, ScopesAre DEF CacheInv, CacheTypeOK, Located, Invalidate
  <2>5. ASSUME NEW b \in Apps, NEW s \in Scopes, copies'[<<b, s>>] \notin {0, Visible(s)'}
        PROVE  <<b, s>> \in doubted' \/ Coming(b, s)'
    <3>1. <<b, s>> # <<a, Head(inbox[a])>> /\ copies[<<b, s>>] \notin {0, Visible(s)}
      BY <2>1, <2>3, <2>5, <1>t DEF Visible, Invalidate, CacheKeys
    <3>2. CASE <<b, s>> \in doubted
      BY <3>1, <3>2, <2>1 DEF Invalidate
    <3>3. CASE s \in Range(inbox[b])
      <4>1. s \in Range(inbox'[b])
        BY <3>1, <3>3, <2>1, <2>2, <1>t
      <4> QED
        BY <4>1 DEF Coming
    <3>4. CASE Coming(b, s) /\ s \notin Range(inbox[b])
      BY <3>4, <2>1 DEF Coming, Calling
    <3> QED
      BY <3>1, <3>2, <3>3, <3>4 DEF CacheInv, StaleCopiesAreDropped
  <2> QED
    BY <2>4, <2>5 DEF CacheInv, StaleCopiesAreDropped
<1>15. ASSUME NEW a \in Apps, Disconnect(a) PROVE CacheInv'
  <2>1. /\ UNCHANGED <<row, writes, copies, callers, begun>> /\ gaps' \in 0..MaxGaps
        /\ inbox' = [inbox EXCEPT ![a] = <<>>] /\ listening' = listening \ {a}
        /\ doubted' = doubted \cup {k \in {a} \X Range(inbox[a]) : copies[k] # 0}
    BY <1>15, <1>t, CacheAssumption DEF Disconnect, table, calls, Gap, Doubt
  <2>2. inbox' \in [Apps -> Seq(Scopes)] /\ Range(inbox[a]) \subseteq Scopes
    <3>1. inbox[a] \in Seq(Scopes) /\ <<>> \in Seq(Scopes)
      BY <1>t
    <3>2. \A i \in DOMAIN inbox[a] : inbox[a][i] \in Scopes
      BY <3>1, ElementOfSeq, LenProperties
    <3> QED
      BY <3>1, <3>2, <2>1, <1>t DEF Range
  <2>3. CacheTypeOK' /\ Located'
    BY <2>1, <2>2, <1>t DEF CacheInv, CacheTypeOK, Located, CacheKeys
  <2>4. ASSUME NEW b \in Apps, NEW s \in Scopes, copies'[<<b, s>>] \notin {0, Visible(s)'}
        PROVE  <<b, s>> \in doubted' \/ Coming(b, s)'
    <3>1. copies[<<b, s>>] \notin {0, Visible(s)}
      BY <2>1, <2>4 DEF Visible
    <3>2. CASE <<b, s>> \in doubted
      BY <3>2, <2>1
    <3>3. CASE s \in Range(inbox[b])
      BY <3>1, <3>3, <2>1, <1>t DEF Coming
    <3>4. CASE Coming(b, s) /\ s \notin Range(inbox[b])
      BY <3>4, <2>1 DEF Coming, Calling
    <3> QED
      BY <3>1, <3>2, <3>3, <3>4 DEF CacheInv, StaleCopiesAreDropped
  <2> QED
    BY <2>3, <2>4 DEF CacheInv, StaleCopiesAreDropped
<1>16. ASSUME NEW a \in Apps, Reconnect(a) PROVE CacheInv'
  <2>1. UNCHANGED <<row, writes, copies, inbox, callers, begun, gaps, doubted>> /\ listening' \subseteq Apps
    BY <1>16, <1>t DEF Reconnect, table, calls
  <2> QED
    BY <2>1 DEF CacheInv, CacheTypeOK, Located, StaleCopiesAreDropped, Visible, Coming, Calling
<1>17. ASSUME NEW k \in CacheKeys, Forget(k) PROVE CacheInv'
  <2>1. UNCHANGED <<row, writes, inbox, listening, callers, begun, gaps>> /\ Invalidate(k)
    BY <1>17 DEF Forget, table, calls, wires
  <2>2. CacheTypeOK' /\ Located'
    BY <2>1, <1>t, ScopesAre DEF CacheInv, CacheTypeOK, Located, Invalidate
  <2>3. StaleCopiesAreDropped'
    BY <2>1, <1>t DEF CacheInv, StaleCopiesAreDropped, Visible, Coming, Calling, Invalidate, CacheKeys
  <2> QED
    BY <2>2, <2>3 DEF CacheInv
<1>18. CASE UNCHANGED cacheVars
  BY <1>18 DEF cacheVars, CacheInv, CacheTypeOK, Located, StaleCopiesAreDropped, Visible, Coming, Calling
<1> QED
  BY <1>1, <1>2, <1>3, <1>4, <1>7, <1>8, <1>9, <1>10, <1>11, <1>12, <1>13, <1>14, <1>15, <1>16, <1>17, <1>18, PutStep
  DEF CacheNext

LEMMA CacheInitInv == CacheInit => CacheInv
<1> SUFFICES ASSUME CacheInit PROVE CacheInv
  OBVIOUS
<1>1. CacheTypeOK
  BY ScopesAre, NoCallTypes, CacheAssumption DEF CacheInit, CacheTypeOK, Rows, RowVersions
<1>2. Located /\ StaleCopiesAreDropped
  BY DEF CacheInit, Located, StaleCopiesAreDropped, NoCall, CacheKeys
<1> QED
  BY <1>1, <1>2 DEF CacheInv

\* Whatever calls overlap, fail or lose their notification, on any number of
\* servers: a copy that is not what a read would return is about to be
\* dropped, or is one of those the drop could not reach.
THEOREM CopiesAreDropped == CacheSpec => []StaleCopiesAreDropped
<1>1. CacheInv => StaleCopiesAreDropped
  BY DEF CacheInv
<1> QED
  BY CacheInitInv, NextStep, <1>1, PTL DEF CacheSpec

\* The row, its copies, the channels and the calls stay in their types.
THEOREM CacheTypes == CacheSpec => []CacheTypeOK
<1>1. CacheInv => CacheTypeOK
  BY DEF CacheInv
<1> QED
  BY CacheInitInv, NextStep, <1>1, PTL DEF CacheSpec

-----------------------------------------------------------------------------
(***************************************************************************)
(* A public submission settles once, for any number of submissions and     *)
(* workers (Intake): a submission is claimed by one worker, what it has    *)
(* stored is its own, and a row that is settled is never claimed again.    *)
(***************************************************************************)

WritingAt == {"hold", "write", "link", "settle"}
ReclaimingAt == {"check", "delete", "clear"}
Decidable == {"quarantined", "accepted", "rejected"}
Writes(c, n) == handling[c].at \in WritingAt /\ handling[c].sub = n
Touching(c) == handling[c].todo \cup (IF handling[c].at \in {"delete", "clear"} THEN {handling[c].sub} ELSE {})
Deleting(c) == handling[c].at \in ReclaimingAt /\ handling[c].for = "form"
underway == {n \in Submissions : status[n] = "underway"}

\* Where each call stands, whatever was disputed.
CallPlaced(c) ==
    LET w == handling[c] IN
    /\ w.at = "idle" => w = NoWork
    /\ w.at \in WritingAt => w.for \in {"submit", "approve"} /\ w.todo = {}
    /\ w.at \in WritingAt /\ w.for = "submit" => status[w.sub] = "underway"
    /\ w.at \in WritingAt /\ w.for = "approve" => w.at # "hold" /\ status[w.sub] \in Decidable \cup {"gone"}
    /\ w.at \in {"link", "settle"} => w.rec \in RecordsOf(w.sub)
    /\ w.at = "settle" => w.rec \in linked
    /\ w.at \in ReclaimingAt => w.for \in {"sweep", "form"}
    /\ \A n \in Touching(c) : status[n] \in Decidable \cup {"gone"}

SubmitsAlone ==
    \A c, d \in Visitors :
        /\ handling[c].at \in WritingAt /\ handling[c].for = "submit"
        /\ handling[d].at \in WritingAt /\ handling[d].for = "submit"
        /\ handling[c].sub = handling[d].sub
        => c = d

FormGone == ~form => attached = {} /\ \A n \in Submissions : status[n] \notin Decidable

\* A submission's row.
Row(n) ==
    /\ n \in attached => status[n] \in Decidable
    /\ status[n] = "underway" => \E c \in Visitors : Writes(c, n)
    /\ status[n] = "accepted" => settled[n] \in RecordsOf(n) \cap linked
    /\ status[n] = "quarantined" /\ n \notin disputed => n \in attached

\* Calls that work on what is not disputed work on it alone.
Single(n) ==
    n \notin disputed =>
        /\ \A c, d \in Visitors : Writes(c, n) /\ Writes(d, n) => c = d
        /\ \A c \in Visitors : Writes(c, n) /\ handling[c].for = "approve" => status[n] = "quarantined"
        /\ \A c, d \in Visitors : n \in Touching(c) => ~Writes(d, n)
        /\ \A c, d \in Visitors : Deleting(c) /\ Writes(d, n) => handling[d].for = "submit"
        /\ \A c \in Visitors : n \in Touching(c) =>
              status[n] \in {"rejected", "gone"} \cup (IF handling[c].for = "form" THEN {"quarantined"} ELSE {})

\* Its records, and its blob.
Recorded(n) ==
    n \notin disputed \cup unfinished =>
        /\ \A c \in Visitors : Writes(c, n) => RecordsOf(n) = IF handling[c].at \in {"hold", "write"} THEN {} ELSE {handling[c].rec}
        /\ \A c \in Visitors : n \in Touching(c) => RecordsOf(n) = {}
        /\ (\A c \in Visitors : ~Writes(c, n)) /\ status[n] \in {"unborn", "none", "quarantined", "rejected"} => RecordsOf(n) = {}
        /\ \E r : RecordsOf(n) \subseteq {r}
Stored(n) ==
    n \notin blobs \cup disputed \cup unfinished =>
        /\ RecordsOf(n) = {} /\ \A c \in Visitors : ~Writes(c, n)
        /\ status[n] = "quarantined" => \E c \in Visitors : Deleting(c)

IntakeInv ==
    /\ IntakeTypeOK /\ SubmitsAlone /\ FormGone /\ CapOverrunIsConcurrency
    /\ \A c \in Visitors : CallPlaced(c)
    /\ \A n \in Submissions : Row(n) /\ Single(n) /\ Recorded(n) /\ Stored(n)

LEMMA AppendMeans ==
    ASSUME NEW S, NEW q \in Seq(S), NEW x \in S
    PROVE  /\ Append(q, x) \in Seq(S) /\ Len(Append(q, x)) = Len(q) + 1
           /\ DOMAIN Append(q, x) = DOMAIN q \cup {Len(q) + 1} /\ Len(q) + 1 \notin DOMAIN q
           /\ \A k \in DOMAIN q : Append(q, x)[k] = q[k]
           /\ Append(q, x)[Len(q) + 1] = x
           /\ DOMAIN q = 1..Len(q) /\ Len(q) \in Nat
<1>1. DOMAIN q = 1..Len(q) /\ Len(q) \in Nat
  BY LenProperties
<1>2. Append(q, x) \in Seq(S) /\ Len(Append(q, x)) = Len(q) + 1 /\ Append(q, x)[Len(q) + 1] = x
      /\ \A k \in 1..Len(q) : Append(q, x)[k] = q[k]
  BY AppendProperties
<1>3. DOMAIN Append(q, x) = 1..(Len(q) + 1)
  BY <1>2, LenProperties
<1> QED
  BY <1>1, <1>2, <1>3

LEMMA NoWorkType ==
    /\ NoWork \in Works /\ NoWork.at = "idle" /\ NoWork.todo = {} /\ NoWork.for = "submit" /\ NoWork.rec = 0
    /\ 1 \in Submissions /\ IsFiniteSet(Submissions)
<1>1. 1 \in Submissions /\ 0 \in 0..MaxRecords
  BY IntakeAssumption DEF Submissions
<1>2. IsFiniteSet(Submissions)
  BY FS_Interval, IntakeAssumption DEF Submissions
<1> QED
  BY <1>1, <1>2 DEF NoWork, Works

\* What the other calls do does not change with this one's position.
LEMMA OthersStay ==
    ASSUME NEW d, handling'[d] = handling[d]
    PROVE  Touching(d)' = Touching(d) /\ (Deleting(d)' <=> Deleting(d)) /\ \A n : Writes(d, n)' <=> Writes(d, n)
BY DEF Touching, Deleting, Writes

LEMMA CapStays ==
    ASSUME IntakeInv, disputed \subseteq disputed', uncounted => uncounted',
           disputed' = {} => daily_count' \cup underway' \subseteq daily_count \cup underway
    PROVE  CapOverrunIsConcurrency'
<1>1. IsFiniteSet(daily_count \cup underway)
  BY NoWorkType, FS_Subset DEF daily_count, underway
<1> SUFFICES ASSUME ~uncounted', disputed' = {}
             PROVE  Cardinality(daily_count' \cup underway') <= DailyCap + Cardinality(Visitors) - 1
  BY DEF CapOverrunIsConcurrency, underway
<1>2. Cardinality(daily_count \cup underway) <= DailyCap + Cardinality(Visitors) - 1
  BY DEF IntakeInv, CapOverrunIsConcurrency, underway
<1>3. /\ Cardinality(daily_count' \cup underway') <= Cardinality(daily_count \cup underway)
      /\ IsFiniteSet(daily_count' \cup underway')
  BY <1>1, FS_Subset
<1>4. Cardinality(Visitors) \in Nat /\ Cardinality(daily_count \cup underway) \in Nat
      /\ Cardinality(daily_count' \cup underway') \in Nat /\ DailyCap \in Nat
  BY <1>1, <1>3, FS_CardinalityType, IntakeAssumption
<1> QED
  BY <1>2, <1>3, <1>4

-----------------------------------------------------------------------------
(* Reviewing *)

LEMMA ApproveStep ==
    ASSUME IntakeInv, NEW c \in Visitors, NEW k \in Submissions, approve_submission(c, k)
    PROVE  IntakeInv'
<1>1. /\ handling \in [Visitors -> Works] /\ handling[c].at = "idle" /\ handling[c] = NoWork /\ status[k] = "quarantined"
      /\ UNCHANGED <<form, status, settled, attached, records, linked, blobs, unfinished, uncounted, slips>>
      /\ \A n : RecordsOf(n)' = RecordsOf(n)
  BY DEF approve_submission, Working, submissionRow, target, IntakeInv, IntakeTypeOK, CallPlaced, RecordsOf
<1>2. /\ handling' \in [Visitors -> Works] /\ \A d \in Visitors \ {c} : handling'[d] = handling[d]
      /\ handling'[c].at = "write" /\ handling'[c].for = "approve" /\ handling'[c].sub = k /\ handling'[c].todo = {}
  <2>1. handling' = [handling EXCEPT ![c] = [NoWork EXCEPT !.at = "write", !.for = "approve", !.sub = k]]
    BY DEF approve_submission, Undertake
  <2> QED
    BY <1>1, <2>1, NoWorkType DEF Works
<1>3. /\ \A n : (Writes(c, n)' <=> n = k) /\ ~Writes(c, n)
      /\ Touching(c) = {} /\ Touching(c)' = {} /\ ~Deleting(c) /\ ~Deleting(c)'
  BY <1>1, <1>2, NoWorkType DEF Writes, Touching, Deleting, WritingAt, ReclaimingAt
<1>4. disputed' = disputed \cup ({k} \cap UNION {InHand(d) : d \in Visitors \ {c}})
  BY DEF approve_submission, Dispute
<1>5. disputed \subseteq disputed' /\ disputed' \subseteq disputed \cup {k}
      /\ \A d \in Visitors \ {c} : k \in InHand(d) => k \in disputed'
  BY <1>4
<1>6. \A d \in Visitors \ {c} : Writes(d, k) \/ k \in Touching(d) \/ (k \in attached /\ Deleting(d)) => k \in InHand(d)
  BY <1>1 DEF IntakeInv, CallPlaced, Writes, Touching, Deleting, InHand, WritingAt, ReclaimingAt
<1>11. IntakeTypeOK'
  BY <1>1, <1>2, <1>5 DEF IntakeInv, IntakeTypeOK
<1>12. SubmitsAlone' /\ FormGone'
  BY <1>1, <1>2 DEF IntakeInv, SubmitsAlone, FormGone, Decidable
<1>13. CapOverrunIsConcurrency'
  BY <1>1, <1>5, CapStays DEF daily_count, underway
<1>14. ASSUME NEW d \in Visitors PROVE CallPlaced(d)'
  BY <1>1, <1>2, <1>3, OthersStay DEF IntakeInv, CallPlaced, Decidable, WritingAt, ReclaimingAt, Touching
<1> SUFFICES ASSUME NEW n \in Submissions PROVE Row(n)' /\ Single(n)' /\ Recorded(n)' /\ Stored(n)'
  BY <1>11, <1>12, <1>13, <1>14 DEF IntakeInv
<1>15. Row(n)'
  BY <1>1, <1>2, <1>3, <1>5, OthersStay DEF IntakeInv, Row
<1>16. Single(n)'
  <2> SUFFICES ASSUME n \notin disputed' PROVE Single(n)'
    BY DEF Single
  <2>1. Single(n) /\ Row(n) /\ n \notin disputed
    BY <1>5 DEF IntakeInv
  <2>2. CASE n # k
    BY <1>1, <1>2, <1>3, <2>1, <2>2, OthersStay DEF Single
  <2>3. CASE n = k
    <3>1. \A d \in Visitors \ {c} : ~Writes(d, n)' /\ n \notin Touching(d)' /\ ~Deleting(d)'
      BY <1>1, <1>2, <1>5, <1>6, <2>1, <2>3, OthersStay DEF Row
    <3> QED
      BY <1>1, <1>2, <1>3, <2>3, <3>1 DEF Single
  <2> QED
    BY <2>2, <2>3
<1>17. Recorded(n)'
  BY <1>1, <1>2, <1>3, <1>5, <1>6, OthersStay DEF IntakeInv, Single, Recorded
<1>18. Stored(n)'
  BY <1>1, <1>2, <1>3, <1>5, <1>6, OthersStay DEF IntakeInv, Row, Single, Stored
<1> QED
  BY <1>15, <1>16, <1>17, <1>18

LEMMA RejectStep ==
    ASSUME IntakeInv, NEW c \in Visitors, NEW k \in Submissions, reject_submission(c, k)
    PROVE  IntakeInv'
<1>1. /\ status \in [Submissions -> Statuses] /\ status[k] = "quarantined" /\ status' = [status EXCEPT ![k] = "rejected"]
      /\ UNCHANGED <<form, settled, attached, records, linked, blobs, handling, unfinished, uncounted, slips>>
      /\ \A n : RecordsOf(n)' = RecordsOf(n)
  BY DEF reject_submission, target, IntakeInv, IntakeTypeOK, RecordsOf
<1>2. /\ \A d : Touching(d)' = Touching(d) /\ (Deleting(d)' <=> Deleting(d)) /\ \A n : Writes(d, n)' <=> Writes(d, n)
  BY <1>1, OthersStay
<1>3. handling[c].at = "idle" /\ handling[c] = NoWork /\ ~Writes(c, k)
  BY DEF reject_submission, Working, IntakeInv, CallPlaced, Writes, WritingAt
<1>4. disputed \subseteq disputed' /\ disputed' \subseteq disputed \cup {k}
      /\ \A d \in Visitors \ {c} : k \in InHand(d) => k \in disputed'
  BY DEF reject_submission, Dispute
<1>5. \A d \in Visitors : Writes(d, k) => k \in disputed'
  <2>1. ASSUME NEW d \in Visitors, Writes(d, k) PROVE k \in InHand(d) /\ d # c
    BY <1>1, <1>3, <2>1 DEF IntakeInv, CallPlaced, Writes, InHand, WritingAt
  <2> QED
    BY <1>4, <2>1
<1>11. IntakeTypeOK'
  BY <1>1, <1>4 DEF IntakeInv, IntakeTypeOK, Statuses
<1>12. SubmitsAlone' /\ FormGone'
  BY <1>1 DEF IntakeInv, SubmitsAlone, FormGone, Decidable
<1>13. CapOverrunIsConcurrency'
  BY <1>1, <1>4, CapStays DEF daily_count, underway
<1>14. ASSUME NEW d \in Visitors PROVE CallPlaced(d)'
  BY <1>1, <1>2 DEF IntakeInv, CallPlaced, Decidable
<1> SUFFICES ASSUME NEW n \in Submissions PROVE Row(n)' /\ Single(n)' /\ Recorded(n)' /\ Stored(n)'
  BY <1>11, <1>12, <1>13, <1>14 DEF IntakeInv
<1>15. Row(n)'
  BY <1>1, <1>2, <1>4 DEF IntakeInv, Row, Decidable
<1>16. Single(n)'
  <2> SUFFICES ASSUME n \notin disputed' PROVE Single(n)'
    BY DEF Single
  <2>1. Single(n) /\ n \notin disputed
    BY <1>4 DEF IntakeInv
  <2>2. CASE n = k
    BY <1>1, <1>2, <1>5, <2>1, <2>2 DEF Single
  <2>3. CASE n # k
    BY <1>1, <1>2, <2>1, <2>3 DEF Single
  <2> QED
    BY <2>2, <2>3
<1>17. Recorded(n)'
  BY <1>1, <1>2, <1>4 DEF IntakeInv, Recorded
<1>18. Stored(n)'
  BY <1>1, <1>2, <1>4 DEF IntakeInv, Stored
<1> QED
  BY <1>15, <1>16, <1>17, <1>18

-----------------------------------------------------------------------------
(* Reclaiming *)

LEMMA BeginReclaimStep ==
    ASSUME IntakeInv, NEW c \in Visitors, sweep_orphaned_attachments(c) \/ delete_form(c)
    PROVE  IntakeInv'
<1> PICK old, reason :
        /\ reason \in {"sweep", "form"}
        /\ old = {n \in attached : IF reason = "sweep" THEN status[n] = "rejected" ELSE status[n] # "accepted"}
        /\ handling' = [handling EXCEPT ![c] = [NoWork EXCEPT !.at = "check", !.for = reason, !.todo = old]]
        /\ Dispute(c, old)
        /\ handling[c].at = "idle"
        /\ UNCHANGED <<form, status, settled, attached, records, linked, blobs, unfinished, uncounted, slips>>
  <2>1. CASE sweep_orphaned_attachments(c)
    BY <2>1, Zenon DEF sweep_orphaned_attachments, Working, Undertake, submissionRow, target
  <2>2. CASE delete_form(c)
    BY <2>2, Zenon DEF delete_form, Working, Undertake, submissionRow, target
  <2> QED
    BY <2>1, <2>2
<1>1. /\ handling \in [Visitors -> Works] /\ handling[c] = NoWork /\ attached \subseteq Submissions /\ old \subseteq Submissions
      /\ \A n : RecordsOf(n)' = RecordsOf(n)
  BY DEF IntakeInv, IntakeTypeOK, CallPlaced, RecordsOf
<1>2. /\ handling' \in [Visitors -> Works] /\ \A d \in Visitors \ {c} : handling'[d] = handling[d]
      /\ handling'[c].at = "check" /\ handling'[c].for = reason /\ handling'[c].todo = old
  BY <1>1, NoWorkType DEF Works
<1>3. /\ \A n : ~Writes(c, n)' /\ ~Writes(c, n)
      /\ Touching(c) = {} /\ Touching(c)' = old /\ ~Deleting(c) /\ (Deleting(c)' <=> reason = "form")
  BY <1>1, <1>2, NoWorkType DEF Writes, Touching, Deleting, WritingAt, ReclaimingAt
<1>4. /\ disputed \subseteq disputed' /\ disputed' \subseteq disputed \cup old
      /\ \A d \in Visitors \ {c} : old \cap InHand(d) \subseteq disputed'
  BY DEF Dispute
<1>5. \A n \in old : status[n] \in Decidable /\ status[n] \in {"rejected"} \cup (IF reason = "form" THEN {"quarantined"} ELSE {})
  BY <1>1 DEF IntakeInv, Row, Decidable
<1>6. \A d \in Visitors, n \in old : Writes(d, n) => n \in disputed'
  <2>1. ASSUME NEW d \in Visitors, NEW n \in old, Writes(d, n) PROVE n \in InHand(d) /\ d # c
    BY <1>1, <1>3, <1>5, <2>1 DEF IntakeInv, CallPlaced, Writes, InHand, WritingAt, Decidable
  <2> QED
    BY <1>4, <2>1
<1>11. IntakeTypeOK'
  BY <1>1, <1>2, <1>4 DEF IntakeInv, IntakeTypeOK
<1>12. SubmitsAlone' /\ FormGone'
  BY <1>2 DEF IntakeInv, SubmitsAlone, FormGone, Decidable, WritingAt
<1>13. CapOverrunIsConcurrency'
  BY <1>4, CapStays DEF daily_count, underway
<1>14. ASSUME NEW d \in Visitors PROVE CallPlaced(d)'
  BY <1>1, <1>2, <1>3, <1>5, OthersStay DEF IntakeInv, CallPlaced, Decidable, WritingAt, ReclaimingAt
<1> SUFFICES ASSUME NEW n \in Submissions PROVE Row(n)' /\ Single(n)' /\ Recorded(n)' /\ Stored(n)'
  BY <1>11, <1>12, <1>13, <1>14 DEF IntakeInv
<1>15. Row(n)'
  BY <1>2, <1>3, <1>4, <1>1, OthersStay DEF IntakeInv, Row
<1>16. Single(n)'
  <2> SUFFICES ASSUME n \notin disputed' PROVE Single(n)'
    BY DEF Single
  <2>1. Single(n) /\ Row(n) /\ n \notin disputed
    BY <1>4 DEF IntakeInv
  <2>2. CASE n \notin old
    <3>1. ASSUME reason = "form", NEW d \in Visitors, Writes(d, n), handling[d].for # "submit" PROVE FALSE
      <4>1. status[n] = "quarantined"
        BY <3>1, <2>1 DEF Single, IntakeInv, CallPlaced, Writes
      <4> QED
        BY <4>1, <3>1, <2>1, <2>2 DEF Row
    <3> QED
      BY <1>1, <1>2, <1>3, <2>1, <2>2, <3>1, OthersStay DEF Single
  <2>3. CASE n \in old
    <3>1. \A d \in Visitors : ~Writes(d, n)'
      BY <1>2, <1>3, <1>6, <2>3, OthersStay
    <3> QED
      BY <1>2, <1>3, <1>5, <2>1, <2>3, <3>1, OthersStay DEF Single
  <2> QED
    BY <2>2, <2>3
<1>17. Recorded(n)'
  BY <1>1, <1>2, <1>3, <1>4, <1>5, <1>6, OthersStay DEF IntakeInv, Recorded
<1>18. Stored(n)'
  BY <1>1, <1>2, <1>3, <1>4, <1>6, OthersStay DEF IntakeInv, Stored
<1> QED
  BY <1>15, <1>16, <1>17, <1>18

LEMMA ReclaimStep ==
    ASSUME IntakeInv, NEW c \in Visitors, CheckReference(c) \/ DeleteBlob(c) \/ ClearPointers(c)
    PROVE  IntakeInv'
<1>1. /\ handling \in [Visitors -> Works] /\ handling[c] \in Works /\ handling[c].at \in ReclaimingAt /\ attached \subseteq Submissions
      /\ UNCHANGED <<form, status, settled, records, linked, disputed, unfinished, uncounted>>
      /\ slips' \in 0..MaxSlips
      /\ \A n : RecordsOf(n)' = RecordsOf(n)
  <2>1. handling \in [Visitors -> Works] /\ attached \subseteq Submissions /\ slips \in 0..MaxSlips
        /\ handling[c].todo \subseteq Submissions
    BY DEF IntakeInv, IntakeTypeOK, Works
  <2>2. CASE CheckReference(c)
    <3>1. /\ UNCHANGED <<form, submissionRow, target, blobs, sights>> /\ handling[c].at = "check"
          /\ slips' = slips \/ (slips < MaxSlips /\ slips' = slips + 1)
      BY <2>2 DEF CheckReference, Working, Slip
    <3> QED
      BY <2>1, <3>1, IntakeAssumption DEF submissionRow, target, sights, RecordsOf, ReclaimingAt, IntakeInv, IntakeTypeOK
  <2>3. CASE DeleteBlob(c) \/ ClearPointers(c)
    BY <2>1, <2>3, IntakeAssumption DEF DeleteBlob, ClearPointers, Working, Slip, submissionRow, target, sights, RecordsOf, ReclaimingAt
  <2> QED
    BY <2>2, <2>3
<1>2. /\ handling' \in [Visitors -> Works] /\ \A d \in Visitors \ {c} : handling'[d] = handling[d]
      /\ handling'[c].at \in ReclaimingAt /\ handling'[c].for = handling[c].for
      /\ Touching(c)' \subseteq Touching(c)
  <2>1. CASE CheckReference(c)
    <3>1. PICK n \in handling[c].todo, at \in {"delete", "clear"} :
            handling' = [handling EXCEPT ![c] = [handling[c] EXCEPT !.at = at, !.sub = n, !.todo = @ \ {n}]]
      BY <2>1 DEF CheckReference, Undertake
    <3> QED
      BY <1>1, <3>1 DEF Works, Touching, ReclaimingAt
  <2>2. CASE DeleteBlob(c)
    BY <1>1, <2>2 DEF DeleteBlob, Continue, Working, Works, Touching, ReclaimingAt
  <2>3. CASE ClearPointers(c)
    BY <1>1, <2>3 DEF ClearPointers, Continue, Working, Works, Touching, ReclaimingAt
  <2> QED
    BY <2>1, <2>2, <2>3
<1>3. /\ \A n : ~Writes(c, n)' /\ ~Writes(c, n)
      /\ (Deleting(c)' <=> Deleting(c)) /\ handling[c].for \in {"sweep", "form"}
  BY <1>1, <1>2 DEF Writes, Deleting, WritingAt, ReclaimingAt, IntakeInv, CallPlaced
<1>4. /\ attached' \subseteq attached
      /\ \A n \in attached \ attached' : n \in Touching(c) /\ handling[c].for = "sweep"
  BY <1>1 DEF CheckReference, DeleteBlob, ClearPointers, Working, submissionRow, Touching, ReclaimingAt
<1>5. /\ blobs' \subseteq blobs /\ blobs \subseteq Submissions
      /\ \A n \in blobs \ blobs' : n \in Touching(c)
  BY <1>1 DEF CheckReference, DeleteBlob, ClearPointers, Working, Touching, ReclaimingAt, IntakeInv, IntakeTypeOK
<1>11. IntakeTypeOK'
  BY <1>1, <1>2, <1>4, <1>5 DEF IntakeInv, IntakeTypeOK
<1>12. SubmitsAlone' /\ FormGone'
  BY <1>1, <1>2, <1>4 DEF IntakeInv, SubmitsAlone, FormGone, Decidable, WritingAt, ReclaimingAt
<1>13. CapOverrunIsConcurrency'
  BY <1>1, CapStays DEF daily_count, underway
<1>14. ASSUME NEW d \in Visitors PROVE CallPlaced(d)'
  <2>1. CASE d = c
    BY <2>1, <1>1, <1>2, <1>3 DEF IntakeInv, CallPlaced, WritingAt, ReclaimingAt
  <2>2. CASE d # c
    BY <2>2, <1>1, <1>2, OthersStay DEF IntakeInv, CallPlaced
  <2> QED
    BY <2>1, <2>2
<1> SUFFICES ASSUME NEW n \in Submissions PROVE Row(n)' /\ Single(n)' /\ Recorded(n)' /\ Stored(n)'
  BY <1>11, <1>12, <1>13, <1>14 DEF IntakeInv
<1>15. Row(n)'
  BY <1>1, <1>2, <1>3, <1>4, OthersStay DEF IntakeInv, Row, Single
<1>16. Single(n)'
  BY <1>1, <1>2, <1>3, OthersStay DEF IntakeInv, Single
<1>17. Recorded(n)'
  BY <1>1, <1>2, <1>3, OthersStay DEF IntakeInv, Recorded
<1>18. Stored(n)'
  <2> SUFFICES ASSUME n \notin blobs' \cup disputed \cup unfinished PROVE Stored(n)'
    BY <1>1 DEF Stored
  <2>1. CASE n \notin blobs
    BY <2>1, <1>1, <1>2, <1>3, OthersStay DEF IntakeInv, Stored
  <2>2. CASE n \in blobs
    <3>1. n \in Touching(c) /\ Single(n) /\ Recorded(n)
      BY <2>2, <1>5 DEF IntakeInv
    <3>2. RecordsOf(n) = {} /\ (\A d \in Visitors : ~Writes(d, n)) /\ (status[n] = "quarantined" => handling[c].for = "form")
      BY <3>1 DEF Single, Recorded
    <3> QED
      BY <3>2, <1>1, <1>2, <1>3, OthersStay DEF Stored, Deleting
  <2> QED
    BY <2>1, <2>2
<1> QED
  BY <1>15, <1>16, <1>17, <1>18

LEMMA EndReclaimStep ==
    ASSUME IntakeInv, NEW c \in Visitors, EndReclaim(c)
    PROVE  IntakeInv'
<1>1. /\ handling \in [Visitors -> Works] /\ handling[c].at = "check" /\ handling' = [handling EXCEPT ![c] = NoWork]
      /\ status \in [Submissions -> Statuses] /\ settled \in [Submissions -> 0..MaxRecords]
      /\ UNCHANGED <<records, linked, blobs, disputed, unfinished, uncounted, slips>>
      /\ \A n : RecordsOf(n)' = RecordsOf(n)
  BY DEF EndReclaim, Working, Continue, target, sights, IntakeInv, IntakeTypeOK, RecordsOf
<1>2. /\ handling' \in [Visitors -> Works] /\ \A d \in Visitors \ {c} : handling'[d] = handling[d]
      /\ handling'[c] = NoWork /\ handling'[c].at = "idle"
  BY <1>1, NoWorkType
<1>3. /\ \A n : ~Writes(c, n)' /\ ~Writes(c, n)
      /\ Touching(c)' = {} /\ ~Deleting(c)'
  BY <1>1, <1>2, NoWorkType DEF Writes, Touching, Deleting, WritingAt, ReclaimingAt
<1>4. \/ UNCHANGED <<form, status, settled, attached>> /\ ~Deleting(c)
      \/ /\ Deleting(c) /\ form' = FALSE /\ attached' = {}
         /\ \A n \in Submissions : status'[n] = IF status[n] \in Decidable THEN "gone" ELSE status[n]
         /\ status' \in [Submissions -> Statuses] /\ settled' \in [Submissions -> 0..MaxRecords]
  <2>1. CASE handling[c].for = "sweep" /\ UNCHANGED <<form, submissionRow>>
    BY <2>1 DEF submissionRow, Deleting
  <2>2. CASE /\ handling[c].for = "form" /\ form' = FALSE /\ attached' = {}
             /\ status' = [n \in Submissions |-> IF status[n] \in Decidable THEN "gone" ELSE status[n]]
             /\ settled' = [n \in Submissions |-> 0]
    BY <1>1, <2>2, IntakeAssumption DEF Deleting, ReclaimingAt, Statuses
  <2> QED
    BY <2>1, <2>2 DEF EndReclaim, Decidable
<1>5. \A n \in Submissions : (status'[n] = status[n] \/ status'[n] = "gone") /\ (status'[n] = "gone" => status[n] \in Decidable \cup {"gone"})
  BY <1>4
<1>11. IntakeTypeOK'
  BY <1>1, <1>2, <1>4 DEF IntakeInv, IntakeTypeOK
<1>12. SubmitsAlone' /\ FormGone'
  BY <1>1, <1>2, <1>4 DEF IntakeInv, SubmitsAlone, FormGone, Decidable, WritingAt
<1>13. CapOverrunIsConcurrency'
  BY <1>1, <1>5, CapStays DEF daily_count, underway
<1>14. ASSUME NEW d \in Visitors PROVE CallPlaced(d)'
  <2>1. CASE d = c
    BY <2>1, <1>2, <1>3, NoWorkType DEF CallPlaced, WritingAt, ReclaimingAt
  <2>2. CASE d # c
    <3>1. handling'[d] = handling[d] /\ CallPlaced(d) /\ handling[d].sub \in Submissions /\ handling[d] \in Works /\ Touching(d) \subseteq Submissions
      BY <2>2, <1>1, <1>2 DEF IntakeInv, Works, Touching
    <3>2. \A n \in Submissions : status[n] \in Decidable \cup {"gone"} => status'[n] \in Decidable \cup {"gone"}
      BY <1>5
    <3>3. \A n \in Submissions : status[n] = "underway" => status'[n] = "underway"
      BY <1>5 DEF Decidable
    <3> QED
      BY <3>1, <3>2, <3>3, <1>1, OthersStay DEF CallPlaced
  <2> QED
    BY <2>1, <2>2
<1> SUFFICES ASSUME NEW n \in Submissions PROVE Row(n)' /\ Single(n)' /\ Recorded(n)' /\ Stored(n)'
  BY <1>11, <1>12, <1>13, <1>14 DEF IntakeInv
<1>15. Row(n)'
  BY <1>1, <1>2, <1>3, <1>4, OthersStay DEF IntakeInv, Row, Decidable
<1>16. Single(n)'
  <2>1. \A d \in Visitors : n \notin disputed /\ Writes(d, n) /\ handling[d].for = "approve" => status'[n] = status[n]
    BY <1>4 DEF IntakeInv, Single
  <2> QED
    BY <1>1, <1>2, <1>3, <1>5, <2>1, OthersStay DEF IntakeInv, Single
<1>17. Recorded(n)'
  BY <1>1, <1>2, <1>3, <1>5, OthersStay DEF IntakeInv, Recorded
<1>18. Stored(n)'
  BY <1>1, <1>2, <1>3, <1>4, OthersStay DEF IntakeInv, Stored, Decidable
<1> QED
  BY <1>15, <1>16, <1>17, <1>18

-----------------------------------------------------------------------------
(* Writing *)

\* Nobody else has to do with a submission that is being submitted.
LEMMA UnderwayAlone ==
    ASSUME IntakeInv, NEW c \in Visitors, handling[c].at \in WritingAt, handling[c].for = "submit"
    PROVE  /\ status[handling[c].sub] = "underway" /\ handling[c].sub \notin attached
           /\ \A d \in Visitors \ {c} : ~Writes(d, handling[c].sub)
           /\ \A d \in Visitors : handling[c].sub \notin Touching(d)
<1>1. status[handling[c].sub] = "underway" /\ handling[c].sub \in Submissions
  BY DEF IntakeInv, CallPlaced, IntakeTypeOK, Works
<1>2. \A d \in Visitors : handling[c].sub \notin Touching(d)
  BY <1>1 DEF IntakeInv, CallPlaced, Decidable
<1>3. ASSUME NEW d \in Visitors \ {c}, Writes(d, handling[c].sub) PROVE FALSE
  BY <1>1, <1>3 DEF IntakeInv, CallPlaced, SubmitsAlone, Writes, Decidable
<1>4. handling[c].sub \notin attached
  BY <1>1 DEF IntakeInv, Row, Decidable
<1> QED
  BY <1>1, <1>2, <1>3, <1>4

LEMMA SubmitStep ==
    ASSUME IntakeInv, NEW c \in Visitors, submit(c)
    PROVE  IntakeInv'
<1> PICK k \in Submissions, at \in {"idle", "hold", "write"} :
        /\ status[k] = "unborn" /\ handling[c].at = "idle" /\ form
        /\ blobs' = blobs \cup {k}
        /\ status' = [status EXCEPT ![k] = IF at = "idle" THEN "none" ELSE "underway"]
        /\ handling' = IF at = "idle" THEN handling ELSE [handling EXCEPT ![c] = [NoWork EXCEPT !.at = at, !.sub = k]]
        /\ at = "idle" \/ uncounted' = TRUE \/ Cardinality(daily_count) < DailyCap
        /\ uncounted' = uncounted \/ uncounted' = TRUE
        /\ slips' = slips \/ (slips < MaxSlips /\ slips' = slips + 1)
        /\ UNCHANGED <<form, settled, attached, records, linked, disputed, unfinished>>
  <2>1. PICK k \in Submissions, held \in BOOLEAN :
          /\ \A n \in Submissions : n < k <=> status[n] # "unborn"
          /\ blobs' = blobs \cup {k}
          /\ \/ /\ Cardinality(daily_count) < DailyCap /\ UNCHANGED <<slips, uncounted>>
                /\ status' = [status EXCEPT ![k] = "underway"]
                /\ Undertake(c, [NoWork EXCEPT !.at = IF held THEN "hold" ELSE "write", !.sub = k])
             \/ /\ Slip /\ uncounted' = TRUE
                /\ status' = [status EXCEPT ![k] = "underway"]
                /\ Undertake(c, [NoWork EXCEPT !.at = IF held THEN "hold" ELSE "write", !.sub = k])
             \/ /\ status' = [status EXCEPT ![k] = "none"]
                /\ UNCHANGED <<handling, slips, uncounted>>
    BY Zenon DEF submit, within_cap
  <2>0. status[k] = "unborn"
    BY <2>1 DEF Submissions
  <2>2. handling[c].at = "idle" /\ form /\ UNCHANGED <<form, settled, attached, records, linked, disputed, unfinished>>
    BY DEF submit, Working, target
  <2>3. CASE status' = [status EXCEPT ![k] = "none"] /\ UNCHANGED <<handling, slips, uncounted>>
    BY <2>0, <2>1, <2>2, <2>3
  <2>4. CASE /\ status' = [status EXCEPT ![k] = "underway"]
             /\ Undertake(c, [NoWork EXCEPT !.at = IF held THEN "hold" ELSE "write", !.sub = k])
             /\ Cardinality(daily_count) < DailyCap /\ UNCHANGED <<slips, uncounted>>
    BY <2>0, <2>1, <2>2, <2>4 DEF Undertake
  <2>5. CASE /\ status' = [status EXCEPT ![k] = "underway"]
             /\ Undertake(c, [NoWork EXCEPT !.at = IF held THEN "hold" ELSE "write", !.sub = k])
             /\ Slip /\ uncounted' = TRUE
    BY <2>0, <2>1, <2>2, <2>5 DEF Undertake, Slip
  <2> QED
    BY <2>1, <2>3, <2>4, <2>5
<1>1. /\ handling \in [Visitors -> Works] /\ handling[c] = NoWork /\ status \in [Submissions -> Statuses]
      /\ \A n : RecordsOf(n)' = RecordsOf(n)
  BY DEF IntakeInv, IntakeTypeOK, CallPlaced, RecordsOf
<1>2. /\ handling' \in [Visitors -> Works] /\ \A d \in Visitors \ {c} : handling'[d] = handling[d]
      /\ handling'[c].at = at /\ handling'[c].for = "submit" /\ handling'[c].todo = {}
      /\ at # "idle" => handling'[c].sub = k
      /\ at = "idle" => handling' = handling
  BY <1>1, NoWorkType DEF Works
<1>3. /\ \A n : (Writes(c, n)' <=> at # "idle" /\ n = k) /\ ~Writes(c, n)
      /\ Touching(c) = {} /\ Touching(c)' = {} /\ ~Deleting(c) /\ ~Deleting(c)'
  BY <1>1, <1>2, NoWorkType DEF Writes, Touching, Deleting, WritingAt, ReclaimingAt
<1>4. /\ \A d \in Visitors : ~Writes(d, k) /\ k \notin Touching(d)
      /\ k \notin attached
  BY DEF IntakeInv, CallPlaced, Writes, Decidable, Row
<1>5. \A n \in Submissions : n # k => status'[n] = status[n]
  BY <1>1
<1>6. status'[k] = IF at = "idle" THEN "none" ELSE "underway"
  BY <1>1
<1>11. IntakeTypeOK'
  <2>1. status' \in [Submissions -> Statuses]
    BY <1>1 DEF Statuses
  <2>2. slips' \in 0..MaxSlips
    BY IntakeAssumption DEF IntakeInv, IntakeTypeOK
  <2>4. uncounted' \in BOOLEAN
    BY Zenon DEF IntakeInv, IntakeTypeOK
  <2>3. blobs' \subseteq Submissions
    BY DEF IntakeInv, IntakeTypeOK
  <2> QED
    BY <1>1, <1>2, <2>1, <2>2, <2>3, <2>4 DEF IntakeInv, IntakeTypeOK
<1>12. SubmitsAlone' /\ FormGone'
  <2>1. SubmitsAlone'
    BY <1>2, <1>3, <1>4, <1>1, NoWorkType DEF IntakeInv, SubmitsAlone, Writes
  <2> QED
    BY <2>1 DEF IntakeInv, FormGone
<1>13. CapOverrunIsConcurrency'
  <2>1. CASE at = "idle"
    BY <1>1, <2>1, CapStays DEF daily_count, underway
  <2>2. CASE at # "idle"
    <3> SUFFICES ASSUME Cardinality(daily_count) < DailyCap
                 PROVE  Cardinality(daily_count' \cup underway') <= DailyCap + Cardinality(Visitors) - 1
      BY <2>2 DEF CapOverrunIsConcurrency, underway
    <3>1. daily_count' = daily_count
      BY <1>1, <2>2 DEF daily_count
    <3>2. IsFiniteSet(underway') /\ Cardinality(underway') <= Cardinality(Visitors)
      <4>1. \A n \in underway' : \E d \in Visitors : handling'[d].sub = n
        BY <1>2, <1>3, <1>5, <2>2, OthersStay DEF underway, IntakeInv, Row, Writes
      <4> DEFINE who == [n \in underway' |-> CHOOSE d \in Visitors : handling'[d].sub = n]
      <4>2. \A n \in underway' : who[n] \in Visitors /\ handling'[who[n]].sub = n
        BY <4>1
      <4>3. who \in [underway' -> Visitors] /\ \A n, m \in underway' : who[n] = who[m] => n = m
        <5> HIDE DEF who
        <5>1. \A n, m \in underway' : who[n] = who[m] => n = m
          BY <4>2
        <5>2. who \in [underway' -> Visitors]
          BY <4>1 DEF who
        <5> QED
          BY <5>1, <5>2
      <4>4. who \in Injection(underway', Visitors)
        <5> HIDE DEF who
        <5>1. IsInjective(who)
          BY <4>3 DEF IsInjective
        <5> QED
          BY <4>3, <5>1 DEF Injection
      <4> QED
        BY <4>4, FS_Injection, IntakeAssumption
    <3>3. IsFiniteSet(daily_count) /\ Cardinality(daily_count) \in Nat
      BY NoWorkType, FS_Subset, FS_CardinalityType DEF daily_count
    <3>4. /\ Cardinality(daily_count \cup underway') <= Cardinality(daily_count) + Cardinality(underway')
          /\ IsFiniteSet(daily_count \cup underway')
      <4>1. /\ IsFiniteSet(daily_count \cup underway')
            /\ Cardinality(daily_count \cup underway') = Cardinality(daily_count) + Cardinality(underway') - Cardinality(daily_count \cap underway')
        BY <3>2, <3>3, FS_Union
      <4>2. Cardinality(daily_count \cap underway') \in Nat
        BY <3>3, FS_Subset, FS_CardinalityType
      <4>3. Cardinality(underway') \in Nat
        BY <3>2, FS_CardinalityType
      <4> QED
        BY <4>1, <4>2, <4>3, <3>3
    <3>5. Cardinality(Visitors) \in Nat /\ Cardinality(underway') \in Nat /\ DailyCap \in Nat /\ Cardinality(daily_count \cup underway') \in Nat
      BY <3>2, <3>4, FS_CardinalityType, IntakeAssumption
    <3> QED
      BY <3>1, <3>2, <3>3, <3>4, <3>5
  <2> QED
    BY <2>1, <2>2
<1>14. ASSUME NEW d \in Visitors PROVE CallPlaced(d)'
  <2>1. CASE d = c
    BY <2>1, <1>1, <1>2, <1>3, <1>6, NoWorkType DEF CallPlaced, WritingAt, ReclaimingAt
  <2>2. CASE d # c
    <3>1. CallPlaced(d) /\ handling'[d] = handling[d] /\ Touching(d)' = Touching(d) /\ Touching(d) \subseteq Submissions /\ handling[d].sub \in Submissions
      BY <2>2, <1>1, <1>2, OthersStay DEF IntakeInv, Works, Touching
    <3>2. k \notin Touching(d) /\ ~Writes(d, k)
      BY <1>4
    <3> QED
      BY <3>1, <3>2, <1>1, <1>5 DEF CallPlaced, Writes, WritingAt
  <2> QED
    BY <2>1, <2>2
<1> SUFFICES ASSUME NEW n \in Submissions PROVE Row(n)' /\ Single(n)' /\ Recorded(n)' /\ Stored(n)'
  BY <1>11, <1>12, <1>13, <1>14 DEF IntakeInv
<1>15. Row(n)'
  <2>1. CASE n # k
    BY <2>1, <1>1, <1>2, <1>3, <1>5, OthersStay DEF IntakeInv, Row
  <2>2. CASE n = k
    BY <2>2, <1>3, <1>4, <1>6 DEF Row
  <2> QED
    BY <2>1, <2>2
<1>16. Single(n)'
  <2>1. CASE n # k
    BY <2>1, <1>1, <1>2, <1>3, <1>5, OthersStay DEF IntakeInv, Single
  <2>2. CASE n = k
    BY <2>2, <1>1, <1>2, <1>3, <1>4, <1>6, OthersStay DEF Single
  <2> QED
    BY <2>1, <2>2
<1>17. Recorded(n)'
  <2>1. CASE n # k
    BY <2>1, <1>1, <1>2, <1>3, <1>5, OthersStay DEF IntakeInv, Recorded
  <2>2. CASE n = k
    <3>1. n \notin disputed \cup unfinished => RecordsOf(n) = {}
      BY <2>2, <1>4 DEF IntakeInv, Recorded
    <3> QED
      BY <2>2, <3>1, <1>1, <1>2, <1>3, <1>4, <1>6, OthersStay DEF Recorded
  <2> QED
    BY <2>1, <2>2
<1>18. Stored(n)'
  <2>1. CASE n # k
    BY <2>1, <1>1, <1>2, <1>3, <1>5, OthersStay DEF IntakeInv, Stored
  <2>2. CASE n = k
    BY <2>2 DEF Stored
  <2> QED
    BY <2>1, <2>2
<1> QED
  BY <1>15, <1>16, <1>17, <1>18

LEMMA HoldStep ==
    ASSUME IntakeInv, NEW c \in Visitors, Hold(c)
    PROVE  IntakeInv'
<1> PICK k : k = handling[c].sub
  OBVIOUS
<1>1. /\ handling \in [Visitors -> Works] /\ handling[c].at = "hold" /\ handling[c].for = "submit" /\ k \in Submissions
      /\ status \in [Submissions -> Statuses] /\ handling' = [handling EXCEPT ![c] = NoWork]
      /\ status' = [status EXCEPT ![k] = IF form THEN "quarantined" ELSE "none"]
      /\ attached' = IF form THEN attached \cup {k} ELSE attached
      /\ UNCHANGED <<form, settled, records, linked, blobs, disputed, unfinished, uncounted, slips>>
      /\ \A n : RecordsOf(n)' = RecordsOf(n)
  BY DEF Hold, Working, Continue, target, sights, IntakeInv, IntakeTypeOK, Works, CallPlaced, WritingAt, RecordsOf
<1>2. /\ handling' \in [Visitors -> Works] /\ \A d \in Visitors \ {c} : handling'[d] = handling[d]
      /\ handling'[c] = NoWork /\ handling'[c].at = "idle"
  BY <1>1, NoWorkType
<1>3. /\ \A n : ~Writes(c, n)' /\ (Writes(c, n) <=> n = k)
      /\ Touching(c)' = {} /\ Touching(c) = {} /\ ~Deleting(c) /\ ~Deleting(c)'
  BY <1>1, <1>2, NoWorkType DEF Writes, Touching, Deleting, WritingAt, ReclaimingAt, IntakeInv, CallPlaced
<1>4. /\ status[k] = "underway" /\ k \notin attached
      /\ \A d \in Visitors \ {c} : ~Writes(d, k)
      /\ \A d \in Visitors : k \notin Touching(d)
  BY <1>1, UnderwayAlone DEF WritingAt
<1>5. \A n \in Submissions : n # k => status'[n] = status[n]
  BY <1>1
<1>6. status'[k] = IF form THEN "quarantined" ELSE "none"
  BY <1>1
<1>11. IntakeTypeOK'
  BY <1>1, <1>2 DEF IntakeInv, IntakeTypeOK, Statuses
<1>12. SubmitsAlone' /\ FormGone'
  BY <1>1, <1>2, <1>5, <1>6 DEF IntakeInv, SubmitsAlone, FormGone, Decidable, WritingAt
<1>13. CapOverrunIsConcurrency'
  BY <1>1, <1>4, CapStays DEF daily_count, underway
<1>14. ASSUME NEW d \in Visitors PROVE CallPlaced(d)'
  <2>1. CASE d = c
    BY <2>1, <1>2, <1>3, NoWorkType DEF CallPlaced, WritingAt, ReclaimingAt
  <2>2. CASE d # c
    <3>1. CallPlaced(d) /\ handling'[d] = handling[d] /\ Touching(d)' = Touching(d) /\ Touching(d) \subseteq Submissions /\ handling[d].sub \in Submissions
      BY <2>2, <1>1, <1>2, OthersStay DEF IntakeInv, Works, Touching
    <3>2. k \notin Touching(d) /\ ~Writes(d, k)
      BY <1>4, <2>2
    <3> QED
      BY <3>1, <3>2, <1>1, <1>5 DEF CallPlaced, Writes, WritingAt
  <2> QED
    BY <2>1, <2>2
<1> SUFFICES ASSUME NEW n \in Submissions PROVE Row(n)' /\ Single(n)' /\ Recorded(n)' /\ Stored(n)'
  BY <1>11, <1>12, <1>13, <1>14 DEF IntakeInv
<1>15. CASE n # k
  <2>1. Row(n)'
    BY <1>15, <1>1, <1>2, <1>3, <1>5, OthersStay DEF IntakeInv, Row
  <2>2. Single(n)'
    BY <1>15, <1>1, <1>2, <1>3, <1>5, OthersStay DEF IntakeInv, Single
  <2>3. Recorded(n)'
    BY <1>15, <1>1, <1>2, <1>3, <1>5, OthersStay DEF IntakeInv, Recorded
  <2>4. Stored(n)'
    BY <1>15, <1>1, <1>2, <1>3, <1>5, OthersStay DEF IntakeInv, Stored
  <2> QED
    BY <2>1, <2>2, <2>3, <2>4
<1>16. CASE n = k
  <2>0. \A d \in Visitors : ~Writes(d, n)' /\ n \notin Touching(d)'
    BY <1>16, <1>1, <1>2, <1>3, <1>4, OthersStay
  <2>1. Row(n)'
    BY <1>16, <1>1, <1>4, <1>6 DEF Row, Decidable
  <2>2. Single(n)'
    BY <2>0 DEF Single
  <2>3. n \notin disputed \cup unfinished => RecordsOf(n) = {}
    BY <1>16, <1>1, <1>3 DEF IntakeInv, Recorded
  <2>4. Recorded(n)'
    BY <2>0, <2>3, <1>1 DEF Recorded
  <2>5. Stored(n)'
    BY <1>16, <1>1, <1>3 DEF Stored, IntakeInv
  <2> QED
    BY <2>1, <2>2, <2>4, <2>5
<1> QED
  BY <1>15, <1>16

LEMMA InsertStep ==
    ASSUME IntakeInv, NEW c \in Visitors, insert_target_record(c)
    PROVE  IntakeInv'
<1> PICK k, r : k = handling[c].sub /\ r = Len(records) + 1
  OBVIOUS
<1>1. /\ handling \in [Visitors -> Works] /\ handling[c] \in Works /\ handling[c].at = "write" /\ handling[c].for \in {"submit", "approve"}
      /\ k \in Submissions /\ status \in [Submissions -> Statuses] /\ handling[c].todo = {} /\ records \in Seq(Submissions)
      /\ UNCHANGED <<form, settled, attached, linked, blobs, disputed, unfinished, uncounted, slips>>
  BY DEF insert_target_record, Working, sights, IntakeInv, IntakeTypeOK, Works, CallPlaced, WritingAt
<1>2. \/ /\ r \in 0..MaxRecords /\ records' = Append(records, k) /\ status' = status
         /\ handling' = [handling EXCEPT ![c].at = "link", ![c].rec = r]
      \/ /\ records' = records /\ handling' = [handling EXCEPT ![c] = NoWork]
         /\ status' = IF handling[c].for = "submit" THEN [status EXCEPT ![k] = "none"] ELSE status
  <2>1. CASE /\ Len(records) < MaxRecords /\ records' = Append(records, handling[c].sub) /\ UNCHANGED status
             /\ handling' = [handling EXCEPT ![c].at = "link", ![c].rec = Len(records) + 1]
    <3>1. Len(records) \in Nat
      BY <1>1, LenProperties
    <3> QED
      BY <2>1, <3>1, IntakeAssumption
  <2>2. CASE /\ Continue(c, "idle") /\ UNCHANGED records
             /\ status' = IF handling[c].for = "submit" THEN [status EXCEPT ![handling[c].sub] = "none"] ELSE status
    BY <2>2 DEF Continue
  <2> QED
    BY <2>1, <2>2 DEF insert_target_record
<1>3. /\ records' \in Seq(Submissions) /\ DOMAIN records \subseteq DOMAIN records'
      /\ \A n : RecordsOf(n) \subseteq RecordsOf(n)' /\ (n # k => RecordsOf(n)' = RecordsOf(n))
      /\ records' # records => RecordsOf(k)' = RecordsOf(k) \cup {r}
      /\ records' = Append(records, k) => RecordsOf(k)' = RecordsOf(k) \cup {r}
      /\ records' = records => RecordsOf(k)' = RecordsOf(k)
  <2>1. CASE records' = records
    <3>1. \A n : RecordsOf(n)' = RecordsOf(n)
      BY <2>1 DEF RecordsOf
    <3>2. Append(records, k) # records
      <4>1. Len(Append(records, k)) = Len(records) + 1 /\ Len(records) \in Nat
        BY <1>1, AppendProperties, LenProperties
      <4> QED
        BY <4>1
    <3> QED
      BY <2>1, <3>1, <3>2, <1>1
  <2>2. CASE records' = Append(records, k)
    <3>1. /\ records' \in Seq(Submissions) /\ DOMAIN records' = DOMAIN records \cup {r} /\ r \notin DOMAIN records
          /\ \A n \in DOMAIN records : records'[n] = records[n]
          /\ records'[r] = k
      BY <2>2, <1>1, AppendMeans
    <3> QED
      BY <2>2, <3>1 DEF RecordsOf
  <2> QED
    BY <2>1, <2>2, <1>2
<1>4. /\ handling' \in [Visitors -> Works] /\ \A d \in Visitors \ {c} : handling'[d] = handling[d]
      /\ \/ /\ records' = Append(records, k) /\ status' = status
            /\ handling'[c].at = "link" /\ handling'[c].for = handling[c].for /\ handling'[c].sub = k /\ handling'[c].rec = r /\ handling'[c].todo = {}
         \/ /\ records' = records /\ handling'[c] = NoWork /\ handling'[c].at = "idle"
            /\ status' = IF handling[c].for = "submit" THEN [status EXCEPT ![k] = "none"] ELSE status
  <2>1. CASE r \in 0..MaxRecords /\ handling' = [handling EXCEPT ![c].at = "link", ![c].rec = r]
    BY <1>1, <1>2, <2>1, NoWorkType DEF Works
  <2>2. CASE handling' = [handling EXCEPT ![c] = NoWork]
    BY <1>1, <1>2, <2>2, NoWorkType DEF Works
  <2> QED
    BY <1>2, <2>1, <2>2
<1>5. /\ \A n : (Writes(c, n)' <=> handling'[c].at = "link" /\ n = k) /\ (Writes(c, n) <=> n = k)
      /\ Touching(c)' = {} /\ Touching(c) = {} /\ ~Deleting(c) /\ ~Deleting(c)'
  BY <1>1, <1>4, NoWorkType DEF Writes, Touching, Deleting, WritingAt, ReclaimingAt
<1>6. handling[c].for = "submit" =>
      /\ status[k] = "underway" /\ k \notin attached
      /\ \A d \in Visitors \ {c} : ~Writes(d, k)
      /\ \A d \in Visitors : k \notin Touching(d)
  BY <1>1, UnderwayAlone DEF WritingAt
<1>7. /\ \A n \in Submissions : n # k => status'[n] = status[n]
      /\ status'[k] = status[k] \/ (handling[c].for = "submit" /\ status'[k] = "none" /\ handling'[c].at = "idle")
      /\ status' \in [Submissions -> Statuses]
  BY <1>1, <1>4 DEF Statuses
<1>11. IntakeTypeOK'
  BY <1>1, <1>3, <1>4, <1>7 DEF IntakeInv, IntakeTypeOK
<1>12. SubmitsAlone' /\ FormGone'
  <2>1. SubmitsAlone'
    BY <1>1, <1>4 DEF IntakeInv, SubmitsAlone, WritingAt, NoWork
  <2>2. FormGone'
    BY <1>1, <1>7 DEF IntakeInv, FormGone, Decidable
  <2> QED
    BY <2>1, <2>2
<1>13. CapOverrunIsConcurrency'
  BY <1>1, <1>7, CapStays DEF daily_count, underway
<1>14. ASSUME NEW d \in Visitors PROVE CallPlaced(d)'
  <2>1. CASE d = c
    <3>1. CASE handling'[c].at = "idle"
      BY <2>1, <3>1, <1>4, <1>5, NoWorkType DEF CallPlaced, WritingAt, ReclaimingAt
    <3>2. CASE handling'[c].at = "link"
      <4>1. status' = status /\ r \in RecordsOf(k)' /\ CallPlaced(c)
        BY <3>2, <1>3, <1>4 DEF IntakeInv
      <4> QED
        BY <2>1, <3>2, <4>1, <1>1, <1>4, <1>5, NoWorkType DEF CallPlaced, WritingAt, ReclaimingAt
    <3> QED
      BY <3>1, <3>2, <1>4
  <2>2. CASE d # c
    <3>1. CallPlaced(d) /\ handling'[d] = handling[d] /\ Touching(d)' = Touching(d) /\ Touching(d) \subseteq Submissions /\ handling[d].sub \in Submissions
      BY <2>2, <1>1, <1>4, OthersStay DEF IntakeInv, Works, Touching
    <3>2. \A n \in Touching(d) : status'[n] = status[n]
      BY <3>1, <1>6, <1>7
    <3>3. handling[d].at \in WritingAt => status'[handling[d].sub] = status[handling[d].sub]
      BY <2>2, <3>1, <1>6, <1>7 DEF Writes
    <3> QED
      BY <3>1, <3>2, <3>3, <1>1, <1>3 DEF CallPlaced, WritingAt
  <2> QED
    BY <2>1, <2>2
<1> SUFFICES ASSUME NEW n \in Submissions PROVE Row(n)' /\ Single(n)' /\ Recorded(n)' /\ Stored(n)'
  BY <1>11, <1>12, <1>13, <1>14 DEF IntakeInv
<1>15. CASE n # k
  <2>1. Row(n)'
    BY <1>15, <1>1, <1>3, <1>4, <1>5, <1>7, OthersStay DEF IntakeInv, Row
  <2>2. Single(n)'
    BY <1>15, <1>1, <1>4, <1>5, <1>7, OthersStay DEF IntakeInv, Single
  <2>3. Recorded(n)'
    <3>1. /\ \A d \in Visitors : (Writes(d, n)' <=> Writes(d, n)) /\ Touching(d)' = Touching(d)
          /\ \A d \in Visitors : Writes(d, n) => handling'[d] = handling[d]
          /\ RecordsOf(n)' = RecordsOf(n) /\ status'[n] = status[n] /\ Recorded(n)
      BY <1>15, <1>3, <1>4, <1>5, <1>7, OthersStay DEF IntakeInv
    <3> QED
      BY <3>1, <1>1 DEF Recorded
  <2>4. Stored(n)'
    BY <1>15, <1>1, <1>3, <1>4, <1>5, <1>7, OthersStay DEF IntakeInv, Stored
  <2> QED
    BY <2>1, <2>2, <2>3, <2>4
<1>16. CASE n = k
  <2>0. n \notin disputed => \A d \in Visitors : (d # c => ~Writes(d, n)') /\ n \notin Touching(d)'
    <3>1. n \notin disputed => \A d \in Visitors : (d # c => ~Writes(d, n)) /\ n \notin Touching(d)
      BY <1>5, <1>16 DEF IntakeInv, Single
    <3> QED
      BY <1>4, <1>5, <3>1, OthersStay
  <2>1. Row(n)'
    <3>1. status[n] = "underway" => handling[c].for = "submit"
      BY <1>1, <1>16 DEF IntakeInv, CallPlaced, WritingAt, Decidable
    <3>2. status'[n] = "underway" => Writes(c, n)'
      BY <3>1, <1>4, <1>5, <1>6, <1>7, <1>16, <1>1
    <3> QED
      BY <3>2, <1>1, <1>3, <1>6, <1>7, <1>16 DEF IntakeInv, Row, Decidable
  <2>2. Single(n)'
    <3>1. n \notin disputed /\ handling'[c].at = "link" /\ handling[c].for = "approve" => status'[n] = "quarantined"
      BY <1>5, <1>7, <1>16 DEF IntakeInv, Single
    <3>2. n \notin disputed => \A d \in Visitors : Deleting(d)' => Deleting(d) /\ (Writes(c, n)' => handling'[c].for = "submit")
      BY <1>1, <1>4, <1>5, <1>16, OthersStay DEF IntakeInv, Single
    <3> QED
      BY <2>0, <3>1, <3>2, <1>1, <1>4, <1>5, <1>16 DEF Single
  <2>3. n \notin disputed \cup unfinished => RecordsOf(n) = {}
    BY <1>16, <1>1, <1>5 DEF IntakeInv, Recorded
  <2>4. Recorded(n)'
    <3>1. CASE handling'[c].at = "idle"
      <4>1. \A d \in Visitors : n \notin disputed => ~Writes(d, n)'
        BY <2>0, <3>1, <1>5
      <4>2. RecordsOf(n)' = RecordsOf(n)
        BY <3>1, <1>3, <1>4, <1>16
      <4> QED
        BY <2>3, <4>1, <4>2, <1>1 DEF Recorded
    <3>2. CASE handling'[c].at = "link"
      <4>1. RecordsOf(n)' = RecordsOf(n) \cup {r} /\ handling'[c].rec = r /\ Writes(c, n)'
        BY <3>2, <1>3, <1>4, <1>5, <1>16
      <4> QED
        BY <2>0, <2>3, <3>2, <4>1, <1>1 DEF Recorded
    <3> QED
      BY <3>1, <3>2, <1>4
  <2>5. Stored(n)'
    BY <1>16, <1>1, <1>5 DEF Stored, IntakeInv
  <2> QED
    BY <2>1, <2>2, <2>4, <2>5
<1> QED
  BY <1>15, <1>16

LEMMA LinkStep ==
    ASSUME IntakeInv, NEW c \in Visitors, link_attachments(c)
    PROVE  IntakeInv'
<1> PICK k : k = handling[c].sub
  OBVIOUS
<1>1. /\ handling \in [Visitors -> Works] /\ handling[c] \in Works /\ handling[c].at = "link" /\ handling[c].todo = {}
      /\ k \in Submissions /\ handling[c].rec \in RecordsOf(k) /\ linked' = linked \cup {handling[c].rec}
      /\ handling' = [handling EXCEPT ![c] = [@ EXCEPT !.at = "settle"]]
      /\ UNCHANGED <<form, status, settled, attached, records, blobs, disputed, unfinished, uncounted, slips>>
      /\ \A n : RecordsOf(n)' = RecordsOf(n)
  BY DEF link_attachments, Working, Continue, submissionRow, sights, IntakeInv, IntakeTypeOK, Works, CallPlaced, WritingAt, RecordsOf
<1>2. /\ handling' \in [Visitors -> Works] /\ \A d \in Visitors \ {c} : handling'[d] = handling[d]
      /\ handling'[c].at = "settle" /\ handling'[c].for = handling[c].for /\ handling'[c].sub = k
      /\ handling'[c].rec = handling[c].rec /\ handling'[c].todo = {}
  BY <1>1 DEF Works
<1>3. /\ \A d, n : Writes(d, n)' <=> Writes(d, n)
      /\ \A d : Touching(d)' = Touching(d) /\ (Deleting(d)' <=> Deleting(d))
  <2>1. (\A n : Writes(c, n)' <=> Writes(c, n)) /\ Touching(c)' = Touching(c) /\ (Deleting(c)' <=> Deleting(c))
    BY <1>1, <1>2 DEF Writes, Touching, Deleting, WritingAt, ReclaimingAt
  <2>2. \A d : d # c => handling'[d] = handling[d]
    BY <1>1
  <2> QED
    <3>1. ASSUME NEW d, d # c
          PROVE  Touching(d)' = Touching(d) /\ (Deleting(d)' <=> Deleting(d)) /\ \A n : Writes(d, n)' <=> Writes(d, n)
      BY <2>2, <3>1, OthersStay
    <3>2. ASSUME NEW d
          PROVE  Touching(d)' = Touching(d) /\ (Deleting(d)' <=> Deleting(d)) /\ \A n : Writes(d, n)' <=> Writes(d, n)
      <4>1. CASE d = c
        BY <2>1, <4>1
      <4>2. CASE d # c
        BY <3>1, <4>2
      <4> QED
        BY <4>1, <4>2
    <3> QED
      BY <3>2
<1>4. linked \subseteq linked' /\ linked' \subseteq DOMAIN records
  BY <1>1 DEF RecordsOf, IntakeInv, IntakeTypeOK
<1>11. IntakeTypeOK'
  BY <1>1, <1>2, <1>4 DEF IntakeInv, IntakeTypeOK
<1>12. SubmitsAlone' /\ FormGone'
  BY <1>1, <1>2 DEF IntakeInv, SubmitsAlone, FormGone, WritingAt
<1>13. CapOverrunIsConcurrency'
  BY <1>1, CapStays DEF daily_count, underway
<1>14. ASSUME NEW d \in Visitors PROVE CallPlaced(d)'
  <2>1. CASE d = c
    BY <2>1, <1>1, <1>2, <1>3 DEF IntakeInv, CallPlaced, WritingAt, ReclaimingAt
  <2>2. CASE d # c
    BY <2>2, <1>1, <1>2, <1>3, <1>4 DEF IntakeInv, CallPlaced
  <2> QED
    BY <2>1, <2>2
<1> SUFFICES ASSUME NEW n \in Submissions PROVE Row(n)' /\ Single(n)' /\ Recorded(n)' /\ Stored(n)'
  BY <1>11, <1>12, <1>13, <1>14 DEF IntakeInv
<1>15. Row(n)'
  BY <1>1, <1>3, <1>4 DEF IntakeInv, Row
<1>16. Single(n)'
  <2>1. \A d \in Visitors : handling'[d].for = handling[d].for
    BY <1>2
  <2> QED
    BY <1>1, <1>3, <2>1 DEF IntakeInv, Single
<1>17. Recorded(n)'
  <2>1. \A d \in Visitors : handling'[d].rec = handling[d].rec /\ (handling'[d].at \in {"hold", "write"} <=> handling[d].at \in {"hold", "write"})
    BY <1>1, <1>2
  <2> QED
    BY SMTT(60), <1>1, <1>3, <2>1 DEF IntakeInv, Recorded
<1>18. Stored(n)'
  BY <1>1, <1>3 DEF IntakeInv, Stored
<1> QED
  BY <1>15, <1>16, <1>17, <1>18

LEMMA SettleStep ==
    ASSUME IntakeInv, NEW c \in Visitors, Settle(c)
    PROVE  IntakeInv'
<1> PICK k, r : k = handling[c].sub /\ r = handling[c].rec
  OBVIOUS
<1>1. /\ handling \in [Visitors -> Works] /\ handling[c].at = "settle" /\ handling[c].for \in {"submit", "approve"} /\ handling[c].todo = {}
      /\ k \in Submissions /\ r \in RecordsOf(k) \cap linked /\ r \in 0..MaxRecords /\ status \in [Submissions -> Statuses]
      /\ settled \in [Submissions -> 0..MaxRecords] /\ handling' = [handling EXCEPT ![c] = NoWork]
      /\ UNCHANGED <<form, records, linked, blobs, disputed, unfinished, uncounted, slips>>
      /\ \A n : RecordsOf(n)' = RecordsOf(n)
  BY DEF Settle, Working, Continue, target, sights, IntakeInv, IntakeTypeOK, Works, CallPlaced, WritingAt, RecordsOf
<1>2. /\ handling' \in [Visitors -> Works] /\ \A d \in Visitors \ {c} : handling'[d] = handling[d]
      /\ handling'[c] = NoWork /\ handling'[c].at = "idle"
  BY <1>1, NoWorkType
<1>3. /\ \A n : ~Writes(c, n)' /\ (Writes(c, n) <=> n = k)
      /\ Touching(c)' = {} /\ Touching(c) = {} /\ ~Deleting(c) /\ ~Deleting(c)'
  BY <1>1, <1>2, NoWorkType DEF Writes, Touching, Deleting, WritingAt, ReclaimingAt
<1>4. /\ status'[k] = IF form THEN "accepted" ELSE "gone"
      /\ status' \in [Submissions -> Statuses] /\ settled' \in [Submissions -> 0..MaxRecords]
      /\ form => settled'[k] = r
      /\ \A n \in Submissions : n # k => status'[n] = status[n] /\ settled'[n] = settled[n]
      /\ attached \subseteq attached' /\ attached' \subseteq attached \cup {k} /\ (~form => attached' = attached)
  <2>1. CASE form
    BY <1>1, <2>1 DEF Settle, Statuses
  <2>2. CASE ~form
    BY <1>1, <2>2 DEF Settle, Statuses
  <2> QED
    BY <2>1, <2>2
<1>5. handling[c].for = "submit" =>
      /\ status[k] = "underway"
      /\ \A d \in Visitors \ {c} : ~Writes(d, k)
      /\ \A d \in Visitors : k \notin Touching(d)
  BY <1>1, UnderwayAlone DEF WritingAt
<1>6. handling[c].for = "approve" => status[k] \in Decidable \cup {"gone"} /\ (k \notin disputed => status[k] = "quarantined")
  BY <1>1, <1>3 DEF IntakeInv, CallPlaced, Single, WritingAt
<1>7. ~form => k \notin attached
  BY DEF IntakeInv, FormGone
<1>11. IntakeTypeOK'
  BY <1>1, <1>2, <1>4 DEF IntakeInv, IntakeTypeOK
<1>12. SubmitsAlone' /\ FormGone'
  BY <1>1, <1>2, <1>4 DEF IntakeInv, SubmitsAlone, FormGone, Decidable, WritingAt
<1>13. CapOverrunIsConcurrency'
  <2>1. disputed = {} => status[k] \in {"underway", "quarantined"}
    BY <1>1, <1>5, <1>6
  <2>2. disputed = {} => daily_count' \cup underway' \subseteq daily_count \cup underway
    BY <2>1, <1>1, <1>4 DEF daily_count, underway
  <2> QED
    BY <2>2, <1>1, CapStays
<1>14. ASSUME NEW d \in Visitors PROVE CallPlaced(d)'
  <2>1. CASE d = c
    BY <2>1, <1>2, <1>3, NoWorkType DEF CallPlaced, WritingAt, ReclaimingAt
  <2>2. CASE d # c
    <3>1. CallPlaced(d) /\ handling'[d] = handling[d] /\ Touching(d)' = Touching(d) /\ Touching(d) \subseteq Submissions /\ handling[d].sub \in Submissions
      BY <2>2, <1>1, <1>2, OthersStay DEF IntakeInv, Works, Touching
    <3>2. \A n \in Submissions : status[n] \in Decidable \cup {"gone"} => status'[n] \in Decidable \cup {"gone"}
      BY <1>4 DEF Decidable
    <3>3. handling[d].at \in WritingAt /\ handling[d].for = "submit" => status'[handling[d].sub] = "underway"
      BY <2>2, <3>1, <1>1, <1>4, <1>5, <1>6 DEF Writes, CallPlaced, Decidable
    <3> QED
      BY <3>1, <3>2, <3>3, <1>1 DEF CallPlaced
  <2> QED
    BY <2>1, <2>2
<1> SUFFICES ASSUME NEW n \in Submissions PROVE Row(n)' /\ Single(n)' /\ Recorded(n)' /\ Stored(n)'
  BY <1>11, <1>12, <1>13, <1>14 DEF IntakeInv
<1>15. CASE n # k
  <2>0. /\ \A d \in Visitors : (Writes(d, n)' <=> Writes(d, n)) /\ Touching(d)' = Touching(d) /\ (Deleting(d)' <=> Deleting(d))
        /\ \A d \in Visitors : Writes(d, n) \/ n \in Touching(d) => handling'[d] = handling[d]
        /\ status'[n] = status[n] /\ settled'[n] = settled[n] /\ (n \in attached' <=> n \in attached)
    <3>1. ASSUME NEW d \in Visitors
          PROVE  /\ (Writes(d, n)' <=> Writes(d, n)) /\ Touching(d)' = Touching(d) /\ (Deleting(d)' <=> Deleting(d))
                 /\ Writes(d, n) \/ n \in Touching(d) => handling'[d] = handling[d]
      <4>1. CASE d = c
        BY <4>1, <1>15, <1>2, <1>3
      <4>2. CASE d # c
        BY <4>2, <1>2, OthersStay
      <4> QED
        BY <4>1, <4>2
    <3>2. status'[n] = status[n] /\ settled'[n] = settled[n] /\ (n \in attached' <=> n \in attached)
      BY <1>15, <1>4
    <3> QED
      BY <3>1, <3>2
  <2>1. Row(n)'
    BY <2>0, <1>1 DEF IntakeInv, Row
  <2>2. Single(n)'
    BY <2>0, <1>1 DEF IntakeInv, Single
  <2>3. Recorded(n)'
    <3>1. Recorded(n) /\ RecordsOf(n)' = RecordsOf(n)
      BY <1>1 DEF IntakeInv
    <3> QED
      BY <2>0, <3>1, <1>1 DEF Recorded
  <2>4. Stored(n)'
    BY <2>0, <1>1 DEF IntakeInv, Stored
  <2> QED
    BY <2>1, <2>2, <2>3, <2>4
<1>16. CASE n = k
  <2>0. n \notin disputed => \A d \in Visitors : ~Writes(d, n)' /\ n \notin Touching(d)'
    <3>1. n \notin disputed => \A d \in Visitors : (d # c => ~Writes(d, n)) /\ n \notin Touching(d)
      BY <1>3, <1>16 DEF IntakeInv, Single
    <3> QED
      BY <1>2, <1>3, <3>1, OthersStay
  <2>1. Row(n)'
    BY <1>16, <1>1, <1>4, <1>7 DEF Row, Decidable
  <2>2. Single(n)'
    BY <2>0, <1>1 DEF Single
  <2>3. n \notin disputed \cup unfinished => RecordsOf(n) = {r}
    BY <1>16, <1>1, <1>3 DEF IntakeInv, Recorded
  <2>4. Recorded(n)'
    BY <1>16, <2>0, <2>3, <1>1, <1>4 DEF Recorded
  <2>5. Stored(n)'
    BY <1>16, <1>1, <1>3 DEF Stored, IntakeInv
  <2> QED
    BY <2>1, <2>2, <2>4, <2>5
<1> QED
  BY <1>15, <1>16

LEMMA CallEndsStep ==
    ASSUME IntakeInv, NEW c \in Visitors, CallEnds(c)
    PROVE  IntakeInv'
<1> PICK k : k = handling[c].sub
  OBVIOUS
<1>1. /\ handling \in [Visitors -> Works] /\ handling[c] \in Works /\ k \in Submissions /\ handling[c].at # "idle"
      /\ handling[c].for = "submit" => handling[c].at \in WritingAt
      /\ handling' = [handling EXCEPT ![c] = NoWork] /\ status \in [Submissions -> Statuses]
      /\ status' = IF handling[c].for = "submit" THEN [status EXCEPT ![k] = "none"] ELSE status
      /\ UNCHANGED <<form, settled, attached, records, linked, blobs, disputed, uncounted>>
      /\ slips < MaxSlips /\ slips' = slips + 1
      /\ \A n : RecordsOf(n)' = RecordsOf(n)
  <2>1. handling[c].at \in WritingAt \cup ReclaimingAt \/ handling[c].at = "idle"
    BY DEF IntakeInv, IntakeTypeOK, Works, WritingAt, ReclaimingAt
  <2> QED
    BY <2>1 DEF CallEnds, Working, Continue, Slip, target, IntakeInv, IntakeTypeOK, Works, CallPlaced, WritingAt, RecordsOf
<1>2. /\ handling' \in [Visitors -> Works] /\ \A d \in Visitors \ {c} : handling'[d] = handling[d]
      /\ handling'[c] = NoWork /\ handling'[c].at = "idle"
  BY <1>1, NoWorkType
<1>3. /\ \A n : ~Writes(c, n)'
      /\ Touching(c)' = {} /\ ~Deleting(c)'
  BY <1>2, NoWorkType DEF Writes, Touching, Deleting, WritingAt, ReclaimingAt
<1>4. handling[c].for = "submit" =>
      /\ status[k] = "underway" /\ k \notin attached /\ Writes(c, k)
      /\ \A d \in Visitors \ {c} : ~Writes(d, k)
      /\ \A d \in Visitors : k \notin Touching(d)
  BY <1>1, UnderwayAlone DEF Writes
<1>5. /\ unfinished \subseteq unfinished' /\ unfinished' \subseteq Submissions
      /\ handling[c].at \in {"link", "settle"} => k \in unfinished'
      /\ handling[c].for = "form" => \A n \in attached : status[n] # "accepted" => n \in unfinished'
  <2>1. InHand(c) \subseteq Submissions /\ unfinished \subseteq Submissions
    BY <1>1 DEF InHand, IntakeInv, IntakeTypeOK, Works
  <2> QED
    BY <1>1, <2>1 DEF CallEnds, Working, InHand
<1>6. /\ \A n \in Submissions : n # k => status'[n] = status[n]
      /\ status'[k] = IF handling[c].for = "submit" THEN "none" ELSE status[k]
      /\ status' \in [Submissions -> Statuses]
  BY <1>1 DEF Statuses
<1>11. IntakeTypeOK'
  <2>1. slips' \in 0..MaxSlips
    BY <1>1, IntakeAssumption DEF IntakeInv, IntakeTypeOK
  <2> QED
    BY <2>1, <1>1, <1>2, <1>5, <1>6 DEF IntakeInv, IntakeTypeOK
<1>12. SubmitsAlone' /\ FormGone'
  BY <1>1, <1>2, <1>6 DEF IntakeInv, SubmitsAlone, FormGone, Decidable, WritingAt
<1>13. CapOverrunIsConcurrency'
  BY <1>1, <1>6, CapStays DEF daily_count, underway
<1>14. ASSUME NEW d \in Visitors PROVE CallPlaced(d)'
  <2>1. CASE d = c
    BY <2>1, <1>2, <1>3, NoWorkType DEF CallPlaced, WritingAt, ReclaimingAt
  <2>2. CASE d # c
    <3>1. CallPlaced(d) /\ handling'[d] = handling[d] /\ Touching(d)' = Touching(d) /\ Touching(d) \subseteq Submissions /\ handling[d].sub \in Submissions
      BY <2>2, <1>1, <1>2, OthersStay DEF IntakeInv, Works, Touching
    <3>2. \A n \in Touching(d) : status'[n] = status[n]
      BY <3>1, <1>4, <1>6
    <3>3. handling[d].at \in WritingAt => status'[handling[d].sub] = status[handling[d].sub]
      BY <2>2, <3>1, <1>4, <1>6 DEF Writes
    <3> QED
      BY <3>1, <3>2, <3>3, <1>1 DEF CallPlaced
  <2> QED
    BY <2>1, <2>2
<1> SUFFICES ASSUME NEW n \in Submissions PROVE Row(n)' /\ Single(n)' /\ Recorded(n)' /\ Stored(n)'
  BY <1>11, <1>12, <1>13, <1>14 DEF IntakeInv
<1>0. \A d \in Visitors :
          /\ Writes(d, n)' => Writes(d, n) /\ d # c /\ handling'[d] = handling[d]
          /\ n \in Touching(d)' => n \in Touching(d) /\ d # c /\ handling'[d] = handling[d]
          /\ d # c => (Writes(d, n)' <=> Writes(d, n)) /\ (Deleting(d)' <=> Deleting(d)) /\ handling'[d] = handling[d]
          /\ Deleting(d)' => Deleting(d)
  BY <1>2, <1>3, OthersStay
<1>15. Row(n)'
  <2>1. status'[n] = "underway" => \E d \in Visitors : Writes(d, n)'
    <3> SUFFICES ASSUME status'[n] = "underway" PROVE \E d \in Visitors : Writes(d, n)'
      OBVIOUS
    <3>1. status[n] = "underway" /\ ~(n = k /\ handling[c].for = "submit")
      BY <1>4, <1>6
    <3>2. PICK d \in Visitors : Writes(d, n)
      BY <3>1 DEF IntakeInv, Row
    <3>3. handling[d].for = "submit"
      BY <3>1, <3>2 DEF IntakeInv, CallPlaced, Writes, Decidable
    <3>4. d # c
      BY <3>1, <3>2, <3>3 DEF Writes
    <3> QED
      BY <1>0, <3>2, <3>4
  <2> QED
    BY <2>1, <1>1, <1>4, <1>6 DEF IntakeInv, Row
<1>16. Single(n)'
  <2>1. \A d \in Visitors : Writes(d, n)' \/ n \in Touching(d)' => status'[n] = status[n]
    BY <1>0, <1>4, <1>6
  <2> QED
    BY <1>0, <1>1, <2>1 DEF IntakeInv, Single
<1>17. Recorded(n)'
  <2> SUFFICES ASSUME n \notin disputed \cup unfinished' PROVE Recorded(n)'
    BY <1>1 DEF Recorded
  <2>1. Recorded(n) /\ Single(n) /\ n \notin disputed \cup unfinished
    BY <1>5 DEF IntakeInv
  <2>2. /\ \A d \in Visitors : Writes(d, n)' => RecordsOf(n) = IF handling'[d].at \in {"hold", "write"} THEN {} ELSE {handling'[d].rec}
        /\ \A d \in Visitors : n \in Touching(d)' => RecordsOf(n) = {}
        /\ \E r : RecordsOf(n) \subseteq {r}
    BY <1>0, <2>1 DEF Recorded
  <2>3. Writes(c, n) => RecordsOf(n) = {}
    <3>1. Writes(c, n) => n = k /\ handling[c].at \notin {"link", "settle"} /\ handling[c].at \in WritingAt
      BY <1>5 DEF Writes
    <3> QED
      BY <3>1, <2>1 DEF Recorded, WritingAt
  <2>4. (\A d \in Visitors : ~Writes(d, n)') /\ status'[n] \in {"unborn", "none", "quarantined", "rejected"} => RecordsOf(n) = {}
    <3> SUFFICES ASSUME \A d \in Visitors : ~Writes(d, n)', status'[n] \in {"unborn", "none", "quarantined", "rejected"}, ~Writes(c, n)
                 PROVE  RecordsOf(n) = {}
      BY <2>3
    <3>1. \A d \in Visitors : ~Writes(d, n)
      BY <1>0
    <3>2. status'[n] = status[n]
      BY <1>4, <1>6
    <3> QED
      BY <3>1, <3>2, <2>1 DEF Recorded
  <2> QED
    BY <1>1, <2>2, <2>4 DEF Recorded
<1>18. Stored(n)'
  <2> SUFFICES ASSUME n \notin blobs \cup disputed \cup unfinished' PROVE Stored(n)'
    BY <1>1 DEF Stored
  <2>1. Stored(n) /\ Row(n) /\ n \notin blobs \cup disputed \cup unfinished
    BY <1>5 DEF IntakeInv
  <2>2. status'[n] = "quarantined" => status[n] = "quarantined" /\ n \in attached
    BY <1>6, <2>1 DEF Row
  <2>3. status'[n] = "quarantined" => \E d \in Visitors : Deleting(d) /\ d # c
    BY <2>1, <2>2, <1>5 DEF Stored, Deleting
  <2> QED
    BY <1>0, <1>1, <2>1, <2>3 DEF Stored
<1> QED
  BY <1>15, <1>16, <1>17, <1>18

-----------------------------------------------------------------------------

LEMMA IntakeInitInv == IntakeInit => IntakeInv
<1> SUFFICES ASSUME IntakeInit PROVE IntakeInv
  OBVIOUS
<1>1. IntakeTypeOK
  <2>1. records \in Seq(Submissions) /\ linked \subseteq DOMAIN records
    BY EmptySeq DEF IntakeInit
  <2>2. settled \in [Submissions -> 0..MaxRecords] /\ slips \in 0..MaxSlips /\ status \in [Submissions -> Statuses]
    BY IntakeAssumption DEF IntakeInit, Statuses
  <2>3. handling \in [Visitors -> Works] /\ form \in BOOLEAN /\ uncounted \in BOOLEAN
    BY NoWorkType DEF IntakeInit
  <2> QED
    BY <2>1, <2>2, <2>3 DEF IntakeInit, IntakeTypeOK
<1>2. /\ \A c \in Visitors : handling[c] = NoWork /\ handling[c].at = "idle" /\ Touching(c) = {} /\ \A n : ~Writes(c, n)
      /\ \A n \in Submissions : status[n] = "unborn" /\ RecordsOf(n) = {} /\ n \notin attached
      /\ form
  BY NoWorkType DEF IntakeInit, Touching, Writes, WritingAt, RecordsOf
<1>3. SubmitsAlone /\ FormGone /\ \A c \in Visitors : CallPlaced(c)
  BY <1>2 DEF SubmitsAlone, FormGone, CallPlaced, WritingAt, ReclaimingAt
<1>4. \A n \in Submissions : Row(n) /\ Single(n) /\ Recorded(n) /\ Stored(n)
  BY <1>2 DEF Row, Single, Recorded, Stored
<1>5. CapOverrunIsConcurrency
  <2>1. daily_count \cup underway = {}
    BY <1>2 DEF daily_count, underway
  <2>2. Cardinality(Visitors) \in Nat /\ Cardinality(Visitors) # 0 /\ DailyCap \in Nat
    BY FS_CardinalityType, FS_EmptySet, IntakeAssumption
  <2> QED
    BY <2>1, <2>2, FS_EmptySet DEF CapOverrunIsConcurrency, underway
<1> QED
  BY <1>1, <1>3, <1>4, <1>5 DEF IntakeInv

LEMMA IntakeNextInv == IntakeInv /\ [IntakeNext]_intakeVars => IntakeInv'
<1> SUFFICES ASSUME IntakeInv, [IntakeNext]_intakeVars PROVE IntakeInv'
  OBVIOUS
<1>1. CASE UNCHANGED intakeVars
  <2>1. /\ UNCHANGED <<form, status, settled, attached, records, linked, blobs, handling, disputed, unfinished, uncounted, slips>>
        /\ \A n : RecordsOf(n)' = RecordsOf(n)
        /\ \A d : Touching(d)' = Touching(d) /\ (Deleting(d)' <=> Deleting(d)) /\ \A n : Writes(d, n)' <=> Writes(d, n)
    BY <1>1 DEF intakeVars, RecordsOf, Touching, Deleting, Writes
  <2>2. IntakeTypeOK' /\ SubmitsAlone' /\ FormGone'
    BY <2>1 DEF IntakeInv, IntakeTypeOK, SubmitsAlone, FormGone
  <2>3. CapOverrunIsConcurrency'
    BY <2>1, CapStays DEF daily_count, underway
  <2>4. \A c \in Visitors : CallPlaced(c)'
    BY <2>1 DEF IntakeInv, CallPlaced
  <2>5. \A n \in Submissions : Row(n)' /\ Stored(n)'
    BY <2>1 DEF IntakeInv, Row, Stored
  <2>6. \A n \in Submissions : Single(n)'
    BY <2>1 DEF IntakeInv, Single
  <2>7. \A n \in Submissions : Recorded(n)'
    BY <2>1 DEF IntakeInv, Recorded
  <2> QED
    BY <2>2, <2>3, <2>4, <2>5, <2>6, <2>7 DEF IntakeInv
<1>2. CASE IntakeNext
  BY <1>2, SubmitStep, HoldStep, InsertStep, LinkStep, SettleStep, ApproveStep, RejectStep, BeginReclaimStep,
     ReclaimStep, EndReclaimStep, CallEndsStep DEF IntakeNext
<1> QED
  BY <1>1, <1>2

LEMMA IntakeInvMeans == IntakeInv => SubmissionsSettleOnce
<1> SUFFICES ASSUME IntakeInv PROVE SubmissionsSettleOnce
  OBVIOUS
<1>1. WrittenOnce
  <2>1. ASSUME NEW n \in Submissions, n \notin disputed \cup unfinished PROVE Cardinality(RecordsOf(n)) <= 1
    <3>1. PICK r : RecordsOf(n) \subseteq {r}
      BY <2>1 DEF IntakeInv, Recorded
    <3>2. RecordsOf(n) = {} \/ RecordsOf(n) = {r}
      BY <3>1
    <3>3. Cardinality({}) = 0 /\ Cardinality({r}) = 1
      BY FS_EmptySet, FS_Singleton
    <3> QED
      BY <3>2, <3>3
  <2> QED
    BY <2>1 DEF WrittenOnce, IntakeInv, Row
<1>2. HeldHasNoRecord
  <2> SUFFICES ASSUME NEW n \in Submissions, status[n] \in {"quarantined", "rejected"}, RecordsOf(n) # {}, n \notin disputed \cup unfinished
               PROVE  \E c \in Visitors : n \in InHand(c)
    BY DEF HeldHasNoRecord
  <2>1. PICK c \in Visitors : Writes(c, n) /\ handling[c].at \notin {"hold", "write"}
    BY DEF IntakeInv, Recorded
  <2> QED
    BY <2>1 DEF Writes, WritingAt, InHand
<1>3. LinkedBlobsStay
  <2> SUFFICES ASSUME NEW r \in linked PROVE records[r] \in blobs \cup disputed \cup unfinished
    BY DEF LinkedBlobsStay
  <2>1. r \in DOMAIN records /\ records[r] \in Submissions /\ r \in RecordsOf(records[r])
    <3>1. r \in DOMAIN records /\ records \in Seq(Submissions)
      BY DEF IntakeInv, IntakeTypeOK
    <3>2. records[r] \in Submissions
      BY <3>1, LenProperties, ElementOfSeq
    <3> QED
      BY <3>1, <3>2 DEF RecordsOf
  <2> QED
    BY <2>1 DEF IntakeInv, Stored
<1> QED
  BY <1>1, <1>2, <1>3 DEF SubmissionsSettleOnce, IntakeInv

\* A submission has one outcome, and its record, its upload and the daily cap
\* agree with it, but for the interleavings and the failures the property
\* names: for every number of calls, submissions and failures.
THEOREM SettledOnce == IntakeSpec => []SubmissionsSettleOnce
<1> QED
  BY IntakeInitInv, IntakeNextInv, IntakeInvMeans, PTL DEF IntakeSpec

\* Submissions, records and the work on them stay in their types: what a
\* submission has become is a record there is.
THEOREM IntakeTypes == IntakeSpec => []IntakeTypeOK
<1>1. IntakeInv => IntakeTypeOK
  BY DEF IntakeInv
<1> QED
  BY IntakeInitInv, IntakeNextInv, <1>1, PTL DEF IntakeSpec

=============================================================================
