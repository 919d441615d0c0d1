--------------------------- MODULE ChangeRequests ---------------------------
(***************************************************************************)
(* The workflow engine of vortex-workflow and its one client, the change   *)
(* requests of vortex-change. A transition reads the instance, checks the  *)
(* edge and the policy, and then writes three times, each in a transaction *)
(* of its own: the audit ledger, the history table, the instance.          *)
(*                                                                         *)
(* entangled and severed only observe: two transitions of one instance     *)
(* between read and write at once, and a transition that ended early.      *)
(***************************************************************************)
EXTENDS Integers, FiniteSets, SequencesExt

CONSTANTS Users, Approvers,    \* and those of them with role change_approver
          MaxInstances,        \* bound: change requests created
          MaxNumberAttempts,   \* tries at a free number (5 in the code)
          MaxTransitions,      \* bound: transitions asked for
          MaxLosses            \* bound: requests that die, reads that fail

ASSUME ChangeAssumption ==
    /\ Approvers \subseteq Users
    /\ MaxInstances \in Nat \ {0} /\ MaxNumberAttempts \in Nat \ {0}
    /\ MaxTransitions \in Nat /\ MaxLosses \in Nat

VARIABLES
    instance,    \* workflow_instances.current_state and created_by
    number,      \* change_requests.number per instance, 0 before its row is there
    timeline,    \* workflow_transitions, per instance
    ledger,      \* audit_log
    errand,      \* the position of each user's request
    entangled, severed, unread,
    transitions, losses   \* how much of the bounds has been used

changeVars == <<instance, number, timeline, ledger, errand, entangled, severed, unread, transitions, losses>>

Instances == 1..MaxInstances
Edge(name, from, to) == [name |-> name, from |-> from, to |-> to]
cr_state_machine ==
    {Edge("submit", "draft", "submitted"), Edge("review", "submitted", "under_review"),
     Edge("approve", "under_review", "approved"), Edge("close", "approved", "closed"),
     Edge("reject", "under_review", "rejected"), Edge("send_back", "under_review", "submitted")}
    \cup {Edge("withdraw", s, "withdrawn") : s \in {"draft", "submitted", "under_review"}}
WorkflowStates == {"draft"} \cup {e.to : e \in cr_state_machine}
LedgerRows == [on : Instances, edge : cr_state_machine, by : Users]
History == [edge : cr_state_machine, by : Users, entry : Nat]
Nothing == [at |-> "idle", on |-> 1, edge |-> Edge("submit", "draft", "submitted"), entry |-> 0, n |-> 0, tries |-> 0]

ChangeTypeOK ==
    /\ DOMAIN instance \subseteq Instances
    /\ \A i \in DOMAIN instance : instance[i] \in [state : WorkflowStates, by : Users]
    /\ number \in [Instances -> 0..MaxInstances]
    /\ \A i \in Instances : \A k \in DOMAIN timeline[i] : timeline[i][k] \in History
    /\ \A k \in DOMAIN ledger : ledger[k] \in LedgerRows
    /\ \A u \in Users :
          /\ errand[u].at \in {"idle", "count", "insert", "audit", "record", "update"}
          /\ errand[u].on \in Instances /\ errand[u].edge \in cr_state_machine
          /\ errand[u].tries \in 0..MaxNumberAttempts /\ errand[u].n \in 0..MaxInstances
    /\ entangled \cup severed \cup unread \subseteq Instances

ChangeInit ==
    /\ instance = <<>> /\ number = [i \in Instances |-> 0]
    /\ timeline = [i \in Instances |-> <<>>] /\ ledger = <<>>
    /\ errand = [u \in Users |-> Nothing]
    /\ entangled = {} /\ severed = {} /\ unread = {} /\ transitions = 0 /\ losses = 0

-----------------------------------------------------------------------------

Step_(u, step) == errand' = [errand EXCEPT ![u] = IF step = "idle" THEN Nothing ELSE [@ EXCEPT !.at = step]]
seen == <<entangled, severed, unread>>

\* cr_create. The instance comes first; if the rest fails it stays, without
\* a change request.
create_instance(u) ==
    LET i == Len(instance) + 1
    IN /\ errand[u].at = "idle"
       /\ i <= MaxInstances
       /\ instance' = Append(instance, [state |-> "draft", by |-> u])
       /\ errand' = [errand EXCEPT ![u] = [Nothing EXCEPT !.at = "count", !.on = i]]
       /\ UNCHANGED <<number, timeline, ledger, seen, transitions, losses>>

generate_cr_number(u) ==
    /\ errand[u].at = "count"
    /\ IF errand[u].tries < MaxNumberAttempts
       THEN errand' = [errand EXCEPT ![u].at = "insert", ![u].tries = @ + 1,
                                     ![u].n = Cardinality({i \in Instances : number[i] # 0}) + 1]
       ELSE Step_(u, "idle")
    /\ UNCHANGED <<instance, number, timeline, ledger, seen, transitions, losses>>

\* uq_change_requests_tenant_number; the creation is audited with the row.
InsertRequest(u) ==
    /\ errand[u].at = "insert"
    /\ IF \E i \in Instances : number[i] = errand[u].n
       THEN Step_(u, "count") /\ UNCHANGED number
       ELSE Step_(u, "idle") /\ number' = [number EXCEPT ![errand[u].on] = errand[u].n]
    /\ UNCHANGED <<instance, timeline, ledger, seen, transitions, losses>>

-----------------------------------------------------------------------------

\* The seeded policies (without the administrators').
Permitted(u, name) ==
    \/ name \in {"submit", "withdraw", "close"}
    \/ u \in Approvers /\ name \in {"review", "approve", "reject", "send_back"}

\* A slip: the second layer leaves it to the policies.
NotTheirOwn_LeftToPolicy(u, i, lost) == TRUE

\* The look at the requester can fail, and then names nobody.
NotTheirOwn(u, i, lost) == lost \/ instance[i].by # u

\* cr_transition, and the reads of transition: instance, edge, policy.
cr_transition(u, i, lost) ==
    \E e \in cr_state_machine :
        /\ errand[u].at = "idle"
        /\ transitions < MaxTransitions /\ (lost => losses < MaxLosses /\ e.name = "approve")
        /\ number[i] # 0 /\ instance[i].state = e.from
        /\ e.name = "approve" => NotTheirOwn(u, i, lost)
        /\ Permitted(u, e.name)
        /\ errand' = [errand EXCEPT ![u] = [Nothing EXCEPT !.at = "audit", !.on = i, !.edge = e]]
        /\ transitions' = transitions + 1 /\ losses' = losses + (IF lost THEN 1 ELSE 0)
        /\ unread' = unread \cup (IF lost THEN {i} ELSE {})
        /\ entangled' = entangled \cup
              (IF \E v \in Users \ {u} : errand[v].on = i /\ errand[v].at \in {"audit", "record", "update"}
               THEN {i} ELSE {})
        /\ UNCHANGED <<instance, number, timeline, ledger, severed>>

LogTransition(u) ==
    /\ errand[u].at = "audit"
    /\ ledger' = Append(ledger, [on |-> errand[u].on, edge |-> errand[u].edge, by |-> u])
    /\ errand' = [errand EXCEPT ![u].at = "record", ![u].entry = Len(ledger) + 1]
    /\ UNCHANGED <<instance, number, timeline, seen, transitions, losses>>

record_transition(u) ==
    LET i == errand[u].on
    IN /\ errand[u].at = "record"
       /\ timeline' = [timeline EXCEPT ![i] = Append(@, [edge |-> errand[u].edge, by |-> u, entry |-> errand[u].entry])]
       /\ Step_(u, "update")
       /\ UNCHANGED <<instance, number, ledger, seen, transitions, losses>>

\* By id alone, whatever the state has become.
update_instance_state(u) ==
    /\ errand[u].at = "update"
    /\ instance' = [instance EXCEPT ![errand[u].on].state = errand[u].edge.to]
    /\ Step_(u, "idle")
    /\ UNCHANGED <<number, timeline, ledger, seen, transitions, losses>>

\* The process dies, or a statement fails and the request ends.
LoseRequest(u) ==
    /\ errand[u].at # "idle" /\ losses < MaxLosses
    /\ losses' = losses + 1
    /\ severed' = severed \cup (IF errand[u].at \in {"record", "update"} THEN {errand[u].on} ELSE {})
    /\ Step_(u, "idle")
    /\ UNCHANGED <<instance, number, timeline, ledger, entangled, unread, transitions>>

ChangeNext ==
    \E u \in Users :
        \/ create_instance(u) \/ generate_cr_number(u) \/ InsertRequest(u)
        \/ \E i \in DOMAIN instance, lost \in BOOLEAN : cr_transition(u, i, lost)
        \/ LogTransition(u) \/ record_transition(u) \/ update_instance_state(u)
        \/ LoseRequest(u)

ChangeSpec == ChangeInit /\ [][ChangeNext]_changeVars

-----------------------------------------------------------------------------
(* Properties *)

InTransition(i) == \E u \in Users : errand[u].on = i /\ errand[u].at \in {"audit", "record", "update"}
PathTo(t, state) ==
    /\ \A k \in DOMAIN t : t[k].edge.from = IF k = 1 THEN "draft" ELSE t[k - 1].edge.to
    /\ state = IF t = <<>> THEN "draft" ELSE Last(t).edge.to

\* What an auditor reads: each row of the history was written to the ledger
\* before it, by the same actor; the instance is in a state the history
\* leads to, nobody's request is approved by themselves (unless the look at
\* the requester failed), and a change request that two transitions never
\* met on and none died on has a history that is one path to its state, with
\* nothing in the ledger beside it.
HistoryExplainsState ==
    \A i \in DOMAIN instance :
        LET t == timeline[i]
        IN /\ \A k \in DOMAIN t : ledger[t[k].entry] = [on |-> i, edge |-> t[k].edge, by |-> t[k].by]
           /\ instance[i].state \in {"draft"} \cup {t[k].edge.to : k \in DOMAIN t}
           /\ i \notin unread => \A k \in DOMAIN t : t[k].edge.name = "approve" => t[k].by # instance[i].by
           /\ i \notin entangled \cup severed /\ ~InTransition(i) =>
                 /\ PathTo(t, instance[i].state)
                 /\ Cardinality({k \in DOMAIN ledger : ledger[k].on = i}) = Len(t)

=============================================================================
