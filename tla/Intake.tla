------------------------------- MODULE Intake -------------------------------
(***************************************************************************)
(* Web forms of vortex-framework: one form whose submissions are written   *)
(* as records at once or held until they are approved, the daily cap, and  *)
(* the sweep and the deletion of the form that reclaim the uploaded blobs  *)
(* nobody links. Every statement commits on its own, and so does every     *)
(* call of the file store.                                                 *)
(*                                                                         *)
(* disputed, unfinished and uncounted only observe: submissions two calls  *)
(* worked on at once, submissions whose approval, or the deletion of whose *)
(* form, was cut short halfway, and a count that failed.                   *)
(***************************************************************************)
EXTENDS Integers, Sequences, FiniteSets

CONSTANTS Visitors,        \* calls that can be under way
          DailyCap,
          MaxSubmissions,  \* bound: submissions in the day
          MaxRecords,      \* bound: records written for them
          MaxSlips         \* bound: statements that fail, calls cut short

ASSUME IntakeAssumption ==
    /\ IsFiniteSet(Visitors) /\ Visitors # {}
    /\ {DailyCap, MaxSubmissions, MaxRecords} \subseteq Nat \ {0} /\ MaxSlips \in Nat

VARIABLES
    form,        \* the web_form row is there
    status,      \* web_form_submission.status, and what became of the others
    settled,     \* web_form_submission.record_id, 0 for none
    attached,    \* submissions whose row still lists its blob
    records,     \* the target table: the submission each record was written for
    linked,      \* records with an ir_attachment row for their submission's blob
    blobs,       \* submissions whose blob is in the file store
    handling,    \* the position of each call
    disputed, unfinished, uncounted, slips

intakeVars == <<form, status, settled, attached, records, linked, blobs, handling,
                disputed, unfinished, uncounted, slips>>

Submissions == 1..MaxSubmissions
Statuses == {"unborn", "underway", "none", "quarantined", "accepted", "rejected", "gone"}
Works == [at : {"idle", "hold", "write", "link", "settle", "check", "delete", "clear"},
          for : {"submit", "approve", "sweep", "form"},
          sub : Submissions, rec : 0..MaxRecords, todo : SUBSET Submissions]
NoWork == [at |-> "idle", for |-> "submit", sub |-> 1, rec |-> 0, todo |-> {}]

IntakeTypeOK ==
    /\ form \in BOOLEAN /\ status \in [Submissions -> Statuses]
    /\ settled \in [Submissions -> 0..MaxRecords]
    /\ records \in Seq(Submissions) /\ linked \subseteq DOMAIN records
    /\ handling \in [Visitors -> Works]
    /\ attached \cup blobs \cup disputed \cup unfinished \subseteq Submissions
    /\ uncounted \in BOOLEAN /\ slips \in 0..MaxSlips

IntakeInit ==
    /\ form = TRUE /\ status = [n \in Submissions |-> "unborn"]
    /\ settled = [n \in Submissions |-> 0]
    /\ records = <<>> /\ linked = {} /\ attached = {} /\ blobs = {}
    /\ handling = [c \in Visitors |-> NoWork]
    /\ disputed = {} /\ unfinished = {} /\ uncounted = FALSE /\ slips = 0

-----------------------------------------------------------------------------

Working(c, at) == handling[c].at = at
Continue(c, at) == handling' = [handling EXCEPT ![c] = IF at = "idle" THEN NoWork ELSE [@ EXCEPT !.at = at]]
Undertake(c, work) == handling' = [handling EXCEPT ![c] = work]
Slip == slips < MaxSlips /\ slips' = slips + 1
submissionRow == <<status, settled, attached>>
target == <<records, linked>>
sights == <<disputed, unfinished, uncounted>>

\* What a call has in hand: the submission it writes for, those it reclaims; the
\* deletion of the form holds all of them to its end.
InHand(c) ==
    (IF handling[c].at \in {"idle", "hold", "check"} THEN {} ELSE {handling[c].sub}) \cup handling[c].todo
    \cup {n \in attached : handling[c].for = "form" /\ status[n] # "accepted"}
Dispute(c, subs) ==
    disputed' = disputed \cup (subs \cap UNION {InHand(d) : d \in Visitors \ {c}})

\* Today's submissions that are not rejected.
daily_count == {n \in Submissions : status[n] \in {"quarantined", "accepted"}}
\* A slip: one more than the cap is let in.
within_cap_OffByOne == Cardinality(daily_count) <= DailyCap
within_cap == Cardinality(daily_count) < DailyCap

-----------------------------------------------------------------------------
(* Submitting *)

\* The uploads are stored first. A count that fails counts none; what is over
\* the cap leaves its blob behind.
submit(c) ==
    /\ Working(c, "idle") /\ form
    /\ \E n \in Submissions, held \in BOOLEAN :
          /\ \A k \in Submissions : k < n <=> status[k] # "unborn"
          /\ blobs' = blobs \cup {n}
          /\ LET goes == /\ status' = [status EXCEPT ![n] = "underway"]
                         /\ Undertake(c, [NoWork EXCEPT !.at = IF held THEN "hold" ELSE "write", !.sub = n])
             IN \/ within_cap /\ goes /\ UNCHANGED <<slips, uncounted>>
                \/ ~within_cap /\ Slip /\ uncounted' = TRUE /\ goes
                \/ /\ ~within_cap
                   /\ status' = [status EXCEPT ![n] = "none"]
                   /\ UNCHANGED <<handling, slips, uncounted>>
    /\ UNCHANGED <<form, settled, attached, target, disputed, unfinished>>

\* The row of the form it refers to may be gone by now.
Hold(c) ==
    /\ Working(c, "hold") /\ Continue(c, "idle")
    /\ status' = [status EXCEPT ![handling[c].sub] = IF form THEN "quarantined" ELSE "none"]
    /\ attached' = IF form THEN attached \cup {handling[c].sub} ELSE attached
    /\ UNCHANGED <<form, settled, target, blobs, sights, slips>>

\* The record is written, or its values are refused.
insert_target_record(c) ==
    /\ Working(c, "write")
    /\ \/ /\ Len(records) < MaxRecords
          /\ records' = Append(records, handling[c].sub)
          /\ handling' = [handling EXCEPT ![c].at = "link", ![c].rec = Len(records) + 1]
          /\ UNCHANGED status
       \/ /\ Continue(c, "idle")
          /\ status' = IF handling[c].for = "submit" THEN [status EXCEPT ![handling[c].sub] = "none"] ELSE status
          /\ UNCHANGED records
    /\ UNCHANGED <<form, settled, attached, linked, blobs, sights, slips>>

link_attachments(c) ==
    /\ Working(c, "link") /\ Continue(c, "settle")
    /\ linked' = linked \cup {handling[c].rec}
    /\ UNCHANGED <<form, submissionRow, records, blobs, sights, slips>>

\* submit inserts its row; approve updates the one it read, whatever its
\* status is now. Neither writes anything once the form is gone.
Settle(c) ==
    /\ Working(c, "settle") /\ Continue(c, "idle")
    /\ LET n == handling[c].sub
       IN IF form THEN /\ status' = [status EXCEPT ![n] = "accepted"]
                       /\ settled' = [settled EXCEPT ![n] = handling[c].rec]
                       /\ attached' = IF handling[c].for = "submit" THEN attached \cup {n} ELSE attached
          ELSE UNCHANGED <<settled, attached>> /\ status' = [status EXCEPT ![n] = "gone"]
    /\ UNCHANGED <<form, target, blobs, sights, slips>>

-----------------------------------------------------------------------------
(* Reviewing *)

\* A slip: any submission with a row can be approved.
approve_submission_Unchecked(c, n) ==
    /\ Working(c, "idle") /\ status[n] \in {"quarantined", "accepted", "rejected"}
    /\ Undertake(c, [NoWork EXCEPT !.at = "write", !.for = "approve", !.sub = n])
    /\ Dispute(c, {n})
    /\ UNCHANGED <<form, submissionRow, target, blobs, unfinished, uncounted, slips>>

\* The status is read here and not looked at again.
approve_submission(c, n) ==
    /\ Working(c, "idle") /\ status[n] = "quarantined"
    /\ Undertake(c, [NoWork EXCEPT !.at = "write", !.for = "approve", !.sub = n])
    /\ Dispute(c, {n})
    /\ UNCHANGED <<form, submissionRow, target, blobs, unfinished, uncounted, slips>>

reject_submission(c, n) ==
    /\ Working(c, "idle") /\ status[n] = "quarantined"
    /\ status' = [status EXCEPT ![n] = "rejected"]
    /\ Dispute(c, {n})
    /\ UNCHANGED <<form, settled, attached, target, blobs, handling, unfinished, uncounted, slips>>

-----------------------------------------------------------------------------
(* Reclaiming blobs *)

\* Rejected submissions past the grace period, which may be none at all.
sweep_orphaned_attachments(c) ==
    /\ Working(c, "idle")
    /\ LET old == {n \in attached : status[n] = "rejected"}
       IN /\ old # {} /\ Dispute(c, old)
          /\ Undertake(c, [NoWork EXCEPT !.at = "check", !.for = "sweep", !.todo = old])
    /\ UNCHANGED <<form, submissionRow, target, blobs, unfinished, uncounted, slips>>

\* Everything that is not accepted, before the form and its ledger go.
delete_form(c) ==
    /\ Working(c, "idle") /\ form
    /\ LET held == {n \in attached : status[n] # "accepted"}
       IN /\ Dispute(c, held)
          /\ Undertake(c, [NoWork EXCEPT !.at = "check", !.for = "form", !.todo = held])
    /\ UNCHANGED <<form, submissionRow, target, blobs, unfinished, uncounted, slips>>

Referenced(n) == \E r \in linked : records[r] = n

\* A check that fails finds no reference.
CheckReference(c) ==
    /\ Working(c, "check")
    /\ \E n \in handling[c].todo :
          LET go(at) == Undertake(c, [handling[c] EXCEPT !.at = at, !.sub = n, !.todo = @ \ {n}])
          IN \/ ~Referenced(n) /\ go("delete") /\ UNCHANGED slips
             \/ Referenced(n) /\ go("clear") /\ UNCHANGED slips
             \/ Referenced(n) /\ Slip /\ go("delete")
    /\ UNCHANGED <<form, submissionRow, target, blobs, sights>>

\* A delete that fails is logged, and the blob stays.
DeleteBlob(c) ==
    /\ Working(c, "delete") /\ Continue(c, "clear")
    /\ \/ blobs' = blobs \ {handling[c].sub} /\ UNCHANGED slips
       \/ Slip /\ UNCHANGED blobs
    /\ UNCHANGED <<form, submissionRow, target, sights>>

\* The sweep drops the pointers either way; the deletion leaves them to the cascade.
ClearPointers(c) ==
    /\ Working(c, "clear") /\ Continue(c, "check")
    /\ attached' = IF handling[c].for = "sweep" THEN attached \ {handling[c].sub} ELSE attached
    /\ UNCHANGED <<form, status, settled, target, blobs, sights, slips>>

EndReclaim(c) ==
    /\ Working(c, "check") /\ handling[c].todo = {} /\ Continue(c, "idle")
    /\ \/ handling[c].for = "sweep" /\ UNCHANGED <<form, submissionRow>>
       \/ /\ handling[c].for = "form" /\ form' = FALSE /\ attached' = {}
          /\ status' = [n \in Submissions |-> IF status[n] \in {"quarantined", "accepted", "rejected"}
                                              THEN "gone" ELSE status[n]]
          /\ settled' = [n \in Submissions |-> 0]
    /\ UNCHANGED <<target, blobs, sights, slips>>

\* A statement of a call fails, or its request is dropped.
CallEnds(c) ==
    /\ ~Working(c, "idle") /\ Slip /\ Continue(c, "idle")
    /\ unfinished' = IF Working(c, "link") \/ Working(c, "settle") \/ handling[c].for = "form"
                 THEN unfinished \cup InHand(c) ELSE unfinished
    /\ status' = IF handling[c].for = "submit" THEN [status EXCEPT ![handling[c].sub] = "none"] ELSE status
    /\ UNCHANGED <<form, settled, attached, target, blobs, disputed, uncounted>>

IntakeNext ==
    \E c \in Visitors :
       \/ submit(c) \/ Hold(c) \/ insert_target_record(c) \/ link_attachments(c) \/ Settle(c)
       \/ \E n \in Submissions : approve_submission(c, n) \/ reject_submission(c, n)
       \/ sweep_orphaned_attachments(c) \/ delete_form(c)
       \/ CheckReference(c) \/ DeleteBlob(c) \/ ClearPointers(c) \/ EndReclaim(c)
       \/ CallEnds(c)

IntakeSpec == IntakeInit /\ [][IntakeNext]_intakeVars

-----------------------------------------------------------------------------

RecordsOf(n) == {r \in DOMAIN records : records[r] = n}

\* An accepted submission has its record, with the upload linked to it, and a
\* submission is written as a record at most once, unless two calls worked on
\* it at once or an approval was cut short after its record.
WrittenOnce ==
    \A n \in Submissions :
        /\ status[n] = "accepted" => settled[n] \in RecordsOf(n) \cap linked
        /\ n \notin disputed \cup unfinished => Cardinality(RecordsOf(n)) <= 1

\* A submission that is held or rejected has no record, with the same exceptions,
\* but for the approval that is writing it.
HeldHasNoRecord ==
    \A n \in Submissions :
        /\ status[n] \in {"quarantined", "rejected"} /\ RecordsOf(n) # {}
        => n \in disputed \cup unfinished \/ \E c \in Visitors : n \in InHand(c)

\* A blob a record links is in the file store, unless it was being reclaimed
\* while its submission was approved, or the deletion of the form was cut short
\* and the form used on.
LinkedBlobsStay ==
    \A r \in linked : records[r] \in blobs \cup disputed \cup unfinished

\* The cap counts before the row is there: it is overrun by the submissions
\* under way at the same time and no further, unless the count failed or a
\* rejected submission was accepted after all.
CapOverrunIsConcurrency ==
    LET underway == {n \in Submissions : status[n] = "underway"}
    IN uncounted \/ disputed # {}
       \/ Cardinality(daily_count \cup underway) <= DailyCap + Cardinality(Visitors) - 1

\* A submission has one outcome, and its record, its upload and the cap agree
\* with it.
SubmissionsSettleOnce ==
    WrittenOnce /\ HeldHasNoRecord /\ LinkedBlobsStay /\ CapOverrunIsConcurrency

=============================================================================
