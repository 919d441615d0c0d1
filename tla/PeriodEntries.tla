---------------------------- MODULE PeriodEntries ----------------------------
(***************************************************************************)
(* What vortex-accounting posts on a schedule or once per record: the      *)
(* depreciation of a fixed asset and its disposal, a post-dated cheque, a  *)
(* recurring entry, and the matching of a bank statement line, with an     *)
(* entry that is there already or with a counterpart posted for it.        *)
(*                                                                         *)
(* They share one shape: look at the record, create and post a journal     *)
(* entry, record on the row that it is done. Nothing is locked in between. *)
(* Scheduled runs and users do this at the same time.                      *)
(***************************************************************************)
EXTENDS Integers, FiniteSets

CONSTANTS Runners,   \* scheduled runs and users
          Life,      \* months to depreciate, months of the recurring entry
          MaxRuns,   \* bound: runs and requests
          MaxHalts   \* bound: runs that die

ASSUME PeriodAssumption == Life \in Nat \ {0} /\ MaxRuns \in Nat /\ MaxHalts \in Nat

Months == 1..Life

VARIABLES
    today,       \* the month it is
    closedTo,    \* entries up to this month cannot be posted (lock date)
    asset,       \* acc_asset.state and acc_asset_depreciation.state per month
    cheque,      \* acc_pdc.state
    recurring,   \* acc_recurring.next_date; past Life it is inactive
    auto_post,   \* acc_recurring.auto_post: its entries are posted, not left in draft
    matched,     \* acc_bank_statement_line.matched_line_id: what the line is matched with
    posted,      \* journal entries posted, per record they are for; for a
                 \* recurring entry without auto_post, the drafts made
    runner,      \* the position of each run or request
    overlaid,    \* records two runs worked on at once, or one left half done,
                 \* and a line whose counterpart gave way to a suggestion
    runs, halts  \* how much of the bounds has been used

periodVars == <<today, closedTo, asset, cheque, recurring, auto_post, matched, posted, runner, overlaid, runs, halts>>

Asset == [state: {"draft", "running", "fully_depreciated", "disposed"},
          plan: [Months -> {"none", "planned", "posted"}]]
NothingPosted == [depreciation |-> [k \in Months |-> 0], disposal |-> 0, derecognised |-> 0,
                  cleared |-> 0, bounced |-> 0, occurrence |-> [k \in Months |-> 0], counterpart |-> 0]
Waiting == [at |-> "idle", on |-> "none", todo |-> {}, n |-> 0]
Records == {"asset", "cheque", "recurring", "line"}

PeriodTypeOK ==
    /\ today \in 1..Life /\ closedTo \in 0..Life
    /\ asset \in Asset /\ cheque \in {"holding", "cleared", "bounced"}
    /\ recurring \in 1..(Life + 1) /\ auto_post \in BOOLEAN /\ matched \in {"no", "existing", "counterpart"}
    /\ DOMAIN posted = DOMAIN NothingPosted
    /\ DOMAIN runner = Runners
    /\ \A u \in Runners :
          /\ runner[u].at \in {"idle", "schedule", "run", "post", "flag", "full", "dispose", "disposed", "drop",
                               "clear", "cleared", "bounce", "bounced", "select", "occur", "advance", "counter", "match"}
          /\ runner[u].on \in Records \cup {"none"} /\ runner[u].todo \subseteq Months /\ runner[u].n \in Nat
    /\ overlaid \subseteq Records

PeriodInit ==
    /\ today = 1 /\ closedTo = 0
    /\ asset = [state |-> "draft", plan |-> [k \in Months |-> "none"]]
    /\ cheque = "holding" /\ recurring = 1 /\ auto_post \in BOOLEAN /\ matched = "no"
    /\ posted = NothingPosted
    /\ runner = [u \in Runners |-> Waiting]
    /\ overlaid = {} /\ runs = 0 /\ halts = 0

-----------------------------------------------------------------------------

ToRunner(u, step) == runner' = [runner EXCEPT ![u] = IF step = "idle" THEN Waiting ELSE [@ EXCEPT !.at = step]]
Launch(u, record, step, todo, n) ==
    /\ runner[u].at = "idle"
    /\ runs < MaxRuns
    /\ runs' = runs + 1
    /\ runner' = [runner EXCEPT ![u] = [at |-> step, on |-> record, todo |-> todo, n |-> n]]
    /\ overlaid' = overlaid \cup (IF \E v \in Runners \ {u} : runner[v].on = record THEN {record} ELSE {})
given == <<today, closedTo, auto_post>>
rows == <<asset, cheque, recurring, matched>>

NextMonth ==
    /\ today < Life
    /\ today' = today + 1
    /\ UNCHANGED <<closedTo, auto_post, rows, posted, runner, overlaid, runs, halts>>

SetLock ==
    /\ \E k \in 0..Life : k # closedTo /\ closedTo' = k
    /\ UNCHANGED <<today, auto_post, rows, posted, runner, overlaid, runs, halts>>

-----------------------------------------------------------------------------
(* Fixed assets *)

\* The rows of the schedule are inserted one by one, ON CONFLICT DO NOTHING,
\* then the asset is set running, whatever it has become.
confirm_asset(u) ==
    /\ asset.state = "draft"
    /\ Launch(u, "asset", "schedule", Months, 0)
    /\ UNCHANGED <<given, rows, posted, halts>>

InsertMonth(u) ==
    /\ runner[u].at = "schedule"
    /\ \E k \in runner[u].todo :
          /\ \A x \in runner[u].todo : k <= x
          /\ asset' = [asset EXCEPT !.plan[k] = IF @ = "none" THEN "planned" ELSE @]
          /\ runner' = [runner EXCEPT ![u].todo = @ \ {k}, ![u].at = IF k = Life THEN "run" ELSE @]
    /\ UNCHANGED <<given, cheque, recurring, matched, posted, overlaid, runs, halts>>

SetRunning(u) ==
    /\ runner[u].at = "run"
    /\ asset' = [asset EXCEPT !.state = "running"]
    /\ ToRunner(u, "idle")
    /\ UNCHANGED <<given, cheque, recurring, matched, posted, overlaid, runs, halts>>

\* post_due_depreciation reads everything that is due, once.
ReadDue(u) ==
    LET due == {k \in Months : asset.plan[k] = "planned" /\ k <= today}
    IN /\ asset.state = "running" /\ due # {}
       /\ Launch(u, "asset", "post", due, 0)
       /\ UNCHANGED <<given, rows, posted, halts>>

\* The next month. One that cannot be posted is left to the next run.
post_due_depreciation(u) ==
    \E k \in runner[u].todo :
        /\ runner[u].at = "post"
        /\ \A x \in runner[u].todo : k <= x
        /\ IF k > closedTo
           THEN /\ posted' = [posted EXCEPT !.depreciation[k] = @ + 1]
                /\ runner' = [runner EXCEPT ![u].at = "flag", ![u].n = k]
           ELSE /\ UNCHANGED posted
                /\ runner' = [runner EXCEPT ![u] = IF @.todo = {k} THEN Waiting
                                                       ELSE [@ EXCEPT !.todo = runner[u].todo \ {k}]]
        /\ UNCHANGED <<given, rows, overlaid, runs, halts>>

\* A slip: the month is not recorded as posted.
FlagMonth_Forgotten(u) ==
    /\ runner[u].at = "flag"
    /\ ToRunner(u, "full")
    /\ UNCHANGED <<given, rows, posted, overlaid, runs, halts>>

FlagMonth(u) ==
    LET k == runner[u].n
    IN /\ runner[u].at = "flag"
       /\ asset' = IF asset.plan[k] = "none" THEN asset ELSE [asset EXCEPT !.plan[k] = "posted"]
       /\ ToRunner(u, "full")
       /\ UNCHANGED <<given, cheque, recurring, matched, posted, overlaid, runs, halts>>

\* The cumulative amount of the last month reaches what there is to
\* depreciate.
MarkFully(u) ==
    LET k == runner[u].n
        rest == runner[u].todo \ {k}
    IN /\ runner[u].at = "full"
       /\ asset' = IF k = Life /\ asset.state = "running" THEN [asset EXCEPT !.state = "fully_depreciated"] ELSE asset
       /\ runner' = [runner EXCEPT ![u] = IF rest = {} THEN Waiting ELSE [@ EXCEPT !.at = "post", !.todo = rest]]
       /\ UNCHANGED <<given, cheque, recurring, matched, posted, overlaid, runs, halts>>

\* dispose_asset: the accumulated depreciation is read with the state.
ReadAccumulated(u) ==
    /\ asset.state \in {"running", "fully_depreciated"}
    /\ Launch(u, "asset", "dispose", {}, Cardinality({k \in Months : asset.plan[k] = "posted"}))
    /\ UNCHANGED <<given, rows, posted, halts>>

dispose_asset(u) ==
    /\ runner[u].at = "dispose"
    /\ IF today > closedTo
       THEN /\ posted' = [posted EXCEPT !.disposal = @ + 1, !.derecognised = @ + runner[u].n]
            /\ ToRunner(u, "disposed")
       ELSE UNCHANGED posted /\ ToRunner(u, "idle")
    /\ UNCHANGED <<given, rows, overlaid, runs, halts>>

SetDisposed(u) ==
    /\ runner[u].at = "disposed"
    /\ asset' = [asset EXCEPT !.state = "disposed"]
    /\ ToRunner(u, "drop")
    /\ UNCHANGED <<given, cheque, recurring, matched, posted, overlaid, runs, halts>>

DropPlanned(u) ==
    /\ runner[u].at = "drop"
    /\ asset' = [asset EXCEPT !.plan = [k \in Months |-> IF @[k] = "planned" THEN "none" ELSE @[k]]]
    /\ ToRunner(u, "idle")
    /\ UNCHANGED <<given, cheque, recurring, matched, posted, overlaid, runs, halts>>

-----------------------------------------------------------------------------
(* Cheques, recurring entries, bank statement lines *)

\* clear_pdc (also from the daily maturity run) and bounce_pdc.
ReadCheque(u) ==
    /\ cheque = "holding"
    /\ \E step \in {"clear", "bounce"} : Launch(u, "cheque", step, {}, 0)
    /\ UNCHANGED <<given, rows, posted, halts>>

PostCheque(u) ==
    /\ runner[u].at \in {"clear", "bounce"}
    /\ IF today <= closedTo THEN UNCHANGED posted /\ ToRunner(u, "idle")
       ELSE IF runner[u].at = "clear"
       THEN posted' = [posted EXCEPT !.cleared = @ + 1] /\ ToRunner(u, "cleared")
       ELSE posted' = [posted EXCEPT !.bounced = @ + 1] /\ ToRunner(u, "bounced")
    /\ UNCHANGED <<given, rows, overlaid, runs, halts>>

FlagCheque(u) ==
    /\ runner[u].at \in {"cleared", "bounced"}
    /\ cheque' = runner[u].at
    /\ ToRunner(u, "idle")
    /\ UNCHANGED <<given, asset, recurring, matched, posted, overlaid, runs, halts>>

\* The date comes from the list of generate_due, or, whether due or not, from
\* the button recurring_generate.
ReadNextDate(u) ==
    /\ recurring <= Life
    /\ Launch(u, "recurring", "select", {recurring}, 0)
    /\ UNCHANGED <<given, rows, posted, halts>>

\* generate_occurrence reads the template, and next_date again.
ReadTemplate(u) ==
    /\ runner[u].at = "select"
    /\ runner' = [runner EXCEPT ![u] = IF recurring <= Life THEN [@ EXCEPT !.at = "occur", !.n = recurring] ELSE Waiting]
    /\ UNCHANGED <<given, rows, posted, overlaid, runs, halts>>

\* An entry of the date that was asked for. A draft can be of a closed month.
generate_occurrence(u) ==
    \E date \in runner[u].todo :
        /\ runner[u].at = "occur"
        /\ IF auto_post => date > closedTo
           THEN posted' = [posted EXCEPT !.occurrence[date] = @ + 1] /\ ToRunner(u, "advance")
           ELSE UNCHANGED posted /\ ToRunner(u, "idle")
        /\ UNCHANGED <<given, rows, overlaid, runs, halts>>

\* The date that was read is advanced; what is inactive stays so.
AdvanceNextDate(u) ==
    /\ runner[u].at = "advance"
    /\ recurring' = IF recurring <= Life THEN runner[u].n + 1 ELSE recurring
    /\ ToRunner(u, "idle")
    /\ UNCHANGED <<given, asset, cheque, matched, posted, overlaid, runs, halts>>

\* match_line looks at nothing, not even at whether the line is matched.
match_line(entry) == matched' = entry

\* A suggestion is taken, one by one (match_one) or all of them (auto_match):
\* an entry that is there, suggested when the line was not matched yet.
match_one ==
    /\ match_line("existing")
    /\ overlaid' = overlaid \cup (IF matched = "counterpart" THEN {"line"} ELSE {})
    /\ UNCHANGED <<given, asset, cheque, recurring, posted, runner, runs, halts>>

ReadLine(u) ==
    /\ matched = "no"
    /\ Launch(u, "line", "counter", {}, 0)
    /\ UNCHANGED <<given, rows, posted, halts>>

quick_counterpart(u) ==
    /\ runner[u].at = "counter"
    /\ IF today > closedTo THEN posted' = [posted EXCEPT !.counterpart = @ + 1] /\ ToRunner(u, "match")
       ELSE UNCHANGED posted /\ ToRunner(u, "idle")
    /\ UNCHANGED <<given, rows, overlaid, runs, halts>>

MatchCounterpart(u) ==
    /\ runner[u].at = "match"
    /\ match_line("counterpart")
    /\ ToRunner(u, "idle")
    /\ UNCHANGED <<given, asset, cheque, recurring, posted, overlaid, runs, halts>>

\* The process dies, or an error ends the run: what is committed stays.
Halt(u) ==
    /\ runner[u].at # "idle"
    /\ halts < MaxHalts
    /\ halts' = halts + 1
    /\ overlaid' = overlaid \cup
          (IF runner[u].at \in {"flag", "full", "disposed", "drop", "cleared", "bounced", "advance", "match"}
           THEN {runner[u].on} ELSE {})
    /\ ToRunner(u, "idle")
    /\ UNCHANGED <<given, rows, posted, runs>>

PeriodNext ==
    \/ NextMonth \/ SetLock \/ match_one
    \/ \E u \in Runners :
          \/ confirm_asset(u) \/ InsertMonth(u) \/ SetRunning(u)
          \/ ReadDue(u) \/ post_due_depreciation(u) \/ FlagMonth(u) \/ MarkFully(u)
          \/ ReadAccumulated(u) \/ dispose_asset(u) \/ SetDisposed(u) \/ DropPlanned(u)
          \/ ReadCheque(u) \/ PostCheque(u) \/ FlagCheque(u)
          \/ ReadNextDate(u) \/ ReadTemplate(u) \/ generate_occurrence(u) \/ AdvanceNextDate(u)
          \/ ReadLine(u) \/ quick_counterpart(u) \/ MatchCounterpart(u)
          \/ Halt(u)

PeriodSpec == PeriodInit /\ [][PeriodNext]_periodVars

-----------------------------------------------------------------------------
(* Properties *)

Free(record) == record \notin overlaid /\ \A u \in Runners : runner[u].on # record

\* What is posted for a record is what the record says has been posted, so
\* the next run does no month twice and skips none; of a recurring entry
\* every month before next_date has its one entry, posted or in draft; and a
\* counterpart has been posted for a statement line exactly when the line is
\* matched with it, not with an entry that was there. Only two runs on one
\* record at once, a run that ended between posting and recording it, or a
\* suggestion taken for a line that has its counterpart by now, can leave the
\* two apart.
PostedAsRecorded ==
    /\ Free("asset") =>
          /\ \A k \in Months : posted.depreciation[k] = (IF asset.plan[k] = "posted" THEN 1 ELSE 0)
          /\ posted.disposal = (IF asset.state = "disposed" THEN 1 ELSE 0)
          /\ asset.state = "disposed" => posted.derecognised = Cardinality({k \in Months : posted.depreciation[k] > 0})
          /\ asset.state = "running" => \A k \in Months : asset.plan[k] # "none"
    /\ Free("cheque") =>
          /\ posted.cleared = (IF cheque = "cleared" THEN 1 ELSE 0)
          /\ posted.bounced = (IF cheque = "bounced" THEN 1 ELSE 0)
    /\ Free("recurring") =>
          \A k \in Months : posted.occurrence[k] = (IF k < recurring THEN 1 ELSE 0)
    /\ Free("line") => posted.counterpart = (IF matched = "counterpart" THEN 1 ELSE 0)

\* "One un-postable period (e.g. behind a lock date) must not block the rest
\* of the batch - skip it and let the next run retry": as long as a month is
\* planned and the asset is not disposed of, a run still looks at it.
SkippedMonthsAreRetried ==
    asset.state = "fully_depreciated" => \A k \in Months : asset.plan[k] # "planned"

=============================================================================
