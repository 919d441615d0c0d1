----------------------------- MODULE Postings -----------------------------
(***************************************************************************)
(* Journal entries of vortex-accounting: drafting, posting, resetting and  *)
(* reversing moves, the lock date, and closing and reopening a fiscal      *)
(* year. Year 1 can be closed and locked, year 2 is open.                  *)
(*                                                                         *)
(* A posting is a transaction that locks its move; the lock date and the   *)
(* state of the year are read on other connections of the pool. Everything *)
(* else commits statement by statement.                                    *)
(***************************************************************************)
EXTENDS Integers, FiniteSets

CONSTANTS Clerks,      \* requests that can be under way at once
          MaxMoves,    \* bound: moves
          MaxErrands   \* bound: requests

ASSUME PostingsAssumption == MaxMoves \in Nat /\ MaxErrands \in Nat

VARIABLES
    mv,         \* acc_move: what it is, its state, its year, its sets of ledger lines
    lock,       \* acc_config.lock_date: the last year that is locked
    fy,         \* acc_fiscal_year.state of year 1
    zeroed,     \* what the closing entries of year 1 take out, per move
    stray,      \* a closing entry was left as a draft
    clerk,      \* the position of each request
    raced,      \* moves whose lines were expanded by two requests at once
    outdated,   \* moves posted or reset by a request that looked before the books closed
    errands

postingsVars == <<mv, lock, fy, zeroed, stray, clerk, raced, outdated, errands>>

Moves == 1..MaxMoves
Move == [kind: {"entry", "invoice"}, state: {"draft", "posted"}, year: {1, 2}, gl: Nat, reversed: BOOLEAN]
Clerk == [at: {"idle", "wipe", "expand", "expanding", "post", "locked", "year", "commit", "unpost",
               "counter", "link", "drafts", "balances", "closing", "mark", "lockup", "reopen"},
          move: 0..MaxMoves, orig: 0..MaxMoves, delta: [Moves -> Int], open: BOOLEAN]
Zero == [m \in Moves |-> 0]
Rest == [at |-> "idle", move |-> 0, orig |-> 0, delta |-> Zero, open |-> FALSE]

PostingsTypeOK ==
    /\ DOMAIN mv \subseteq Moves /\ mv \in [DOMAIN mv -> Move]
    /\ lock \in 0..1 /\ fy \in {"open", "closed"} /\ stray \in BOOLEAN
    /\ zeroed \in [Moves -> Int]
    /\ clerk \in [Clerks -> Clerk]
    /\ raced \subseteq Moves /\ outdated \subseteq Moves

PostingsInit ==
    /\ mv = [m \in {} |-> 0] /\ lock = 0 /\ fy = "open" /\ zeroed = Zero /\ stray = FALSE
    /\ clerk = [u \in Clerks |-> Rest]
    /\ raced = {} /\ outdated = {} /\ errands = 0

-----------------------------------------------------------------------------

Step(u, at) == clerk' = [clerk EXCEPT ![u] = IF at = "idle" THEN Rest ELSE [@ EXCEPT !.at = at]]
Start(u, at, m) ==
    /\ clerk[u].at = "idle"
    /\ errands < MaxErrands
    /\ errands' = errands + 1
    /\ clerk' = [clerk EXCEPT ![u] = [Rest EXCEPT !.at = at, !.move = m]]
books == <<lock, fy, zeroed, stray>>
RowHeld(m) == \E u \in Clerks : clerk[u].move = m /\ clerk[u].at \in {"locked", "year", "commit"}

Drafted(kind, year) ==
    LET new == Cardinality(DOMAIN mv) + 1
    IN [m \in 1..new |-> IF m \in DOMAIN mv THEN mv[m]
          ELSE [kind |-> kind, state |-> "draft", year |-> year,
                gl |-> IF kind = "entry" THEN 1 ELSE 0, reversed |-> FALSE]]
Room == Cardinality(DOMAIN mv) < MaxMoves

\* create_move for an entry, documents::create_invoice for an invoice.
create_draft ==
    /\ Room
    /\ \E kind \in {"entry", "invoice"}, year \in {1, 2} : mv' = Drafted(kind, year)
    /\ UNCHANGED <<books, clerk, raced, outdated, errands>>

Expanding(v, m) == clerk[v].move = m /\ clerk[v].at \in {"wipe", "expand", "expanding"}

\* post_invoice reads the state; plain entries go to post_move directly.
post_request(u, m) ==
    /\ mv[m].state = "draft"
    /\ Start(u, IF mv[m].kind = "invoice" THEN "wipe" ELSE "post", m)
    /\ raced' = raced \cup (IF \E v \in Clerks \ {u} : Expanding(v, m) THEN {m} ELSE {})
    /\ UNCHANGED <<books, mv, outdated>>

\* A slip: the lines of an earlier posting are kept.
WipeLines_Kept(u) ==
    LET m == clerk[u].move
    IN /\ clerk[u].at = "wipe"
       /\ Step(u, "expand")
       /\ UNCHANGED <<books, mv, raced, outdated, errands>>

\* The ledger lines are deleted; the trigger refuses that once posted.
WipeLines(u) ==
    LET m == clerk[u].move
    IN /\ clerk[u].at = "wipe" /\ ~RowHeld(m)
       /\ IF mv[m].state = "posted" /\ mv[m].gl > 0
          THEN UNCHANGED mv /\ Step(u, "idle")
          ELSE mv' = [mv EXCEPT ![m].gl = 0] /\ Step(u, "expand")
       /\ UNCHANGED <<books, raced, outdated, errands>>

\* The new lines are inserted in a transaction. The trigger looks at the
\* state before the foreign key waits for a posting that holds the move.
ExpandLines(u) ==
    /\ clerk[u].at = "expand"
    /\ Step(u, IF mv[clerk[u].move].state = "posted" THEN "idle" ELSE "expanding")
    /\ UNCHANGED <<books, mv, raced, outdated, errands>>

CommitLines(u) ==
    LET m == clerk[u].move
    IN /\ clerk[u].at = "expanding" /\ ~RowHeld(m)
       /\ mv' = [mv EXCEPT ![m].gl = @ + 1]
       /\ Step(u, "post")
       /\ UNCHANGED <<books, raced, outdated, errands>>

\* post_move: the move is locked, and must still be a draft.
LockMove(u) ==
    LET m == clerk[u].move
    IN /\ clerk[u].at = "post" /\ ~RowHeld(m)
       /\ Step(u, IF mv[m].state = "draft" THEN "locked" ELSE "idle")
       /\ UNCHANGED <<books, mv, raced, outdated, errands>>

ReadLockDate(u) ==
    /\ clerk[u].at = "locked"
    /\ Step(u, IF mv[clerk[u].move].year <= lock THEN "idle" ELSE "year")
    /\ UNCHANGED <<books, mv, raced, outdated, errands>>

\* A slip: only the lock date is asked, which may lag behind.
ReadFiscalYear_LockOnly(u) ==
    /\ clerk[u].at = "year"
    /\ clerk' = [clerk EXCEPT ![u].at = "commit", ![u].open = (fy = "open")]
    /\ UNCHANGED <<books, mv, raced, outdated, errands>>

ReadFiscalYear(u) ==
    /\ clerk[u].at = "year"
    /\ clerk' = [clerk EXCEPT ![u] = IF mv[@.move].year = 1 /\ fy = "closed" THEN Rest
                                     ELSE [@ EXCEPT !.at = "commit", !.open = (fy = "open")]]
    /\ UNCHANGED <<books, mv, raced, outdated, errands>>

\* The year is closed, or a close has summed it up and will mark it.
Closing == fy = "closed" \/ \E v \in Clerks : clerk[v].at \in {"closing", "mark"}

\* The balance check needs lines; the number is drawn, the move is posted.
post_move(u) ==
    LET m == clerk[u].move
    IN /\ clerk[u].at = "commit"
       /\ IF mv[m].gl = 0 THEN UNCHANGED <<mv, outdated>> /\ Step(u, "idle")
          ELSE /\ mv' = [mv EXCEPT ![m].state = "posted"]
               /\ outdated' = outdated \cup (IF Closing /\ clerk[u].open THEN {m} ELSE {})
               /\ Step(u, IF clerk[u].orig = 0 THEN "idle" ELSE "link")
       /\ UNCHANGED <<books, raced, errands>>

\* reset_to_draft: guards first (its count of matches is in Settlement),
\* then unpost_move, which looks at the state only.
reset_to_draft(u, m) ==
    /\ mv[m].kind = "invoice" /\ mv[m].state = "posted" /\ ~mv[m].reversed
    /\ mv[m].year > lock /\ (mv[m].year = 1 => fy = "open")
    /\ Start(u, "unpost", m)
    /\ UNCHANGED <<books, mv, raced, outdated>>

unpost_move(u) ==
    LET m == clerk[u].move
    IN /\ clerk[u].at = "unpost" /\ ~RowHeld(m)
       /\ mv' = IF mv[m].state = "posted" THEN [mv EXCEPT ![m].state = "draft"] ELSE mv
       /\ outdated' = outdated \cup (IF Closing THEN {m} ELSE {})
       /\ Step(u, "idle")
       /\ UNCHANGED <<books, raced, errands>>

\* reverse_move: the original is read, the counter-entry is created and
\* posted, the original is flagged.
reverse_move(u, m) ==
    /\ mv[m].state = "posted"
    /\ Start(u, "counter", m)
    /\ UNCHANGED <<books, mv, raced, outdated>>

CreateCounter(u) ==
    /\ clerk[u].at = "counter" /\ Room
    /\ \E year \in {1, 2} : mv' = Drafted("entry", year)
    /\ clerk' = [clerk EXCEPT ![u] = [@ EXCEPT !.at = "post", !.orig = clerk[u].move,
                                             !.move = Cardinality(DOMAIN mv) + 1]]
    /\ UNCHANGED <<books, raced, outdated, errands>>

LinkReversal(u) ==
    /\ clerk[u].at = "link"
    /\ mv' = [mv EXCEPT ![clerk[u].orig].reversed = TRUE]
    /\ Step(u, "idle")
    /\ UNCHANGED <<books, raced, outdated, errands>>

-----------------------------------------------------------------------------
(* Closing and reopening year 1 *)

close_fiscal_year(u) ==
    /\ fy = "open"
    /\ Start(u, "drafts", 0)
    /\ UNCHANGED <<books, mv, raced, outdated>>

CountDrafts(u) ==
    /\ clerk[u].at = "drafts"
    /\ Step(u, IF stray \/ \E m \in DOMAIN mv : mv[m].state = "draft" /\ mv[m].year = 1
               THEN "idle" ELSE "balances")
    /\ UNCHANGED <<books, mv, raced, outdated, errands>>

InYear(m) == IF m \in DOMAIN mv /\ mv[m].state = "posted" /\ mv[m].year = 1 THEN 1 ELSE 0

\* What is posted in the year and not taken out by a closing entry yet.
ReadBalances(u) ==
    /\ clerk[u].at = "balances"
    /\ LET delta == [m \in Moves |-> InYear(m) - zeroed[m]]
       IN clerk' = [clerk EXCEPT ![u].at = IF delta = Zero THEN "mark" ELSE "closing", ![u].delta = delta]
    /\ outdated' = outdated \cup (IF \E v \in Clerks \ {u} : clerk[v].at \in {"closing", "mark"}
                                  THEN Moves ELSE {})
    /\ UNCHANGED <<books, mv, raced, errands>>

\* create_and_post: a refused posting leaves the closing entry as a draft.
PostClosingEntry(u) ==
    /\ clerk[u].at = "closing"
    /\ IF lock < 1 /\ fy = "open"
       THEN /\ zeroed' = [m \in Moves |-> zeroed[m] + clerk[u].delta[m]]
            /\ Step(u, "mark") /\ UNCHANGED stray
       ELSE stray' = TRUE /\ Step(u, "idle") /\ UNCHANGED zeroed
    /\ UNCHANGED <<mv, lock, fy, raced, outdated, errands>>

MarkClosed(u) ==
    /\ clerk[u].at = "mark"
    /\ fy' = "closed"
    /\ Step(u, "lockup") \/ Step(u, "idle")
    /\ UNCHANGED <<mv, lock, zeroed, stray, raced, outdated, errands>>

AdvanceLock(u) ==
    /\ clerk[u].at = "lockup"
    /\ lock' = 1
    /\ Step(u, "idle")
    /\ UNCHANGED <<mv, fy, zeroed, stray, raced, outdated, errands>>

\* The reversal of the closing entry is dated in year 2 and leaves year 1 as
\* it is.
reopen_fiscal_year(u) ==
    /\ fy = "closed"
    /\ Start(u, "reopen", 0)
    /\ UNCHANGED <<books, mv, raced, outdated>>

MarkOpen(u) ==
    /\ clerk[u].at = "reopen"
    /\ fy' = "open"
    /\ Step(u, "idle")
    /\ UNCHANGED <<mv, lock, zeroed, stray, raced, outdated, errands>>

\* The settings page.
SetLockDate ==
    /\ lock' = 1 - lock
    /\ UNCHANGED <<mv, fy, zeroed, stray, clerk, raced, outdated, errands>>

\* An error, a client that disconnects, a crash: an open transaction is
\* rolled back, what has been committed stays.
Drop(u) ==
    /\ clerk[u].at \in {"expand", "post", "link", "mark", "lockup"}
    /\ Step(u, "idle")
    /\ UNCHANGED <<books, mv, raced, outdated, errands>>

PostingsNext ==
    \/ create_draft \/ SetLockDate
    \/ \E u \in Clerks :
          \/ \E m \in DOMAIN mv : post_request(u, m) \/ reset_to_draft(u, m) \/ reverse_move(u, m)
          \/ WipeLines(u) \/ ExpandLines(u) \/ CommitLines(u)
          \/ LockMove(u) \/ ReadLockDate(u) \/ ReadFiscalYear(u) \/ post_move(u)
          \/ unpost_move(u) \/ CreateCounter(u) \/ LinkReversal(u)
          \/ close_fiscal_year(u) \/ CountDrafts(u) \/ ReadBalances(u) \/ PostClosingEntry(u)
          \/ MarkClosed(u) \/ AdvanceLock(u) \/ reopen_fiscal_year(u) \/ MarkOpen(u)
          \/ Drop(u)

PostingsSpec == PostingsInit /\ [][PostingsNext]_postingsVars

-----------------------------------------------------------------------------
(* Properties *)

\* "A date inside a closed year is rejected even when the lock date lags
\* behind": the closing entries of a closed year take out exactly what is
\* posted in it, except for a move posted or reset by a request that looked
\* at the year before it was closed, and for two closes at once.
ClosedYearIsCovered ==
    fy = "closed" => \A m \in Moves \ outdated : zeroed[m] = InYear(m)

\* "Wipe any previously generated GL lines, then expand fresh": however often
\* it is posted, reset and posted again, a posted invoice has its ledger
\* lines once, unless two requests expanded them at the same time.
LedgerLinesOnce ==
    \A m \in DOMAIN mv \ raced :
        (mv[m].kind = "invoice" /\ mv[m].state = "posted") => mv[m].gl = 1

=============================================================================
