----------------------------- MODULE AuditChain -----------------------------
(***************************************************************************)
(* The WORM audit ledger of vortex-security: PgAuditStorage (audit/pg.rs), *)
(* the tables of migration 114 and the verifier's walk (audit/verify.rs).  *)
(*                                                                         *)
(* write() runs one transaction: lock and read the chain head of the       *)
(* company, insert the entry at the next position with the head's hash as  *)
(* its prev_hash, advance the head, commit. Any number of these run at     *)
(* once, on several servers. The head row that would serialise them does   *)
(* not exist before the first entry of a chain is committed; what is left  *)
(* then is the unique index on (company_id, chain_position).               *)
(*                                                                         *)
(* A hash is the sequence of the entries it was computed over: SHA-256     *)
(* over (prev_hash, payload) is taken to be injective. Of the verifier's   *)
(* five checks the two on links and hashes are modelled; canonical form,   *)
(* signatures and clock skew depend on nothing in the chain.               *)
(***************************************************************************)
EXTENDS Integers, Sequences, FiniteSets

CONSTANTS Entries,      \* audit entries that may be written, one write() each
          Chains,       \* a chain per database and company
          Route,        \* Route[e]: the chains e may end up in
          MaxClock,     \* bound: the application clock
          MaxFaults     \* bound: connections that drop

ASSUME AuditAssumption ==
    /\ Chains # {}
    /\ Route \in [Entries -> SUBSET Chains]
    /\ MaxClock \in Nat
    /\ MaxFaults \in Nat

VARIABLES
    log,        \* audit_log: the committed rows
    head,       \* audit_chain_head: the committed row of each chain
    call,       \* call[e]: the transaction writing e
    clock, faults

auditVars == <<log, head, call, clock, faults>>

\* chain_hash_input's 32 zero bytes: prev_hash IS NULL.
Genesis == <<>>

\* No head row: pos is what next_position - 1 would be.
NoHead == [hash |-> Genesis, pos |-> -1]

Row == [id: Entries, chain: Chains, pos: Nat, prev: Seq(Entries),
        hash: Seq(Entries), ts: 0..MaxClock]

Stages == {"idle", "created", "begun", "locked", "inserted", "advanced", "done", "failed"}

AuditTypeOK ==
    /\ log \in SUBSET Row
    /\ head \in [Chains -> [hash: Seq(Entries), pos: Nat \cup {-1}]]
    /\ call \in [Entries -> [at: Stages, chain: Chains, pos: Nat, prev: Seq(Entries), ts: 0..MaxClock]]
    /\ clock \in 0..MaxClock
    /\ faults \in 0..MaxFaults

AuditInit ==
    /\ log = {}
    /\ head = [c \in Chains |-> NoHead]
    /\ call = [e \in Entries |-> [at |-> "idle", chain |-> CHOOSE c \in Chains : TRUE,
                                  pos |-> 0, prev |-> Genesis, ts |-> 0]]
    /\ clock = 0
    /\ faults = 0

-----------------------------------------------------------------------------

compute_entry_hash(prev, e) == Append(prev, e)

RowOf(e) == [id |-> e, chain |-> call[e].chain, pos |-> call[e].pos, prev |-> call[e].prev,
             hash |-> compute_entry_hash(call[e].prev, e), ts |-> call[e].ts]

\* The transaction has locked, or inserted, the head row of its chain.
HoldsHead(e) ==
    \/ call[e].at \in {"locked", "inserted"} /\ call[e].pos > 0
    \/ call[e].at = "advanced"

\* The transaction has an uncommitted audit_log row.
HasRow(e) == call[e].at \in {"inserted", "advanced"}

To(e, stage) == call' = [call EXCEPT ![e].at = stage]

-----------------------------------------------------------------------------
(* write() *)

\* AuditEntry::new stamps the application time.
NewEntry(e) ==
    /\ call[e].at = "idle"
    /\ call' = [call EXCEPT ![e].at = "created", ![e].ts = clock]
    /\ UNCHANGED <<log, head, clock, faults>>

\* resolve_pool: the tenant's database, or the primary if it has no pool;
\* then BEGIN, which may wait for a connection.
Begin(e) ==
    /\ call[e].at = "created"
    /\ \E c \in Route[e] : call' = [call EXCEPT ![e].at = "begun", ![e].chain = c]
    /\ UNCHANGED <<log, head, clock, faults>>

\* A slip: the head is read without FOR UPDATE.
LockHead_NoLock(e) ==
    /\ call[e].at = "begun"
    /\ call' = [call EXCEPT ![e].at = "locked",
                            ![e].pos = head[call[e].chain].pos + 1,
                            ![e].prev = head[call[e].chain].hash]
    /\ UNCHANGED <<log, head, clock, faults>>

\* A slip: the position that was read is used again.
LockHead_SamePosition(e) ==
    /\ call[e].at = "begun"
    /\ head[call[e].chain] # NoHead =>
          \A f \in Entries : HoldsHead(f) => call[f].chain # call[e].chain
    /\ call' = [call EXCEPT ![e].at = "locked",
                            ![e].pos = head[call[e].chain].pos,
                            ![e].prev = head[call[e].chain].hash]
    /\ UNCHANGED <<log, head, clock, faults>>

\* SELECT .. FOR UPDATE waits for whoever holds the row and then reads what
\* that one committed. A row that is not committed yet is not seen.
LockHead(e) ==
    /\ call[e].at = "begun"
    /\ head[call[e].chain] # NoHead =>
          \A f \in Entries : HoldsHead(f) => call[f].chain # call[e].chain
    /\ call' = [call EXCEPT ![e].at = "locked",
                            ![e].pos = head[call[e].chain].pos + 1,
                            ![e].prev = head[call[e].chain].hash]
    /\ UNCHANGED <<log, head, clock, faults>>

SamePlace(r, e) == r.chain = call[e].chain /\ r.pos = call[e].pos

\* A slip: the position has no unique index.
InsertRow_NoIndex(e) ==
    /\ call[e].at = "locked"
    /\ To(e, "inserted")
    /\ UNCHANGED <<log, head, clock, faults>>

\* The unique index waits for an uncommitted row at the same position.
InsertRow(e) ==
    /\ call[e].at = "locked"
    /\ \A f \in Entries : HasRow(f) => ~SamePlace(RowOf(f), e)
    /\ To(e, IF \E r \in log : SamePlace(r, e) THEN "failed" ELSE "inserted")
    /\ UNCHANGED <<log, head, clock, faults>>

AdvanceHead(e) ==
    /\ call[e].at = "inserted"
    /\ To(e, "advanced")
    /\ UNCHANGED <<log, head, clock, faults>>

\* A slip: the upsert does nothing when the head row exists.
NewHead_DoNothing(e) ==
    IF head[call[e].chain] = NoHead
    THEN [hash |-> compute_entry_hash(call[e].prev, e), pos |-> call[e].pos]
    ELSE head[call[e].chain]

\* INSERT .. ON CONFLICT (company_id) DO UPDATE.
NewHead(e) == [hash |-> compute_entry_hash(call[e].prev, e), pos |-> call[e].pos]

\* A slip: the hash that is stored leaves prev_hash out.
Publish_Unchained(e) ==
    /\ log' = log \cup {[RowOf(e) EXCEPT !.hash = <<e>>]}
    /\ head' = [head EXCEPT ![call[e].chain] = NewHead(e)]

Publish(e) ==
    /\ log' = log \cup {RowOf(e)}
    /\ head' = [head EXCEPT ![call[e].chain] = NewHead(e)]

Commit(e) ==
    /\ call[e].at = "advanced"
    /\ Publish(e)
    /\ To(e, "done")
    /\ UNCHANGED <<clock, faults>>

\* The connection drops: the transaction is rolled back, or it has been
\* committed and the writer is not told. Nothing writes the entry again.
ConnectionLost(e) ==
    /\ call[e].at \in {"begun", "locked", "inserted", "advanced"}
    /\ faults < MaxFaults
    /\ faults' = faults + 1
    /\ \/ UNCHANGED <<log, head>>
       \/ call[e].at = "advanced" /\ Publish(e)
    /\ To(e, "failed")
    /\ UNCHANGED clock

TimePasses ==
    /\ clock < MaxClock
    /\ clock' = clock + 1
    /\ UNCHANGED <<log, head, call, faults>>

AuditNext ==
    \/ \E e \in Entries :
          \/ NewEntry(e) \/ Begin(e) \/ LockHead(e) \/ InsertRow(e) \/ AdvanceHead(e)
          \/ Commit(e) \/ ConnectionLost(e)
    \/ TimePasses

AuditSpec == AuditInit /\ [][AuditNext]_auditVars

-----------------------------------------------------------------------------
(* verify_chain: the rows in scope, in chain_position order; its first two *)
(* checks, of the link and of the hash                                     *)

RowsOf(c, from, to) == {r \in log : r.chain = c /\ r.ts >= from /\ r.ts <= to}

\* The rows the walk flags: prev_expected_hash is the stored hash of the row
\* walked before, or None.
BrokenLinks(rows) ==
    {r \in rows :
        LET before == {s \in rows : s.pos < r.pos}
            last == CHOOSE s \in before : \A t \in before : t.pos <= s.pos
        IN IF before = {} THEN r.pos # 0 \/ r.prev # Genesis
           ELSE r.prev = Genesis \/ r.prev # last.hash}

\* A row with a broken link is not looked at further.
HashMismatches(rows) ==
    {r \in rows \ BrokenLinks(rows) : r.hash # compute_entry_hash(r.prev, r.id)}

-----------------------------------------------------------------------------
(* Properties *)

\* Whatever writers do at once, and wherever one dies, the committed rows of
\* a chain fill the positions from 0 without gap or fork, each carries the
\* hash of the one before it, and the head describes the last of them.
ChainIntact ==
    \A c \in Chains : LET rows == {r \in log : r.chain = c} IN
        /\ \A i \in 0..head[c].pos : \E r \in rows : r.pos = i
        /\ \A r \in rows : r.pos <= head[c].pos
        /\ \A r, s \in rows : r.pos = s.pos => r = s
        /\ \A r, s \in rows : s.pos = r.pos + 1 => s.prev = r.hash
        /\ \A r \in rows : r.pos = head[c].pos => r.hash = head[c].hash

\* "serializes all writes for a given tenant" (pg.rs): once a chain has a
\* head, no append can find its position taken; the unique index only ever
\* refuses a second first entry.
CollidesOnlyAtGenesis ==
    \A e \in Entries : call[e].at = "locked" /\ call[e].pos > 0 =>
        /\ \A r \in log : ~SamePlace(r, e)
        /\ \A f \in Entries : HasRow(f) => ~SamePlace(RowOf(f), e)

\* A verification of everything never reports a broken link or a wrong hash in
\* a chain that the storage wrote, whatever is being appended while it reads.
\* It says nothing of the verifier's other three checks (canonical form,
\* signature and its key, clock skew), which are outside this module.
LinksAndHashesClean ==
    \A c \in Chains : LET rows == RowsOf(c, 0, MaxClock) IN
        BrokenLinks(rows) = {} /\ HashMismatches(rows) = {}

\* "A break here means an entry was inserted, reordered, or tampered with"
\* (verify.rs): a verification limited to a timestamp range reports no broken
\* link in a chain that the storage wrote.
RangeVerifiesClean ==
    \A c \in Chains, from, to \in 0..MaxClock : BrokenLinks(RowsOf(c, from, to)) = {}

\* The chained table implements the ledger it stands for: the head's hash is
\* the history of the chain.
Ledger == INSTANCE AuditLedger
            WITH history <- [c \in Chains |-> head[c].hash],
                 entered <- {r.id : r \in log},
                 acknowledged <- {e \in Entries : call[e].at = "done"}

\* Histories only grow, by one entry at the end, and hold every acknowledged
\* entry exactly once.
KeepsLedger == Ledger!LedgerSpec

=============================================================================
