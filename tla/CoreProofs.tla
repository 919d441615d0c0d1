----------------------------- MODULE CoreProofs -----------------------------
(***************************************************************************)
(* Proofs about the two tables the platform itself stands on: the audit    *)
(* chain (AuditChain) and the job queue (JobQueue).                        *)
(***************************************************************************)
EXTENDS AuditChain, JobQueue, FiniteSetTheorems, SequenceTheorems, TLAPS

-----------------------------------------------------------------------------
(***************************************************************************)
(* The audit chain for every set of entries and chains: no order of        *)
(* concurrent writers, refused inserts and dropped connections forks a     *)
(* chain or leaves a gap in it, and the table implements AuditLedger.      *)
(*                                                                         *)
(* The argument: a writer at a position above 0 holds the head row, so it  *)
(* is alone and what it read is still the head; a writer at position 0 has *)
(* no lock, but if it has inserted its row, the unique index keeps every   *)
(* other first entry out and the chain has no head yet.                    *)
(***************************************************************************)

\* A first entry, and only a first entry, has no prev_hash.
ShapeInv ==
    /\ \A r \in log : r.hash = Append(r.prev, r.id) /\ (r.pos = 0 <=> r.prev = Genesis)
    /\ \A c \in Chains : head[c].pos = -1 <=> head[c].hash = Genesis

\* A transaction past its read of the head.
Reading(e) == call[e].at \in {"locked", "inserted", "advanced"}

\* A writer at position 0 links to nothing.
FirstUnlinked == \A e \in Entries : Reading(e) /\ call[e].pos = 0 => call[e].prev = Genesis

\* What a later writer read of the head is still the head.
AtHead ==
    \A e \in Entries : Reading(e) /\ call[e].pos > 0 =>
        /\ call[e].pos = head[call[e].chain].pos + 1
        /\ call[e].prev = head[call[e].chain].hash

\* Later writers of a chain are alone.
OneWriter ==
    \A e, f \in Entries :
        Reading(e) /\ Reading(f) /\ call[e].chain = call[f].chain
        /\ call[e].pos > 0 /\ call[f].pos > 0 => e = f

\* A first row is in only while the chain has no head.
FirstBeforeHead ==
    \A e \in Entries : HasRow(e) /\ call[e].pos = 0 => head[call[e].chain].pos = -1

\* The unique index, for rows not committed yet.
OneRowPerPlace ==
    \A e, f \in Entries :
        HasRow(e) /\ HasRow(f) /\ call[e].chain = call[f].chain
        /\ call[e].pos = call[f].pos => e = f

WritersInv == FirstUnlinked /\ AtHead /\ OneWriter /\ FirstBeforeHead /\ OneRowPerPlace

\* An entry is committed by the one transaction that writes it, at its end.
OnceInv == \A r \in log : call[r.id].at \in {"done", "failed"}

ChainInv == AuditTypeOK /\ ShapeInv /\ WritersInv /\ ChainIntact /\ OnceInv

-----------------------------------------------------------------------------

\* The initial state satisfies the inductive invariant.
LEMMA ChainInvInit == AuditInit => ChainInv
<1> SUFFICES ASSUME AuditInit PROVE ChainInv
  OBVIOUS
<1>1. (CHOOSE c \in Chains : TRUE) \in Chains
  BY AuditAssumption
<1>2. AuditTypeOK
  BY <1>1, AuditAssumption DEF AuditInit, AuditTypeOK, NoHead, Genesis, Stages
<1>3. ShapeInv /\ WritersInv /\ OnceInv
  BY DEF AuditInit, ShapeInv, WritersInv, FirstUnlinked, AtHead, OneWriter, FirstBeforeHead, OneRowPerPlace, OnceInv, NoHead, Genesis, Reading, HasRow
<1>4. ChainIntact
  BY DEF AuditInit, ChainIntact, NoHead
<1> QED
  BY <1>2, <1>3, <1>4 DEF ChainInv

\* What Publish inserts is a row of the table.
LEMMA RowOfType ==
    ASSUME AuditTypeOK, NEW e \in Entries
    PROVE  RowOf(e) \in Row
BY DEF AuditTypeOK, RowOf, Row, compute_entry_hash

\* Every step preserves the types.
LEMMA AuditTypeStep == AuditTypeOK /\ [AuditNext]_auditVars => AuditTypeOK'
<1> SUFFICES ASSUME AuditTypeOK, [AuditNext]_auditVars PROVE AuditTypeOK'
  OBVIOUS
<1> USE DEF AuditTypeOK
<1>1. CASE UNCHANGED auditVars
  BY <1>1 DEF auditVars
<1>2. CASE TimePasses
  BY <1>2, AuditAssumption DEF TimePasses
<1>3. ASSUME NEW e \in Entries, NewEntry(e) PROVE AuditTypeOK'
  BY ZenonT(90), <1>3 DEF NewEntry, Stages
<1>4. ASSUME NEW e \in Entries, Begin(e) PROVE AuditTypeOK'
  <2>1. PICK c \in Route[e] : call' = [call EXCEPT ![e].at = "begun", ![e].chain = c]
    BY <1>4 DEF Begin
  <2>2. c \in Chains
    BY AuditAssumption
  <2>3. call' \in [Entries -> [at: Stages, chain: Chains, pos: Nat, prev: Seq(Entries), ts: 0..MaxClock]]
    BY ZenonT(90), <2>1, <2>2 DEF Stages
  <2> QED
    BY <1>4, <2>3 DEF Begin
<1>5. ASSUME NEW e \in Entries, LockHead(e) PROVE AuditTypeOK'
  <2> DEFINE p == head[call[e].chain].pos + 1
             q == head[call[e].chain].hash
  <2>1. p \in Nat /\ q \in Seq(Entries)
    <3>1. head[call[e].chain] \in [hash: Seq(Entries), pos: Nat \cup {-1}]
      OBVIOUS
    <3>2. head[call[e].chain].pos \in Nat \cup {-1}
      BY <3>1
    <3> QED
      BY <3>1, <3>2
  <2>3. call' = [call EXCEPT ![e].at = "locked", ![e].pos = p, ![e].prev = q]
    BY <1>5 DEF LockHead
  <2> HIDE DEF p, q
  <2>2. call' \in [Entries -> [at: Stages, chain: Chains, pos: Nat, prev: Seq(Entries), ts: 0..MaxClock]]
    BY ZenonT(90), <2>1, <2>3 DEF Stages
  <2> QED
    BY <1>5, <2>2 DEF LockHead
<1>6. ASSUME NEW e \in Entries, InsertRow(e) PROVE AuditTypeOK'
  BY ZenonT(90), <1>6 DEF InsertRow, To, Stages
<1>7. ASSUME NEW e \in Entries, AdvanceHead(e) PROVE AuditTypeOK'
  BY ZenonT(90), <1>7 DEF AdvanceHead, To, Stages
<1>8. ASSUME NEW e \in Entries, Publish(e) PROVE log' \in SUBSET Row /\ head' \in [Chains -> [hash: Seq(Entries), pos: Nat \cup {-1}]]
  <2>1. NewHead(e) \in [hash: Seq(Entries), pos: Nat \cup {-1}]
    BY DEF NewHead, compute_entry_hash
  <2> QED
    BY <1>8, <2>1, RowOfType DEF Publish
<1>9. ASSUME NEW e \in Entries, Commit(e) PROVE AuditTypeOK'
  BY <1>8, <1>9 DEF Commit, To, Stages
<1>10. ASSUME NEW e \in Entries, ConnectionLost(e) PROVE AuditTypeOK'
  <2>1. faults' \in 0..MaxFaults /\ clock' \in 0..MaxClock
    BY <1>10, AuditAssumption DEF ConnectionLost
  <2>2. call' \in [Entries -> [at: Stages, chain: Chains, pos: Nat, prev: Seq(Entries), ts: 0..MaxClock]]
    BY <1>10 DEF ConnectionLost, To, Stages
  <2>3. log' \in SUBSET Row /\ head' \in [Chains -> [hash: Seq(Entries), pos: Nat \cup {-1}]]
    BY <1>8, <1>10 DEF ConnectionLost
  <2> QED
    BY <2>1, <2>2, <2>3
<1> QED
  BY <1>1, <1>2, <1>3, <1>4, <1>5, <1>6, <1>7, <1>9, <1>10 DEF AuditNext

\* AuditTypeOK: every reachable state is well-typed.
THEOREM AuditTypes == AuditSpec => []AuditTypeOK
<1>1. AuditInit => AuditTypeOK
  BY ChainInvInit DEF ChainInv
<1> QED
  BY <1>1, AuditTypeStep, PTL DEF AuditSpec

-----------------------------------------------------------------------------
(* The inductive invariant *)

\* Everyone but e is left alone, and so are the tables.
Only(e) == \A f \in Entries : f # e => call'[f] = call[f]

SameRead(e) == /\ call'[e].chain = call[e].chain
               /\ call'[e].pos = call[e].pos
               /\ call'[e].prev = call[e].prev

\* What a change of stage does to the transactions.
LEMMA ToFacts ==
    ASSUME AuditTypeOK, NEW e \in Entries, NEW stage, To(e, stage)
    PROVE  Only(e) /\ SameRead(e) /\ call'[e].at = stage
BY DEF AuditTypeOK, To, Only, SameRead

\* A transaction that holds nothing after its step, and has committed
\* nothing, preserves the invariant: rolling back is one of these.
LEMMA HoldsNothing ==
    ASSUME ChainInv, AuditTypeOK', NEW e \in Entries, Only(e), UNCHANGED <<log, head>>,
           call[e].at \notin {"done", "failed"}, ~Reading(e)'
    PROVE  ChainInv'
<1>1. ShapeInv' /\ ChainIntact'
  BY DEF ChainInv, ShapeInv, ChainIntact
<1>2. \A f \in Entries : HasRow(f)' => Reading(f)'
  BY DEF HasRow, Reading
<1>3. WritersInv'
  BY <1>2 DEF ChainInv, WritersInv, FirstUnlinked, AtHead, OneWriter, FirstBeforeHead, OneRowPerPlace,
             Reading, HasRow, Only
<1>4. \A r \in log : r.id \in Entries
  BY DEF ChainInv, AuditTypeOK, Row
<1>5. OnceInv'
  BY <1>4 DEF ChainInv, OnceInv, Only
<1> QED
  BY <1>1, <1>3, <1>5 DEF ChainInv

\* Reading the head under its row lock.
LEMMA LockHeadStep ==
    ASSUME ChainInv, AuditTypeOK', NEW e \in Entries, LockHead(e)
    PROVE  ChainInv'
<1> DEFINE c == call[e].chain
<1>1. /\ call'[e].at = "locked"
      /\ call'[e].chain = c
      /\ call'[e].pos = head[c].pos + 1
      /\ call'[e].prev = head[c].hash
      /\ Only(e)
  BY DEF LockHead, ChainInv, AuditTypeOK, Only
<1>2. c \in Chains /\ call[e].at = "begun" /\ log' = log /\ head' = head
  BY DEF LockHead, ChainInv, AuditTypeOK
<1>3. head[c] \in [hash: Seq(Entries), pos: Nat \cup {-1}]
  BY <1>2 DEF ChainInv, AuditTypeOK
<1>4. head[c].pos \in Nat \cup {-1}
  BY <1>3
<1>5. ShapeInv' /\ ChainIntact'
  BY <1>2 DEF ChainInv, ShapeInv, ChainIntact
<1>6. call'[e].pos = 0 => call'[e].prev = Genesis
  BY <1>1, <1>2, <1>4 DEF ChainInv, ShapeInv
<1>7. ASSUME call'[e].pos > 0, NEW f \in Entries, f # e, Reading(f), call[f].chain = c
      PROVE  ~(call[f].pos > 0)
  <2>1. head[c] # NoHead
    BY <1>1, <1>4, <1>7 DEF NoHead
  <2>2. ~HoldsHead(f)
    BY <1>7, <2>1 DEF LockHead
  <2> QED
    BY <1>7, <2>2 DEF HoldsHead, Reading
<1>8. ~HasRow(e)' /\ ~HasRow(e) /\ ~Reading(e)
  BY <1>1, <1>2 DEF HasRow, Reading
<1>9. \A f \in Entries : f # e => /\ call'[f] = call[f]
                                  /\ Reading(f)' <=> Reading(f)
                                  /\ HasRow(f)' <=> HasRow(f)
  BY <1>1 DEF Only, Reading, HasRow
<1>10. WritersInv'
  <2>1. FirstUnlinked'
    BY <1>6, <1>9 DEF ChainInv, WritersInv, FirstUnlinked
  <2>2. AtHead'
    BY <1>1, <1>2, <1>9 DEF ChainInv, WritersInv, AtHead
  <2>3. OneWriter'
    BY <1>1, <1>7, <1>9 DEF ChainInv, WritersInv, OneWriter
  <2>4. FirstBeforeHead'
    BY <1>2, <1>8, <1>9 DEF ChainInv, WritersInv, FirstBeforeHead
  <2>5. OneRowPerPlace'
    BY <1>8, <1>9 DEF ChainInv, WritersInv, OneRowPerPlace
  <2> QED
    BY <2>1, <2>2, <2>3, <2>4, <2>5 DEF WritersInv
<1>11. OnceInv'
  <2>1. \A r \in log : r.id \in Entries
    BY DEF ChainInv, AuditTypeOK, Row
  <2> QED
    BY <1>1, <1>2, <2>1 DEF ChainInv, OnceInv, Only
<1> QED
  BY <1>5, <1>10, <1>11 DEF ChainInv

\* A transaction that keeps what it read moves on: to having its row in, if
\* the unique index lets it, or from there.
LEMMA MovesOn ==
    ASSUME ChainInv, AuditTypeOK', NEW e \in Entries, Only(e), SameRead(e), UNCHANGED <<log, head>>,
           Reading(e), HasRow(e)',
           HasRow(e) \/ /\ \A f \in Entries : HasRow(f) => ~SamePlace(RowOf(f), e)
                        /\ \A r \in log : ~SamePlace(r, e)
    PROVE  ChainInv'
<1>1. ShapeInv' /\ ChainIntact'
  BY DEF ChainInv, ShapeInv, ChainIntact
<1>2. \A f \in Entries : /\ call'[f].chain = call[f].chain
                         /\ call'[f].pos = call[f].pos
                         /\ call'[f].prev = call[f].prev
                         /\ Reading(f)' <=> Reading(f)
  BY DEF Only, SameRead, Reading, HasRow
<1>3. \A f \in Entries : f # e => (HasRow(f)' <=> HasRow(f))
  BY DEF Only, HasRow
<1>4. ASSUME call[e].pos = 0 PROVE head[call[e].chain].pos = -1
  <2>1. CASE HasRow(e)
    BY <1>4, <2>1 DEF ChainInv, WritersInv, FirstBeforeHead
  <2>2. CASE \A r \in log : ~SamePlace(r, e)
    <3>1. head[call[e].chain] \in [hash: Seq(Entries), pos: Nat \cup {-1}] /\ call[e].chain \in Chains
      BY DEF ChainInv, AuditTypeOK
    <3>2. head[call[e].chain].pos \in Nat \cup {-1}
      BY <3>1
    <3> QED
      BY <1>4, <2>2, <3>1, <3>2 DEF ChainInv, ChainIntact, SamePlace
  <2> QED
    BY <2>1, <2>2
<1>5. ASSUME NEW f \in Entries, f # e, HasRow(f), call[f].chain = call[e].chain
      PROVE  call[f].pos # call[e].pos
  <2>1. CASE HasRow(e)
    BY <1>5, <2>1 DEF ChainInv, WritersInv, OneRowPerPlace
  <2>2. CASE ~SamePlace(RowOf(f), e)
    BY <1>5, <2>2 DEF SamePlace, RowOf
  <2> QED
    BY <1>5, <2>1, <2>2
<1>6. WritersInv'
  <2>1. FirstUnlinked'
    BY <1>2 DEF ChainInv, WritersInv, FirstUnlinked
  <2>2. AtHead'
    BY <1>2 DEF ChainInv, WritersInv, AtHead
  <2>3. OneWriter'
    BY <1>2 DEF ChainInv, WritersInv, OneWriter
  <2>4. FirstBeforeHead'
    BY <1>2, <1>3, <1>4 DEF ChainInv, WritersInv, FirstBeforeHead
  <2>5. OneRowPerPlace'
    BY <1>2, <1>3, <1>5 DEF ChainInv, WritersInv, OneRowPerPlace
  <2> QED
    BY <2>1, <2>2, <2>3, <2>4, <2>5 DEF WritersInv
<1>7. \A r \in log : r.id \in Entries
  BY DEF ChainInv, AuditTypeOK, Row
<1>8. call[e].at \notin {"done", "failed"}
  BY DEF Reading
<1>9. OnceInv'
  BY <1>7, <1>8 DEF ChainInv, OnceInv, Only
<1> QED
  BY <1>1, <1>6, <1>9 DEF ChainInv

\* Where a committing transaction writes: right behind the head, linked to it.
LEMMA BehindHead ==
    ASSUME ChainInv, NEW e \in Entries, HasRow(e)
    PROVE  /\ call[e].pos = head[call[e].chain].pos + 1
           /\ call[e].prev = head[call[e].chain].hash
<1>1. call[e].chain \in Chains /\ call[e].pos \in Nat /\ Reading(e)
  BY DEF ChainInv, AuditTypeOK, HasRow, Reading
<1>2. CASE call[e].pos = 0
  <2>1. head[call[e].chain].pos = -1 /\ call[e].prev = Genesis
    BY <1>1, <1>2 DEF ChainInv, WritersInv, FirstBeforeHead, FirstUnlinked
  <2>2. head[call[e].chain].hash = Genesis
    BY <1>1, <2>1 DEF ChainInv, ShapeInv
  <2> QED
    BY <1>2, <2>1, <2>2
<1>3. CASE call[e].pos > 0
  BY <1>1, <1>3 DEF ChainInv, WritersInv, AtHead
<1> QED
  BY <1>1, <1>2, <1>3

\* A hash over at least one entry is not the genesis value.
LEMMA HashNotGenesis ==
    ASSUME NEW q \in Seq(Entries), NEW e \in Entries
    PROVE  Append(q, e) # Genesis
BY AppendProperties DEF Genesis

\* The commit of an advanced transaction, whether or not its writer hears of it.
LEMMA PublishStep ==
    ASSUME ChainInv, AuditTypeOK', NEW e \in Entries, call[e].at = "advanced",
           Publish(e), Only(e), SameRead(e), call'[e].at \in {"done", "failed"}
    PROVE  ChainInv'
<1> DEFINE c == call[e].chain
           new == RowOf(e)
<1>1. /\ c \in Chains /\ call[e].pos \in Nat /\ call[e].prev \in Seq(Entries)
      /\ head[c] \in [hash: Seq(Entries), pos: Nat \cup {-1}]
  BY DEF ChainInv, AuditTypeOK
<1>2. head[c].pos \in Nat \cup {-1} /\ head[c].hash \in Seq(Entries)
  BY <1>1
<1>3. HasRow(e) /\ Reading(e)
  BY DEF HasRow, Reading
<1>4. call[e].pos = head[c].pos + 1 /\ call[e].prev = head[c].hash
  BY <1>3, BehindHead
<1>5. /\ new.id = e /\ new.chain = c /\ new.pos = call[e].pos /\ new.prev = call[e].prev
      /\ new.hash = Append(call[e].prev, e)
  BY DEF RowOf, compute_entry_hash
<1>6. log' = log \cup {new}
  BY DEF Publish
<1>7. /\ head'[c].pos = call[e].pos
      /\ head'[c].hash = Append(call[e].prev, e)
      /\ \A d \in Chains : d # c => head'[d] = head[d]
  BY <1>1 DEF Publish, NewHead, compute_entry_hash, ChainInv, AuditTypeOK
<1> HIDE DEF c, new
<1>8. ~Reading(e)' /\ ~HasRow(e)'
  BY DEF Reading, HasRow
<1>9. \A f \in Entries : f # e => /\ call'[f] = call[f]
                                  /\ Reading(f)' <=> Reading(f)
                                  /\ HasRow(f)' <=> HasRow(f)
  BY DEF Only, Reading, HasRow
<1>10. \A r \in log : r.id \in Entries /\ r.chain \in Chains /\ r.pos \in Nat /\ r.prev \in Seq(Entries)
  BY DEF ChainInv, AuditTypeOK, Row
<1>11. ShapeInv'
  <2>1. new.pos = 0 <=> new.prev = Genesis
    BY <1>1, <1>2, <1>4, <1>5 DEF ChainInv, ShapeInv
  <2>2. \A r \in log' : r.hash = Append(r.prev, r.id) /\ (r.pos = 0 <=> r.prev = Genesis)
    BY <1>5, <1>6, <2>1 DEF ChainInv, ShapeInv
  <2>3. head'[c].hash # Genesis /\ head'[c].pos # -1
    <3>1. Append(call[e].prev, e) # Genesis
      BY <1>1, HashNotGenesis
    <3>2. call[e].pos # -1
      BY <1>1
    <3> QED
      BY <1>7, <3>1, <3>2
  <2>4. \A d \in Chains : head'[d].pos = -1 <=> head'[d].hash = Genesis
    BY <1>7, <2>3 DEF ChainInv, ShapeInv
  <2> QED
    BY <2>2, <2>4 DEF ShapeInv
<1>12. ASSUME NEW f \in Entries, f # e, Reading(f), call[f].chain = c PROVE ~(call[f].pos > 0)
  <2>1. CASE call[e].pos > 0
    BY <1>3, <1>12, <2>1 DEF ChainInv, WritersInv, OneWriter, c
  <2>2. CASE call[e].pos = 0
    BY <1>2, <1>4, <1>12, <2>2 DEF ChainInv, WritersInv, AtHead, c
  <2> QED
    BY <1>1, <2>1, <2>2
<1>13. ASSUME NEW f \in Entries, f # e, HasRow(f), call[f].chain = c, call[f].pos = 0 PROVE FALSE
  <2>1. head[c].pos = -1
    BY <1>13 DEF ChainInv, WritersInv, FirstBeforeHead
  <2>2. call[e].pos = 0
    BY <1>4, <2>1
  <2> QED
    BY <1>3, <1>13, <2>2 DEF ChainInv, WritersInv, OneRowPerPlace, c
<1>14. WritersInv'
  <2>0. \A f \in Entries : call[f].chain \in Chains
    BY DEF ChainInv, AuditTypeOK
  <2>1. FirstUnlinked'
    BY <1>8, <1>9 DEF ChainInv, WritersInv, FirstUnlinked
  <2>2. AtHead'
    BY <1>7, <1>8, <1>9, <1>12, <2>0 DEF ChainInv, WritersInv, AtHead
  <2>3. OneWriter'
    BY <1>8, <1>9 DEF ChainInv, WritersInv, OneWriter
  <2>4. FirstBeforeHead'
    BY <1>7, <1>8, <1>9, <1>13, <2>0 DEF ChainInv, WritersInv, FirstBeforeHead
  <2>5. OneRowPerPlace'
    BY <1>8, <1>9 DEF ChainInv, WritersInv, OneRowPerPlace
  <2> QED
    BY <2>1, <2>2, <2>3, <2>4, <2>5 DEF WritersInv
<1>15. OnceInv'
  BY <1>5, <1>6, <1>9, <1>10 DEF ChainInv, OnceInv
<1>16. ChainIntact'
  <2> SUFFICES ASSUME NEW d \in Chains
               PROVE  LET rows == {r \in log' : r.chain = d} IN
                        /\ \A i \in 0..head'[d].pos : \E r \in rows : r.pos = i
                        /\ \A r \in rows : r.pos <= head'[d].pos
                        /\ \A r, s \in rows : r.pos = s.pos => r = s
                        /\ \A r, s \in rows : s.pos = r.pos + 1 => s.prev = r.hash
                        /\ \A r \in rows : r.pos = head'[d].pos => r.hash = head'[d].hash
    BY DEF ChainIntact
  <2> DEFINE old == {r \in log : r.chain = d}
  <2>1. /\ \A i \in 0..head[d].pos : \E r \in old : r.pos = i
        /\ \A r \in old : r.pos <= head[d].pos
        /\ \A r, s \in old : r.pos = s.pos => r = s
        /\ \A r, s \in old : s.pos = r.pos + 1 => s.prev = r.hash
        /\ \A r \in old : r.pos = head[d].pos => r.hash = head[d].hash
    BY DEF ChainInv, ChainIntact
  <2>2. CASE d # c
    <3>1. {r \in log' : r.chain = d} = old
      BY <1>5, <1>6, <2>2
    <3> HIDE DEF old
    <3> QED
      BY <1>7, <2>1, <2>2, <3>1
  <2>3. CASE d = c
    <3>1. {r \in log' : r.chain = d} = old \cup {new}
      BY <1>5, <1>6, <2>3
    <3>2. \A r \in old : r.pos \in Nat
      BY <1>10
    <3>3. new.pos = head[d].pos + 1 /\ head'[d].pos = head[d].pos + 1
          /\ new.prev = head[d].hash /\ new.hash = head'[d].hash
          /\ head[d].pos \in Nat \cup {-1}
      BY <1>2, <1>4, <1>5, <1>7, <2>3
    <3> HIDE DEF old
    <3>4. \A i \in 0..head'[d].pos : \E r \in old \cup {new} : r.pos = i
      BY <2>1, <3>3
    <3>5. \A r \in old \cup {new} : r.pos <= head'[d].pos
      BY <2>1, <3>2, <3>3
    <3>6. \A r, s \in old \cup {new} : r.pos = s.pos => r = s
      BY <2>1, <3>2, <3>3
    <3>7. \A r, s \in old \cup {new} : s.pos = r.pos + 1 => s.prev = r.hash
      BY <2>1, <3>2, <3>3
    <3>8. \A r \in old \cup {new} : r.pos = head'[d].pos => r.hash = head'[d].hash
      BY <2>1, <3>2, <3>3
    <3> QED
      BY <3>1, <3>4, <3>5, <3>6, <3>7, <3>8
  <2> QED
    BY <2>2, <2>3
<1> QED
  BY <1>11, <1>14, <1>15, <1>16 DEF ChainInv

\* Every step preserves the invariant.
LEMMA ChainInvStep == ChainInv /\ [AuditNext]_auditVars => ChainInv'
<1> SUFFICES ASSUME ChainInv, [AuditNext]_auditVars PROVE ChainInv'
  OBVIOUS
<1>1. AuditTypeOK /\ AuditTypeOK'
  BY AuditTypeStep DEF ChainInv
<1>2. ASSUME UNCHANGED <<log, head, call>> PROVE ChainInv'
  <2>1. \A e \in Entries : (Reading(e)' <=> Reading(e)) /\ (HasRow(e)' <=> HasRow(e))
    BY <1>2 DEF Reading, HasRow
  <2>2. ShapeInv' /\ ChainIntact' /\ OnceInv'
    BY <1>2 DEF ChainInv, ShapeInv, ChainIntact, OnceInv
  <2>3. WritersInv'
    BY <1>2, <2>1 DEF ChainInv, WritersInv, FirstUnlinked, AtHead, OneWriter, FirstBeforeHead, OneRowPerPlace
  <2> QED
    BY <1>1, <2>2, <2>3 DEF ChainInv
<1>3. ASSUME NEW e \in Entries, NewEntry(e) PROVE ChainInv'
  <2>1. Only(e) /\ ~Reading(e)' /\ call[e].at = "idle" /\ UNCHANGED <<log, head>>
    BY <1>1, <1>3 DEF NewEntry, Only, Reading, AuditTypeOK
  <2> QED
    BY <1>1, <2>1, HoldsNothing
<1>4. ASSUME NEW e \in Entries, Begin(e) PROVE ChainInv'
  <2>1. Only(e) /\ ~Reading(e)' /\ call[e].at = "created" /\ UNCHANGED <<log, head>>
    BY <1>1, <1>4 DEF Begin, Only, Reading, AuditTypeOK
  <2> QED
    BY <1>1, <2>1, HoldsNothing
<1>5. ASSUME NEW e \in Entries, LockHead(e) PROVE ChainInv'
  BY <1>1, <1>5, LockHeadStep
<1>6. ASSUME NEW e \in Entries, InsertRow(e) PROVE ChainInv'
  <2>1. call[e].at = "locked" /\ Reading(e) /\ UNCHANGED <<log, head>>
    BY <1>6 DEF InsertRow, Reading
  <2>2. CASE \E r \in log : SamePlace(r, e)
    <3>1. Only(e) /\ call'[e].at = "failed"
      BY <1>1, <1>6, <2>2, ToFacts DEF InsertRow
    <3> QED
      BY <1>1, <2>1, <3>1, HoldsNothing DEF Reading
  <2>3. CASE ~\E r \in log : SamePlace(r, e)
    <3>1. Only(e) /\ SameRead(e) /\ call'[e].at = "inserted"
      BY <1>1, <1>6, <2>3, ToFacts DEF InsertRow
    <3>2. HasRow(e)'
      BY <3>1 DEF HasRow
    <3> QED
      BY <1>1, <1>6, <2>1, <2>3, <3>1, <3>2, MovesOn DEF InsertRow
  <2> QED
    BY <2>2, <2>3
<1>7. ASSUME NEW e \in Entries, AdvanceHead(e) PROVE ChainInv'
  <2>1. Only(e) /\ SameRead(e) /\ call'[e].at = "advanced"
    BY <1>1, <1>7, ToFacts DEF AdvanceHead
  <2>2. Reading(e) /\ HasRow(e) /\ HasRow(e)' /\ UNCHANGED <<log, head>>
    BY <1>7, <2>1 DEF AdvanceHead, Reading, HasRow
  <2> QED
    BY <1>1, <2>1, <2>2, MovesOn
<1>8. ASSUME NEW e \in Entries, Commit(e) PROVE ChainInv'
  <2>1. Only(e) /\ SameRead(e) /\ call'[e].at = "done"
    BY <1>1, <1>8, ToFacts DEF Commit
  <2> QED
    BY <1>1, <1>8, <2>1, PublishStep DEF Commit
<1>9. ASSUME NEW e \in Entries, ConnectionLost(e) PROVE ChainInv'
  <2>1. Only(e) /\ SameRead(e) /\ call'[e].at = "failed"
    BY <1>1, <1>9, ToFacts DEF ConnectionLost
  <2>2. CASE UNCHANGED <<log, head>>
    BY <1>1, <1>9, <2>1, <2>2, HoldsNothing DEF ConnectionLost, Reading
  <2>3. CASE call[e].at = "advanced" /\ Publish(e)
    BY <1>1, <2>1, <2>3, PublishStep
  <2> QED
    BY <1>9, <2>2, <2>3 DEF ConnectionLost
<1> QED
  BY <1>2, <1>3, <1>4, <1>5, <1>6, <1>7, <1>8, <1>9 DEF AuditNext, TimePasses, auditVars

\* Every reachable state satisfies the inductive invariant.
LEMMA Invariant == AuditSpec => []ChainInv
BY ChainInvInit, ChainInvStep, PTL DEF AuditSpec

-----------------------------------------------------------------------------
(* What follows from it *)

\* ChainIntact: concurrent writers, refused inserts and dropped connections
\* leave every chain without gap, fork or broken link, and its head right.
THEOREM Integrity == AuditSpec => []ChainIntact
BY Invariant, PTL DEF ChainInv

\* CollidesOnlyAtGenesis: the row lock on the head serialises every append
\* but the first of a chain; the unique index refuses second first entries only.
THEOREM Collisions == AuditSpec => []CollidesOnlyAtGenesis
<1>1. ChainInv => CollidesOnlyAtGenesis
  <2> SUFFICES ASSUME ChainInv, NEW e \in Entries, call[e].at = "locked", call[e].pos > 0
               PROVE  /\ \A r \in log : ~SamePlace(r, e)
                      /\ \A f \in Entries : HasRow(f) => ~SamePlace(RowOf(f), e)
    BY DEF CollidesOnlyAtGenesis
  <2>1. Reading(e) /\ ~HasRow(e)
    BY DEF Reading, HasRow
  <2>2. call[e].chain \in Chains /\ head[call[e].chain] \in [hash: Seq(Entries), pos: Nat \cup {-1}]
    BY DEF ChainInv, AuditTypeOK
  <2>3. head[call[e].chain].pos \in Nat \cup {-1} /\ call[e].pos = head[call[e].chain].pos + 1
    BY <2>1, <2>2 DEF ChainInv, WritersInv, AtHead
  <2>4. ASSUME NEW r \in log, SamePlace(r, e) PROVE FALSE
    <3>1. r.pos <= head[call[e].chain].pos
      BY <2>2, <2>4 DEF ChainInv, ChainIntact, SamePlace
    <3> QED
      BY <2>3, <2>4, <3>1 DEF SamePlace
  <2>5. ASSUME NEW f \in Entries, HasRow(f), SamePlace(RowOf(f), e) PROVE FALSE
    <3>1. Reading(f) /\ call[f].chain = call[e].chain /\ call[f].pos > 0
      BY <2>5 DEF HasRow, Reading, SamePlace, RowOf
    <3>2. f = e
      BY <2>1, <3>1 DEF ChainInv, WritersInv, OneWriter
    <3> QED
      BY <2>1, <2>5, <3>2
  <2> QED
    BY <2>4, <2>5
<1> QED
  BY <1>1, Invariant, PTL

\* LinksAndHashesClean: in no reachable state of the storage does a
\* verification of a whole chain report a broken link or a wrong hash.
THEOREM WalkFindsNothing == AuditSpec => []LinksAndHashesClean
<1>1. ChainInv => LinksAndHashesClean
  <2> SUFFICES ASSUME ChainInv, NEW c \in Chains
               PROVE  /\ BrokenLinks(RowsOf(c, 0, MaxClock)) = {}
                      /\ HashMismatches(RowsOf(c, 0, MaxClock)) = {}
    BY DEF LinksAndHashesClean
  <2> DEFINE rows == {r \in log : r.chain = c}
  <2>1. RowsOf(c, 0, MaxClock) = rows
    <3>1. \A r \in log : r.ts \in 0..MaxClock
      BY DEF ChainInv, AuditTypeOK, Row
    <3> QED
      BY <3>1, AuditAssumption DEF RowsOf
  <2>2. HashMismatches(rows) = {}
    BY DEF HashMismatches, compute_entry_hash, ChainInv, ShapeInv
  <2>3. ASSUME NEW r \in rows
        PROVE  LET before == {s \in rows : s.pos < r.pos}
                   last == CHOOSE s \in before : \A t \in before : t.pos <= s.pos
               IN ~(IF before = {} THEN r.pos # 0 \/ r.prev # Genesis
                    ELSE r.prev = Genesis \/ r.prev # last.hash)
    <3> DEFINE before == {s \in rows : s.pos < r.pos}
               last == CHOOSE s \in before : \A t \in before : t.pos <= s.pos
    <3>1. r.pos \in Nat /\ r.pos <= head[c].pos /\ (r.pos = 0 <=> r.prev = Genesis)
      BY DEF ChainInv, AuditTypeOK, Row, ChainIntact, ShapeInv
    <3>2. head[c].pos \in Nat \cup {-1}
      <4>1. head[c] \in [hash: Seq(Entries), pos: Nat \cup {-1}]
        BY DEF ChainInv, AuditTypeOK
      <4> QED
        BY <4>1
    <3>3. \A s \in rows : s.pos \in Nat
      BY DEF ChainInv, AuditTypeOK, Row
    <3>4. CASE r.pos = 0
      <4>1. before = {}
        BY <3>3, <3>4
      <4> QED
        BY <3>1, <3>4, <4>1
    <3>5. CASE r.pos > 0
      <4>1. r.pos - 1 \in 0..head[c].pos
        BY <3>1, <3>2, <3>5
      <4>2. PICK s \in rows : s.pos = r.pos - 1
        BY <4>1 DEF ChainInv, ChainIntact
      <4>3. s \in before /\ \A t \in before : t.pos <= s.pos
        BY <3>1, <3>3, <4>2
      <4>4. last \in before /\ \A t \in before : t.pos <= last.pos
        BY <4>3
      <4>5. last.pos = r.pos - 1
        BY <3>1, <3>3, <4>2, <4>3, <4>4
      <4>6. r.prev = last.hash
        BY <3>1, <4>4, <4>5 DEF ChainInv, ChainIntact
      <4> QED
        BY <3>1, <3>5, <4>3, <4>6
    <3> QED
      BY <3>1, <3>4, <3>5
  <2>4. BrokenLinks(rows) = {}
    BY <2>3 DEF BrokenLinks
  <2> QED
    BY <2>1, <2>2, <2>4
<1> QED
  BY <1>1, Invariant, PTL

\* KeepsLedger: every step of the transactions, locks and faults enters one
\* entry at the end of one history, or changes nothing the ledger shows.
THEOREM Refinement == AuditSpec => KeepsLedger
<1>1. AuditInit => Ledger!LedgerInit
  BY DEF AuditInit, Ledger!LedgerInit, NoHead, Genesis
<1>2. ASSUME ChainInv, [AuditNext]_auditVars PROVE [Ledger!LedgerNext]_(Ledger!ledgerVars)
  <2> DEFINE told == {e \in Entries : call[e].at = "done"}
  <2>1. AuditTypeOK
    BY <1>2 DEF ChainInv
  <2>2. ASSUME UNCHANGED <<log, head>>, told' = told PROVE UNCHANGED Ledger!ledgerVars
    BY <2>2 DEF Ledger!ledgerVars
  <2>3. ASSUME NEW e \in Entries, Only(e), call[e].at # "done", call'[e].at # "done"
        PROVE  told' = told
    BY <2>3 DEF Only
  <2>4. ASSUME NEW e \in Entries, call[e].at = "advanced", Publish(e),
               told' = told \/ told' = told \cup {e}
        PROVE  Ledger!LedgerNext
    <3> DEFINE c == call[e].chain
    <3>1. c \in Chains
      BY <2>1 DEF AuditTypeOK
    <3>2. e \notin {r.id : r \in log}
      BY <1>2, <2>4 DEF ChainInv, OnceInv
    <3>3. {r.id : r \in log'} = {r.id : r \in log} \cup {e}
      <4>1. log' = log \cup {RowOf(e)} /\ RowOf(e).id = e
        BY <2>4 DEF Publish, RowOf
      <4> QED
        BY <4>1
    <3>4. call[e].prev = head[c].hash
      BY <1>2, <2>4, BehindHead DEF HasRow
    <3>5. head' = [head EXCEPT ![c] = NewHead(e)] /\ NewHead(e).hash = Append(head[c].hash, e)
      BY <2>4, <3>4 DEF Publish, NewHead, compute_entry_hash
    <3>6. [d \in Chains |-> head'[d].hash]
            = [[d \in Chains |-> head[d].hash] EXCEPT ![c] = Append(@, e)]
      BY <2>1, <3>1, <3>5 DEF AuditTypeOK
    <3>7. Ledger!Enter(c, e)
      BY <2>4, <3>2, <3>3, <3>6 DEF Ledger!Enter
    <3> QED
      BY <3>1, <3>7 DEF Ledger!LedgerNext
  <2>5. ASSUME UNCHANGED <<log, head, call>> PROVE UNCHANGED Ledger!ledgerVars
    BY <2>2, <2>5
  <2>6. ASSUME NEW e \in Entries, NewEntry(e) \/ Begin(e) \/ LockHead(e)
        PROVE  UNCHANGED Ledger!ledgerVars
    <3>1. Only(e) /\ call[e].at # "done" /\ call'[e].at # "done" /\ UNCHANGED <<log, head>>
      BY <2>1, <2>6 DEF NewEntry, Begin, LockHead, Only, AuditTypeOK
    <3> QED
      BY <2>2, <2>3, <3>1
  <2>7. ASSUME NEW e \in Entries, InsertRow(e) \/ AdvanceHead(e)
        PROVE  UNCHANGED Ledger!ledgerVars
    <3>1. call[e].at # "done" /\ UNCHANGED <<log, head>>
          /\ \E s \in {"failed", "inserted", "advanced"} : To(e, s)
      BY <2>7 DEF InsertRow, AdvanceHead
    <3>2. Only(e) /\ call'[e].at # "done"
      BY <2>1, <3>1, ToFacts
    <3> QED
      BY <2>2, <2>3, <3>1, <3>2
  <2>8. ASSUME NEW e \in Entries, Commit(e) PROVE Ledger!LedgerNext
    <3>1. call[e].at = "advanced" /\ Publish(e) /\ To(e, "done")
      BY <2>8 DEF Commit
    <3>2. Only(e) /\ call'[e].at = "done"
      BY <2>1, <3>1, ToFacts
    <3>3. told' = told \cup {e}
      BY <3>2 DEF Only
    <3> QED
      BY <2>4, <3>1, <3>3
  <2>9. ASSUME NEW e \in Entries, ConnectionLost(e) PROVE [Ledger!LedgerNext]_(Ledger!ledgerVars)
    <3>1. Only(e) /\ call'[e].at = "failed" /\ call[e].at # "done"
      BY <2>1, <2>9, ToFacts DEF ConnectionLost
    <3>2. told' = told
      BY <2>3, <3>1
    <3>3. CASE UNCHANGED <<log, head>>
      BY <2>2, <3>2, <3>3
    <3>4. CASE call[e].at = "advanced" /\ Publish(e)
      BY <2>4, <3>2, <3>4
    <3> QED
      BY <2>9, <3>3, <3>4 DEF ConnectionLost
  <2> QED
    BY <1>2, <2>5, <2>6, <2>7, <2>8, <2>9 DEF AuditNext, TimePasses, auditVars
<1> QED
  BY <1>1, <1>2, Invariant, PTL DEF AuditSpec, KeepsLedger, Ledger!LedgerSpec

-----------------------------------------------------------------------------
(***************************************************************************)
(* Safety of the job queue for any number of jobs, workers, crashes, lost  *)
(* writes and operator retries.                                            *)
(***************************************************************************)

\* Rows held by a claim statement are still pending: every other UPDATE of
\* ir_job has to wait for the row lock.
LockedRowsPending ==
    \A w \in Workers : \A j \in locks[w] : status[j] = "pending"

\* SKIP LOCKED: no row is held by two claim statements.
LocksDisjoint ==
    \A v, w \in Workers : \A j \in locks[v] \cap locks[w] : v = w

\* A worker claims only between two batches of executions.
ClaimsBetweenBatches ==
    \A w \in Workers : locks[w] # {} => \A e \in runs : e.worker # w

\* One batch holds a job at most once.
OncePerBatch ==
    \A e, f \in runs : e.worker = f.worker /\ e.job = f.job => e = f

\* attempts counts the failed handler runs and the one under way.
AttemptsAccounted ==
    \A j \in Jobs \ overlapped :
        /\ attempts[j] <= MaxAttempts[j]
        /\ status[j] = "absent" => attempts[j] = 0 /\ fails[j] = 0
        /\ status[j] = "pending" => attempts[j] = fails[j] /\ attempts[j] < MaxAttempts[j]
        /\ status[j] = "dead" => fails[j] = MaxAttempts[j]

RunsAccounted ==
    \A e \in runs : e.job \notin overlapped =>
        attempts[e.job] = IF e.result = "err" THEN fails[e.job] ELSE fails[e.job] + 1

OwnershipInv ==
    /\ LockedRowsPending
    /\ LocksDisjoint
    /\ ClaimsBetweenBatches
    /\ OncePerBatch
    /\ ExecutionOwnsRow

AccountInv == AttemptsAccounted /\ RunsAccounted

\* A page offers to retry rows that exist; rows of ir_job are never deleted.
OfferedPresent == \A j \in offered : status[j] # "absent"

IInv == TypeOK /\ OwnershipInv /\ AccountInv /\ OfferedPresent

-----------------------------------------------------------------------------
(* Type correctness *)

\* Every state the queue starts in is well typed.
LEMMA TypeInit == Init => TypeOK
  BY BoundsAssumption DEF Init, TypeOK, Statuses

\* No handler, statement or fault makes a row or a task ill typed.
LEMMA TypeStep == TypeOK /\ [Next]_vars => TypeOK'
<1> SUFFICES ASSUME TypeOK, [Next]_vars PROVE TypeOK'
  OBVIOUS
<1> USE BoundsAssumption DEF TypeOK, Statuses, rowVars
<1>1. ASSUME NEW j \in Jobs, enqueue(j) \/ enqueue_more(j) PROVE TypeOK'
  BY <1>1 DEF enqueue, enqueue_more
<1>2. ASSUME NEW j \in Jobs, RunAtReached(j) PROVE TypeOK'
  BY <1>2 DEF RunAtReached
<1>3. ASSUME NEW j \in Jobs, job_retry(j) PROVE TypeOK'
  BY <1>3 DEF job_retry
<1>4. ASSUME NEW j \in Jobs, job_cancel(j) PROVE TypeOK'
  BY <1>4 DEF job_cancel
<1>5. ASSUME NEW w \in Workers, ClaimSelect(w) PROVE TypeOK'
  <2>1. PICK S \in TopRows(Claimable, Batch) : locks' = [locks EXCEPT ![w] = S]
    BY <1>5 DEF ClaimSelect
  <2>2. S \in SUBSET Jobs
    BY <2>1 DEF TopRows, Claimable
  <2> QED BY <1>5, <2>1, <2>2 DEF ClaimSelect
<1>6. ASSUME NEW w \in Workers, ClaimUpdate(w) PROVE TypeOK'
  <2>1. runs' \in SUBSET Execution
    BY <1>6 DEF ClaimUpdate, Execution
  <2> QED BY <1>6, <2>1 DEF ClaimUpdate
<1>7. ASSUME NEW w \in Workers, Crash(w) PROVE TypeOK'
  BY <1>7 DEF Crash
<1>12. ASSUME NEW w \in Workers, ClaimAnswerLost(w) PROVE TypeOK'
  BY <1>12 DEF ClaimAnswerLost
<1>8. ASSUME NEW e \in runs, RunHandler(e) PROVE TypeOK'
  <2>1. e \in Execution /\ e.job \in Jobs
    BY DEF Execution
  <2>2. runs' \in SUBSET Execution
    <3>1. /\ [e EXCEPT !.result = "ok"] \in Execution
          /\ [e EXCEPT !.result = "err"] \in Execution
      BY <2>1 DEF Execution
    <3> QED BY <1>8, <3>1 DEF RunHandler
  <2>3. fails' \in [Jobs -> Nat]
    BY <1>8, <2>1 DEF RunHandler
  <2> QED BY <1>8, <2>2, <2>3 DEF RunHandler
<1>9. ASSUME NEW e \in runs, Outcome(e) PROVE TypeOK'
  BY <1>9 DEF Outcome, RecordSuccess, RecordDead, RecordRetry, RecordNothing
<1>10. CASE jobs_list
  BY <1>10 DEF jobs_list
<1>11. CASE UNCHANGED vars
  BY <1>11 DEF vars
<1> QED BY <1>1, <1>2, <1>3, <1>4, <1>5, <1>6, <1>7, <1>8, <1>9, <1>10, <1>11,
        <1>12 DEF Next, Tick

\* Every state of the queue is one the ir_job table and its workers can be in.
THEOREM Typing == Spec => []TypeOK
<1>1. Init => TypeOK
  BY TypeInit
<1>2. TypeOK /\ [Next]_vars => TypeOK'
  BY TypeStep
<1> QED BY <1>1, <1>2, PTL DEF Spec

-----------------------------------------------------------------------------
(* Who executes what *)

\* Nothing is locked or executed before the first tick.
LEMMA OwnershipInit == Init => OwnershipInv
  BY DEF Init, OwnershipInv, LockedRowsPending, LocksDisjoint, ClaimsBetweenBatches,
         OncePerBatch, ExecutionOwnsRow

\* What a claim statement locks: pending rows that nobody else holds, none of
\* them being executed for its row's sake.
LEMMA ClaimSelectFacts ==
    ASSUME TypeOK, NEW w \in Workers, ClaimSelect(w)
    PROVE  /\ locks[w] = {} /\ \A e \in runs : e.worker # w
           /\ locks' = [locks EXCEPT ![w] = locks'[w]]
           /\ \A j \in locks'[w] : /\ j \in Jobs
                                   /\ status[j] = "pending"
                                   /\ \A v \in Workers : j \notin locks[v]
<1>1. PICK S \in TopRows(Claimable, Batch) : locks' = [locks EXCEPT ![w] = S]
  BY DEF ClaimSelect
<1>2. S \subseteq Claimable
  BY <1>1 DEF TopRows
<1> QED BY <1>1, <1>2 DEF ClaimSelect, Idle, Claimable, LockFree, TypeOK

\* A step of run_one keeps the execution's identity or ends it.
LEMMA RunHandlerFacts ==
    ASSUME TypeOK, NEW e \in runs, RunHandler(e)
    PROVE  \E x \in Execution :
              /\ runs' = (runs \ {e}) \cup {x}
              /\ x.worker = e.worker /\ x.job = e.job /\ x.attempt = e.attempt
              /\ \/ x.result = "ok" /\ fails' = fails
                 \/ x.result = "err" /\ fails' = [fails EXCEPT ![e.job] = @ + 1]
<1>1. e \in Execution
  BY DEF TypeOK
<1>2. CASE runs' = (runs \ {e}) \cup {[e EXCEPT !.result = "ok"]} /\ UNCHANGED fails
  <2> DEFINE x == [e EXCEPT !.result = "ok"]
  <2>1. /\ x \in Execution /\ x.worker = e.worker /\ x.job = e.job
        /\ x.attempt = e.attempt /\ x.result = "ok"
    BY <1>1 DEF Execution
  <2> HIDE DEF x
  <2>2. runs' = (runs \ {e}) \cup {x}
    BY <1>2 DEF x
  <2> QED BY <1>2, <2>1, <2>2
<1>3. CASE /\ runs' = (runs \ {e}) \cup {[e EXCEPT !.result = "err"]}
           /\ fails' = [fails EXCEPT ![e.job] = @ + 1]
  <2> DEFINE x == [e EXCEPT !.result = "err"]
  <2>1. /\ x \in Execution /\ x.worker = e.worker /\ x.job = e.job
        /\ x.attempt = e.attempt /\ x.result = "err"
    BY <1>1 DEF Execution
  <2> HIDE DEF x
  <2>2. runs' = (runs \ {e}) \cup {x}
    BY <1>3 DEF x
  <2> QED BY <1>3, <2>1, <2>2
<1> QED BY <1>2, <1>3 DEF RunHandler

\* Claims, outcomes, faults and the operator keep rows and executions paired.
LEMMA OwnershipStep == TypeOK /\ OwnershipInv /\ [Next]_vars => OwnershipInv'
<1> SUFFICES ASSUME TypeOK, OwnershipInv, [Next]_vars PROVE OwnershipInv'
  OBVIOUS
<1> USE DEF OwnershipInv, LockedRowsPending, LocksDisjoint, ClaimsBetweenBatches,
            OncePerBatch, ExecutionOwnsRow, rowVars
<1>1. ASSUME NEW j \in Jobs, enqueue(j) \/ enqueue_more(j) PROVE OwnershipInv'
  <2>1. CASE enqueue(j)
    BY <2>1 DEF enqueue, TypeOK, Execution
  <2>2. CASE enqueue_more(j)
    BY <2>2 DEF enqueue_more, LockFree, Executing, TypeOK, Execution
  <2> QED BY <1>1, <2>1, <2>2
<1>2. ASSUME NEW j \in Jobs, RunAtReached(j) PROVE OwnershipInv'
  BY <1>2 DEF RunAtReached
<1>3. ASSUME NEW j \in Jobs, job_retry(j) PROVE OwnershipInv'
  BY <1>3 DEF job_retry, LockFree, Executing, TypeOK, Execution
<1>4. ASSUME NEW j \in Jobs, job_cancel(j) PROVE OwnershipInv'
  BY <1>4 DEF job_cancel, LockFree, TypeOK, Execution
<1>5. ASSUME NEW w \in Workers, ClaimSelect(w) PROVE OwnershipInv'
  <2>1. /\ UNCHANGED <<status, attempts, lockedBy, runs, overlapped>>
    BY <1>5 DEF ClaimSelect
  <2> QED BY <1>5, <2>1, ClaimSelectFacts DEF TypeOK
<1>6. ASSUME NEW w \in Workers, ClaimUpdate(w) PROVE OwnershipInv'
  <2> DEFINE new == {[worker |-> w, job |-> j, attempt |-> attempts[j] + 1,
                      result |-> "none"] : j \in locks[w]}
  <2>1. /\ locks[w] # {} /\ \A e \in runs : e.worker # w
        /\ locks' = [locks EXCEPT ![w] = {}]
        /\ status' = [j \in Jobs |-> IF j \in locks[w] THEN "running" ELSE status[j]]
        /\ attempts' = [j \in Jobs |-> IF j \in locks[w] THEN attempts[j] + 1 ELSE attempts[j]]
        /\ lockedBy' = [j \in Jobs |-> IF j \in locks[w] THEN w ELSE lockedBy[j]]
        /\ runs' = runs \cup new
        /\ overlapped' = overlapped
    BY <1>6 DEF ClaimUpdate
  <2>2. \A e \in new : /\ e.worker = w /\ e.job \in locks[w]
                       /\ e.attempt = attempts[e.job] + 1 /\ e.result = "none"
    OBVIOUS
  <2>3. \A e, f \in new : e.job = f.job => e = f
    OBVIOUS
  <2>4. locks[w] \subseteq Jobs
    BY DEF TypeOK
  <2>5. \A e \in runs : e.job \in Jobs
    BY DEF TypeOK, Execution
  <2> HIDE DEF new
  <2>6. LockedRowsPending'
    BY <2>1, <2>4 DEF TypeOK
  <2>7. LocksDisjoint' /\ ClaimsBetweenBatches'
    BY <2>1, <2>2 DEF TypeOK
  <2>8. OncePerBatch'
    BY <2>1, <2>2, <2>3
  <2>9. ExecutionOwnsRow'
    <3> SUFFICES ASSUME NEW e \in runs', e.job \notin overlapped
                 PROVE  /\ status'[e.job] = "running"
                        /\ lockedBy'[e.job] = e.worker
                        /\ attempts'[e.job] = e.attempt
      BY <2>1
    <3>1. CASE e \in new
      BY <3>1, <2>1, <2>2, <2>4
    <3>2. CASE e \in runs
      <4>1. e.job \notin locks[w]
        BY <3>2
      <4> QED BY <3>2, <4>1, <2>1, <2>5
    <3> QED BY <3>1, <3>2, <2>1
  <2> QED BY <2>6, <2>7, <2>8, <2>9
<1>7. ASSUME NEW w \in Workers, Crash(w) PROVE OwnershipInv'
  BY <1>7 DEF Crash, TypeOK
<1>12. ASSUME NEW w \in Workers, ClaimAnswerLost(w) PROVE OwnershipInv'
  <2>1. \A j \in locks[w] : j \in Jobs /\ status[j] = "pending"
    BY DEF TypeOK
  <2>2. \A e \in runs : e.job \in Jobs /\ (e.job \notin overlapped => e.job \notin locks[w])
    BY <2>1 DEF TypeOK, Execution
  <2> QED BY <1>12, <2>1, <2>2 DEF ClaimAnswerLost, TypeOK
<1>8. ASSUME NEW e \in runs, RunHandler(e) PROVE OwnershipInv'
  <2>1. PICK x \in Execution :
          /\ runs' = (runs \ {e}) \cup {x}
          /\ x.worker = e.worker /\ x.job = e.job /\ x.attempt = e.attempt
    BY <1>8, RunHandlerFacts
  <2>2. UNCHANGED <<status, attempts, lockedBy, locks, overlapped>>
    BY <1>8 DEF RunHandler
  <2> QED BY <2>1, <2>2
<1>9. ASSUME NEW e \in runs, Outcome(e) PROVE OwnershipInv'
  <2>1. /\ runs' = runs \ {e} /\ UNCHANGED <<locks, overlapped, attempts>>
        /\ e.job \in Jobs
    BY <1>9 DEF Outcome, RecordSuccess, RecordDead, RecordRetry, RecordNothing, TypeOK, Execution
  <2>2. \A j \in Jobs : j = e.job \/ (status'[j] = status[j] /\ lockedBy'[j] = lockedBy[j])
    BY <1>9 DEF Outcome, RecordSuccess, RecordDead, RecordRetry, RecordNothing, TypeOK
  <2>3. LockFree(e.job) \/ UNCHANGED <<status, lockedBy>>
    BY <1>9 DEF Outcome, RecordSuccess, RecordDead, RecordRetry, RecordNothing
  <2>4. \A f \in runs' : f.job = e.job => f.job \in overlapped
    BY <2>1
  <2>5. \A f \in runs' : f.job \in Jobs
    BY <2>1 DEF TypeOK, Execution
  <2>6. LockedRowsPending'
    BY <2>1, <2>2, <2>3 DEF LockFree, TypeOK
  <2>7. ExecutionOwnsRow'
    BY <2>1, <2>2, <2>4, <2>5
  <2> QED BY <2>1, <2>6, <2>7
<1>10. CASE jobs_list
  BY <1>10 DEF jobs_list
<1>11. CASE UNCHANGED vars
  BY <1>11 DEF vars
<1> QED BY <1>1, <1>2, <1>3, <1>4, <1>5, <1>6, <1>7, <1>8, <1>9, <1>10, <1>11,
        <1>12 DEF Next, Tick

\* Two executions that both own their row are one execution.
LEMMA OwnershipExcludes == OwnershipInv => ExclusiveExecution
  BY DEF OwnershipInv, OncePerBatch, ExecutionOwnsRow, ExclusiveExecution

\* The row an execution will write to is its own: running, locked by its
\* worker, at its attempt (run_one's updates name only the id).
THEOREM Ownership == Spec => []ExecutionOwnsRow
<1>1. Init => TypeOK /\ OwnershipInv
  BY TypeInit, OwnershipInit
<1>2. (TypeOK /\ OwnershipInv) /\ [Next]_vars => (TypeOK /\ OwnershipInv)'
  BY TypeStep, OwnershipStep
<1>3. OwnershipInv => ExecutionOwnsRow
  BY DEF OwnershipInv
<1> QED BY <1>1, <1>2, <1>3, PTL DEF Spec

\* However many servers poll the table, no job is executed twice at a time
\* unless an operator requeued it under a running execution.
THEOREM Exclusion == Spec => []ExclusiveExecution
<1>1. Init => TypeOK /\ OwnershipInv
  BY TypeInit, OwnershipInit
<1>2. (TypeOK /\ OwnershipInv) /\ [Next]_vars => (TypeOK /\ OwnershipInv)'
  BY TypeStep, OwnershipStep
<1>3. OwnershipInv => ExclusiveExecution
  BY OwnershipExcludes
<1> QED BY <1>1, <1>2, <1>3, PTL DEF Spec

-----------------------------------------------------------------------------
(* Counting attempts *)

\* Nothing has been attempted before the first enqueue.
LEMMA AccountInit == Init => AccountInv
  BY JobsAssumption DEF Init, AccountInv, AttemptsAccounted, RunsAccounted

\* Every claim, failure and retry keeps attempts equal to what it counts.
LEMMA AccountStep ==
    TypeOK /\ OwnershipInv /\ AccountInv /\ [Next]_vars => AccountInv'
<1> SUFFICES ASSUME TypeOK, OwnershipInv, AccountInv, [Next]_vars PROVE AccountInv'
  OBVIOUS
<1> USE DEF AccountInv, AttemptsAccounted, RunsAccounted, rowVars
<1>a. \A j \in Jobs : MaxAttempts[j] \in Nat \ {0}
  BY JobsAssumption
<1>b. \A e \in runs : e \in Execution /\ e.job \in Jobs /\ e.attempt \in Nat
  BY DEF TypeOK, Execution
<1>c. \A e \in runs : e.job \notin overlapped =>
        status[e.job] = "running" /\ attempts[e.job] = e.attempt
  BY DEF OwnershipInv, ExecutionOwnsRow
<1>1. ASSUME NEW j \in Jobs, enqueue(j) \/ enqueue_more(j) PROVE AccountInv'
  <2>1. CASE enqueue(j)
    BY <2>1, <1>a, <1>b DEF enqueue, TypeOK
  <2>2. CASE enqueue_more(j)
    BY <2>2, <1>a, <1>b DEF enqueue_more, Executing, TypeOK
  <2> QED BY <1>1, <2>1, <2>2
<1>2. ASSUME NEW j \in Jobs, RunAtReached(j) PROVE AccountInv'
  BY <1>2 DEF RunAtReached
<1>3. ASSUME NEW j \in Jobs, job_retry(j) PROVE AccountInv'
  BY <1>3, <1>a, <1>b DEF job_retry, Executing, TypeOK
<1>4. ASSUME NEW j \in Jobs, job_cancel(j) PROVE AccountInv'
  BY <1>4, <1>b DEF job_cancel, TypeOK
<1>5. ASSUME NEW w \in Workers, ClaimSelect(w) PROVE AccountInv'
  BY <1>5 DEF ClaimSelect
<1>6. ASSUME NEW w \in Workers, ClaimUpdate(w) PROVE AccountInv'
  <2> DEFINE new == {[worker |-> w, job |-> j, attempt |-> attempts[j] + 1,
                      result |-> "none"] : j \in locks[w]}
  <2>1. /\ status' = [j \in Jobs |-> IF j \in locks[w] THEN "running" ELSE status[j]]
        /\ attempts' = [j \in Jobs |-> IF j \in locks[w] THEN attempts[j] + 1 ELSE attempts[j]]
        /\ runs' = runs \cup new
        /\ UNCHANGED <<overlapped, fails>>
    BY <1>6 DEF ClaimUpdate
  <2>2. \A e \in new : e.job \in locks[w] /\ e.result = "none"
    OBVIOUS
  <2>3. \A j \in locks[w] : j \in Jobs /\ status[j] = "pending"
    BY DEF TypeOK, OwnershipInv, LockedRowsPending
  <2> HIDE DEF new
  <2>4. AttemptsAccounted'
    BY <2>1, <2>3, <1>a DEF TypeOK
  <2>5. RunsAccounted'
    <3> SUFFICES ASSUME NEW e \in runs', e.job \notin overlapped
                 PROVE  attempts'[e.job] = IF e.result = "err" THEN fails[e.job]
                                                               ELSE fails[e.job] + 1
      BY <2>1
    <3>1. CASE e \in new
      BY <3>1, <2>1, <2>2, <2>3
    <3>2. CASE e \in runs
      <4>1. e.job \notin locks[w]
        BY <3>2, <2>3, <1>c
      <4> QED BY <3>2, <4>1, <2>1, <1>b
    <3> QED BY <3>1, <3>2, <2>1
  <2> QED BY <2>4, <2>5
<1>7. ASSUME NEW w \in Workers, Crash(w) PROVE AccountInv'
  BY <1>7 DEF Crash
<1>12. ASSUME NEW w \in Workers, ClaimAnswerLost(w) PROVE AccountInv'
  <2>1. \A j \in locks[w] : j \in Jobs /\ status[j] = "pending"
    BY DEF TypeOK, OwnershipInv, LockedRowsPending
  <2>2. \A e \in runs : e.job \notin overlapped => e.job \notin locks[w]
    BY <2>1, <1>c
  <2> QED BY <1>12, <2>1, <2>2, <1>a, <1>b DEF ClaimAnswerLost, TypeOK
<1>8. ASSUME NEW e \in runs, RunHandler(e) PROVE AccountInv'
  <2>1. PICK x \in Execution :
          /\ runs' = (runs \ {e}) \cup {x}
          /\ x.worker = e.worker /\ x.job = e.job /\ x.attempt = e.attempt
          /\ \/ x.result = "ok" /\ fails' = fails
             \/ x.result = "err" /\ fails' = [fails EXCEPT ![e.job] = @ + 1]
    BY <1>8, RunHandlerFacts
  <2>2. UNCHANGED <<status, attempts, overlapped>> /\ e.result = "none"
    BY <1>8 DEF RunHandler
  <2>3. \A f \in runs : f.job = e.job /\ f.job \notin overlapped => f = e
    BY OwnershipExcludes DEF ExclusiveExecution
  <2>4. AttemptsAccounted'
    BY <2>1, <2>2, <1>b, <1>c DEF TypeOK
  <2>5. RunsAccounted'
    <3> SUFFICES ASSUME NEW f \in runs', f.job \notin overlapped
                 PROVE  attempts[f.job] = IF f.result = "err" THEN fails'[f.job]
                                                              ELSE fails'[f.job] + 1
      BY <2>2
    <3>1. CASE f = x
      BY <3>1, <2>1, <2>2, <1>b DEF TypeOK
    <3>2. CASE f \in runs /\ f # e
      <4>1. f.job # e.job
        BY <3>2, <2>3
      <4> QED BY <3>2, <4>1, <2>1, <1>b DEF TypeOK
    <3> QED BY <3>1, <3>2, <2>1
  <2> QED BY <2>4, <2>5
<1>9. ASSUME NEW e \in runs, Outcome(e) PROVE AccountInv'
  <2>1. /\ runs' = runs \ {e} /\ UNCHANGED <<overlapped, attempts, fails>>
    BY <1>9 DEF Outcome, RecordSuccess, RecordDead, RecordRetry, RecordNothing
  <2>2. RunsAccounted'
    BY <2>1
  <2>3. AttemptsAccounted'
    <3>1. CASE RecordSuccess(e)
      BY <3>1, <2>1, <1>b DEF RecordSuccess, TypeOK
    <3>2. CASE RecordDead(e)
      BY <3>2, <2>1, <1>a, <1>b, <1>c DEF RecordDead, TypeOK
    <3>3. CASE RecordRetry(e)
      BY <3>3, <2>1, <1>a, <1>b, <1>c DEF RecordRetry, TypeOK
    <3>4. CASE RecordNothing(e)
      BY <3>4, <2>1 DEF RecordNothing
    <3> QED BY <1>9, <3>1, <3>2, <3>3, <3>4 DEF Outcome
  <2> QED BY <2>2, <2>3
<1>10. CASE jobs_list
  BY <1>10 DEF jobs_list
<1>11. CASE UNCHANGED vars
  BY <1>11 DEF vars
<1> QED BY <1>1, <1>2, <1>3, <1>4, <1>5, <1>6, <1>7, <1>8, <1>9, <1>10, <1>11,
        <1>12 DEF Next, Tick

\* A row that a page listed is never deleted.
LEMMA OfferedStep == TypeOK /\ OfferedPresent /\ [Next]_vars => OfferedPresent'
<1> SUFFICES ASSUME TypeOK, OfferedPresent, [Next]_vars PROVE OfferedPresent'
  OBVIOUS
<1>1. CASE jobs_list
  BY <1>1 DEF jobs_list, OfferedPresent, rowVars
<1>2. CASE UNCHANGED vars
  BY <1>2 DEF vars, OfferedPresent
<1>3. ASSUME NEW j \in Jobs, enqueue(j) \/ enqueue_more(j) \/ RunAtReached(j) \/ job_retry(j) \/ job_cancel(j)
      PROVE  OfferedPresent'
  BY <1>3 DEF enqueue, enqueue_more, RunAtReached, job_retry, job_cancel, OfferedPresent, TypeOK
<1>4. ASSUME NEW w \in Workers, Tick(w) \/ ClaimAnswerLost(w) \/ Crash(w)
      PROVE  OfferedPresent'
  BY <1>4 DEF Tick, ClaimSelect, ClaimUpdate, ClaimAnswerLost, Crash, OfferedPresent, TypeOK, rowVars
<1>5. ASSUME NEW e \in runs, RunHandler(e) PROVE OfferedPresent'
  BY <1>5 DEF RunHandler, OfferedPresent, rowVars
<1>6. ASSUME NEW e \in runs, Outcome(e) PROVE OfferedPresent'
  BY <1>6 DEF Outcome, RecordSuccess, RecordDead, RecordRetry, RecordNothing,
              OfferedPresent, TypeOK, rowVars
<1> QED BY <1>1, <1>2, <1>3, <1>4, <1>5, <1>6 DEF Next

\* The inductive invariant holds initially.
LEMMA IInvInit == Init => IInv
<1>1. Init => OfferedPresent
  BY DEF Init, OfferedPresent
<1> QED BY <1>1, TypeInit, OwnershipInit, AccountInit DEF IInv

\* The inductive invariant is preserved by every step.
LEMMA IInvStep == IInv /\ [Next]_vars => IInv'
  BY TypeStep, OwnershipStep, AccountStep, OfferedStep DEF IInv

\* A job is dead only after max_attempts failed runs and is never attempted
\* more often than that.
THEOREM Exhaustion == Spec => []DeadMeansExhausted
<1>1. IInv => DeadMeansExhausted
  BY DEF IInv, AccountInv, AttemptsAccounted, DeadMeansExhausted
<1> QED BY <1>1, IInvInit, IInvStep, PTL DEF Spec

-----------------------------------------------------------------------------
(* The delivery contract *)

\* The empty table is the contract's empty state.
LEMMA ContractInit == Init => Contract!DeliveryInit
  BY DEF Init, Contract!DeliveryInit

\* Every step of the queue is a step of the contract or invisible to it.
LEMMA ContractStep == IInv /\ [Next]_vars => [Contract!DeliveryNext]_(Contract!deliveryVars)
<1> SUFFICES ASSUME IInv, [Next]_vars
             PROVE  Contract!DeliveryNext \/ UNCHANGED <<status, attempts, overlapped>>
  BY DEF Contract!deliveryVars
<1> USE DEF rowVars
<1>a. TypeOK /\ OwnershipInv /\ AccountInv
  BY DEF IInv
<1>b. \A j \in Jobs : MaxAttempts[j] \in Nat \ {0}
  BY JobsAssumption
<1>1. ASSUME NEW j \in Jobs, enqueue(j) PROVE Contract!Submit(j)
  BY <1>1 DEF enqueue, Contract!Submit
<1>13. ASSUME NEW j \in Jobs, enqueue_more(j) PROVE Contract!Resubmit(j)
  BY <1>13 DEF enqueue_more, Settled, Contract!Resubmit
<1>2. ASSUME NEW j \in Jobs, RunAtReached(j) PROVE UNCHANGED <<status, attempts, overlapped>>
  BY <1>2 DEF RunAtReached
<1>3. ASSUME NEW j \in Jobs, job_retry(j) PROVE Contract!Resubmit(j)
  <2>1. /\ status[j] # "absent"
        /\ status' = [status EXCEPT ![j] = "pending"]
        /\ attempts' = [attempts EXCEPT ![j] = 0]
        /\ overlapped' = IF Executing(j) THEN overlapped \cup {j} ELSE overlapped
    BY <1>3 DEF job_retry, IInv, OfferedPresent
  <2>2. Executing(j) /\ j \notin overlapped => status[j] = "running"
    BY <1>a DEF Executing, OwnershipInv, ExecutionOwnsRow
  <2>3. j \in overlapped => overlapped \cup {j} = overlapped
    OBVIOUS
  <2> QED BY <2>1, <2>2, <2>3 DEF Contract!Resubmit
<1>4. ASSUME NEW j \in Jobs, job_cancel(j) PROVE Contract!Withdraw(j)
  BY <1>4 DEF job_cancel, Contract!Withdraw
<1>5. ASSUME NEW w \in Workers, ClaimSelect(w) \/ Crash(w)
      PROVE  UNCHANGED <<status, attempts, overlapped>>
  BY <1>5 DEF ClaimSelect, Crash
<1>6. ASSUME NEW w \in Workers, ClaimUpdate(w) \/ ClaimAnswerLost(w)
      PROVE  Contract!Begin(locks[w])
  <2>1. \A j \in locks[w] : j \in Jobs /\ status[j] = "pending"
    BY <1>a DEF TypeOK, OwnershipInv, LockedRowsPending
  <2>2. \A j \in locks[w] : j \notin overlapped => attempts[j] < MaxAttempts[j]
    BY <2>1, <1>a DEF AccountInv, AttemptsAccounted
  <2> QED BY <1>6, <2>1, <2>2 DEF ClaimUpdate, ClaimAnswerLost, Contract!Begin
<1>7. ASSUME NEW e \in runs, RunHandler(e)
      PROVE  UNCHANGED <<status, attempts, overlapped>>
  BY <1>7 DEF RunHandler
<1>8. ASSUME NEW e \in runs, Outcome(e)
      PROVE  \/ Contract!Succeed(e.job) \/ Contract!TryAgain(e.job) \/ Contract!Bury(e.job)
             \/ Contract!Unpromised(e.job)
             \/ UNCHANGED <<status, attempts, overlapped>>
  <2>1. e.job \in Jobs /\ e.attempt \in Nat
    BY <1>a DEF TypeOK, Execution
  <2>2. CASE RecordNothing(e)
    BY <2>2 DEF RecordNothing
  <2>3. CASE ~RecordNothing(e) /\ e.job \in overlapped
    <3>1. PICK s \in Statuses : status' = [status EXCEPT ![e.job] = s]
      BY <1>8, <2>3 DEF Outcome, RecordSuccess, RecordDead, RecordRetry, Statuses
    <3>2. UNCHANGED <<attempts, overlapped>>
      BY <1>8, <2>3 DEF Outcome, RecordSuccess, RecordDead, RecordRetry
    <3> QED BY <2>1, <2>3, <3>1, <3>2, <1>a
            DEF Contract!Unpromised, Contract!Phases, TypeOK, Statuses
  <2>4. CASE ~RecordNothing(e) /\ e.job \notin overlapped
    <3>1. /\ status[e.job] = "running"
          /\ attempts[e.job] = e.attempt
          /\ attempts[e.job] <= MaxAttempts[e.job]
          /\ attempts[e.job] \in Nat
      BY <2>1, <2>4, <1>a DEF OwnershipInv, ExecutionOwnsRow, AccountInv, AttemptsAccounted, TypeOK
    <3>2. CASE RecordSuccess(e)
      BY <3>1, <3>2 DEF RecordSuccess, Contract!Succeed
    <3>3. CASE RecordDead(e)
      BY <2>1, <3>1, <3>3, <1>b DEF RecordDead, Contract!Bury
    <3>4. CASE RecordRetry(e)
      BY <2>1, <3>1, <3>4, <1>b DEF RecordRetry, Contract!TryAgain
    <3> QED BY <1>8, <2>4, <3>2, <3>3, <3>4 DEF Outcome
  <2> QED BY <2>2, <2>3, <2>4
<1>9. CASE jobs_list
  BY <1>9 DEF jobs_list
<1>10. CASE UNCHANGED vars
  BY <1>10 DEF vars
<1>11. \A w \in Workers : locks[w] \in SUBSET Jobs
  BY <1>a DEF TypeOK
<1>12. \A e \in runs : e.job \in Jobs
  BY <1>a DEF TypeOK, Execution
<1> QED BY <1>1, <1>2, <1>3, <1>4, <1>5, <1>6, <1>7, <1>8, <1>9, <1>10, <1>11, <1>12, <1>13
        DEF Next, Tick, Contract!DeliveryNext

\* Whatever the workers, the locks and the operator do, a producer sees the
\* state machine of JobDelivery.
THEOREM Delivery == Spec => Delivers
<1>1. Init => Contract!DeliveryInit
  BY ContractInit
<1>2. IInv /\ [Next]_vars => [Contract!DeliveryNext]_(Contract!deliveryVars)
  BY ContractStep
<1> QED BY <1>1, <1>2, IInvInit, IInvStep, PTL DEF Spec, Delivers, Contract!DeliverySpec

-----------------------------------------------------------------------------
(* Orphans *)

\* An attempt is counted before it is run.
RunsAttempted == \A e \in runs : e.attempt >= 1

StaffInv == TypeOK /\ RunsAttempted /\ OrphansNeedAFault

Enough(j) == \A n \in 1..(MaxAttempts[j] - 1) : BackoffFits(n)

\* Until the first fault a running row has its task.
LEMMA StaffMeans ==
    ASSUME StaffInv, crashes + lost = 0, NEW j \in Jobs, Enough(j), status[j] = "running"
    PROVE  Executing(j)
BY DEF StaffInv, OrphansNeedAFault, Orphan, Enough

LEMMA StaffInit == Init => StaffInv
BY TypeInit DEF Init, StaffInv, RunsAttempted, OrphansNeedAFault, Orphan

\* Steps that are not faults start tasks with the rows they set running, and
\* end tasks only with the rows they settle or put back.
LEMMA StaffStep == StaffInv /\ [Next]_vars => StaffInv'
<1> SUFFICES ASSUME StaffInv, [Next]_vars PROVE StaffInv'
  OBVIOUS
<1>1. TypeOK' /\ TypeOK /\ RunsAttempted
  BY TypeStep DEF StaffInv
<1>2. crashes' + lost' = 0 => crashes' = 0 /\ lost' = 0
  <2>1. crashes' \in Nat /\ lost' \in Nat
    BY <1>1, BoundsAssumption DEF TypeOK
  <2>2. \A a, b \in Nat : a + b = 0 => a = 0 /\ b = 0
    OBVIOUS
  <2> QED BY <2>1, <2>2
<1>3. SUFFICES RunsAttempted' /\ (crashes' = 0 /\ lost' = 0 =>
                  \A j \in Jobs : Enough(j) /\ status'[j] = "running" => \E e \in runs' : e.job = j)
  BY <1>1, <1>2 DEF StaffInv, OrphansNeedAFault, Orphan, Executing, Enough
<1>4. crashes = 0 /\ lost = 0 =>
          \A j \in Jobs : Enough(j) /\ status[j] = "running" => \E e \in runs : e.job = j
  BY StaffMeans DEF Executing
<1> DEFINE Staffed == RunsAttempted' /\ (crashes' = 0 /\ lost' = 0 =>
                  \A j \in Jobs : Enough(j) /\ status'[j] = "running" => \E e \in runs' : e.job = j)
<1>5. ASSUME NEW j \in Jobs, enqueue(j) \/ enqueue_more(j) \/ job_retry(j) \/ job_cancel(j) PROVE Staffed
  BY <1>1, <1>4, <1>5 DEF enqueue, enqueue_more, job_retry, job_cancel, TypeOK, RunsAttempted
<1>6. ASSUME UNCHANGED <<status, runs, crashes, lost>> PROVE Staffed
  BY <1>1, <1>4, <1>6 DEF RunsAttempted
<1>7. ASSUME NEW w \in Workers, ClaimUpdate(w) PROVE Staffed
  <2>1. \A j \in locks[w] : /\ attempts[j] \in Nat
                            /\ [worker |-> w, job |-> j, attempt |-> attempts[j] + 1, result |-> "none"] \in runs'
    BY <1>1, <1>7 DEF ClaimUpdate, TypeOK
  <2>2. \A e \in runs' : e \in runs \/ \E j \in locks[w] : e.attempt = attempts[j] + 1
    BY <1>7 DEF ClaimUpdate
  <2>3. RunsAttempted'
    <3>1. \A j \in locks[w] : attempts[j] \in Nat
      BY <2>1
    <3>2. ASSUME NEW e \in runs' PROVE e.attempt >= 1
      BY <1>1, <2>2, <3>1 DEF RunsAttempted
    <3> QED BY <3>2 DEF RunsAttempted
  <2>4. /\ runs \subseteq runs' /\ crashes' = crashes /\ lost' = lost
        /\ \A j \in Jobs \ locks[w] : status'[j] = status[j]
    BY <1>7 DEF ClaimUpdate
  <2>5. \A j \in locks[w] : \E e \in runs' : e.job = j
    BY <2>1
  <2> QED BY <1>4, <2>3, <2>4, <2>5
<1>8. ASSUME NEW w \in Workers, ClaimAnswerLost(w) \/ Crash(w) PROVE Staffed
  BY <1>1, <1>8 DEF ClaimAnswerLost, Crash, TypeOK, RunsAttempted
<1>9. ASSUME NEW e \in runs, RunHandler(e) PROVE Staffed
  <2> PICK x \in Execution : runs' = (runs \ {e}) \cup {x} /\ x.job = e.job /\ x.attempt = e.attempt
    BY <1>1, <1>9, RunHandlerFacts
  <2>1. UNCHANGED <<status, crashes, lost>>
    BY <1>9 DEF RunHandler, rowVars
  <2>2. \A f \in runs : \E g \in runs' : g.job = f.job
    OBVIOUS
  <2> QED BY <1>1, <1>4, <2>1, <2>2 DEF RunsAttempted
<1>10. ASSUME NEW e \in runs, RecordSuccess(e) \/ RecordDead(e) \/ RecordRetry(e) PROVE Staffed
  <2>1. /\ runs' = runs \ {e} /\ UNCHANGED <<crashes, lost>> /\ e.job \in Jobs
        /\ status'[e.job] # "running" /\ \A j \in Jobs \ {e.job} : status'[j] = status[j]
    BY <1>1, <1>10 DEF RecordSuccess, RecordDead, RecordRetry, TypeOK, Execution
  <2> QED BY <1>1, <1>4, <2>1 DEF RunsAttempted
<1>11. ASSUME NEW e \in runs, RecordNothing(e) PROVE Staffed
  <2>1. /\ runs' = runs \ {e} /\ status' = status /\ crashes' = crashes /\ e.job \in Jobs /\ e.attempt \in Nat
        /\ e.attempt >= 1 /\ MaxAttempts[e.job] \in Nat
    BY <1>1, <1>11, JobsAssumption DEF RecordNothing, rowVars, TypeOK, Execution, RunsAttempted
  <2>2. CASE lost' = lost + 1
    BY <1>1, <2>1, <2>2 DEF TypeOK, RunsAttempted
  <2>3. CASE lost' = lost /\ e.attempt < MaxAttempts[e.job] /\ ~BackoffFits(e.attempt)
    <3>1. ~Enough(e.job)
      BY <2>1, <2>3 DEF Enough
    <3>2. \A j \in Jobs : (\E f \in runs : f.job = j) => j = e.job \/ \E f \in runs' : f.job = j
      BY <2>1
    <3> QED BY <1>1, <1>4, <2>1, <2>3, <3>1, <3>2 DEF RunsAttempted
  <2> QED BY <1>11, <2>2, <2>3 DEF RecordNothing
<1>12. ASSUME \/ \E j \in Jobs : RunAtReached(j)
              \/ \E w \in Workers : ClaimSelect(w)
              \/ jobs_list \/ UNCHANGED vars
       PROVE  UNCHANGED <<status, runs, crashes, lost>>
  BY <1>12 DEF RunAtReached, ClaimSelect, jobs_list, vars, rowVars
<1> HIDE DEF Staffed
<1>13. Staffed
  BY <1>5, <1>6, <1>7, <1>8, <1>9, <1>10, <1>11, <1>12 DEF Next, Tick, Outcome
<1> QED BY <1>13 DEF Staffed

\* tick and run_one: no job is left in running without a task as long as no
\* process dies and every statement is answered, unless its backoff does not
\* fit an integer.
THEOREM Staffing == Spec => []OrphansNeedAFault
<1>1. StaffInv => OrphansNeedAFault
  BY DEF StaffInv
<1> QED BY <1>1, StaffInit, StaffStep, PTL DEF Spec
=============================================================================
