---------------------------- MODULE AuditLedger ----------------------------
(***************************************************************************)
(* What the audit storage promises: every chain is a history that only     *)
(* grows, one entry at a time, at its end; an entry enters one history at  *)
(* most once; and an entry whose write was acknowledged is in one.         *)
(***************************************************************************)
EXTENDS Sequences

CONSTANTS Entries, Chains

VARIABLES history,      \* history[c]: the entries of chain c, oldest first
          entered,      \* entries that are in a history
          acknowledged  \* entries whose writer was told Ok

ledgerVars == <<history, entered, acknowledged>>

LedgerInit ==
    /\ history = [c \in Chains |-> <<>>]
    /\ entered = {}
    /\ acknowledged = {}

\* The writer is told, or its connection drops before the answer arrives.
Enter(c, e) ==
    /\ e \notin entered
    /\ history' = [history EXCEPT ![c] = Append(@, e)]
    /\ entered' = entered \cup {e}
    /\ acknowledged' \in {acknowledged, acknowledged \cup {e}}

LedgerNext == \E c \in Chains, e \in Entries : Enter(c, e)

LedgerSpec == LedgerInit /\ [][LedgerNext]_ledgerVars

=============================================================================
