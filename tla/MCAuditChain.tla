---------------------------- MODULE MCAuditChain ----------------------------
(* Four entries of one tenant, whose database has a chain of its own; the
   pool of that database may be missing, and its entries then go to the
   primary. An entry without a tenant goes to the primary.                 *)
EXTENDS AuditChain, TLC

CONSTANTS primary, tenant, login

MCRoute == [e \in Entries |-> IF e = login THEN {primary} ELSE {tenant, primary}]

EntrySymmetry == Permutations(Entries \ {login})
=============================================================================
