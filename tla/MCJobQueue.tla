----------------------------- MODULE MCJobQueue -----------------------------
(* Two server processes and up to three jobs: j1 and j2 yield to j3 and
   have three and two attempts, j3 one. With IntMax = 3 the backoff after the second
   attempt overflows, as the one after the 31st does in 32 bits.              *)
EXTENDS JobQueue

CONSTANTS j1, j2, j3

MCMaxAttempts == [j \in Jobs |-> CASE j = j1 -> 3 [] j = j2 -> 2 [] OTHER -> 1]
MCPriority == [j \in Jobs |-> IF j = j3 THEN 10 ELSE 0]
=============================================================================
