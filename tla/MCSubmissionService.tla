------------------------ MODULE MCSubmissionService -------------------------
(* One key: two attempts at one submission (a retry, or two tabs) and a      *)
(* request that reuses the key for another payload.  An assessment ends in a *)
(* pass, in a miss, or in a failure because Jev is unavailable.              *)
EXTENDS SubmissionService

CONSTANTS r1, r2, r3, k1, d1, d2

MCKeyOf == [r \in Requests |-> k1]
MCDigestOf == [r \in Requests |-> IF r = r3 THEN d2 ELSE d1]
MCVerdicts == {"passed", "missed", "failed"}
=============================================================================
