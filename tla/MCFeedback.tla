----------------------------- MODULE MCFeedback -----------------------------
(* Two submissions of one problem: two requests for the first, a retry that  *)
(* repeats the key of the first request, and one for the other submission.   *)
EXTENDS Feedback

CONSTANTS r1, r2, r3, r4, s1, s2, k1, k2, k3

MCSubmissionOf == [r \in Requests |-> IF r = r4 THEN s2 ELSE s1]
MCKeyOf == [r \in Requests |->
              CASE r \in {r1, r3} -> k1 [] r = r2 -> k2 [] OTHER -> k3]
=============================================================================
