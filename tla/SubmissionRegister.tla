------------------------- MODULE SubmissionRegister -------------------------
(***************************************************************************)
(* What POST /v1/submissions promises a member, whatever the server does   *)
(* inside: an idempotency key is bound to at most one accepted submission, *)
(* which never changes again; every successful answer for the key carries  *)
(* that submission; a request is told that its key was reused only when    *)
(* the key really was sent with another payload; and a definite refusal is *)
(* truthful: the refused request has not been accepted behind the          *)
(* member's back.  Only an internal error leaves the member in doubt.      *)
(***************************************************************************)
CONSTANTS
    Requests,   \* the HTTP requests the members' browsers send
    Keys,       \* idempotency keys (of one user and one operation)
    Digests,    \* canonical digests of the request payload
    Verdicts,   \* how an assessment can end
    KeyOf,      \* KeyOf[r] is the Idempotency-Key header of request r
    DigestOf,   \* DigestOf[r] is the digest of the body of request r
    None

VARIABLES
    accepted,   \* accepted[k] is the submission bound to key k, or None
    answer      \* answer[r] is what request r was told, or None

Submissions == [id : Requests, digest : Digests, verdict : Verdicts]

DefiniteRefusals ==
    {"LEARNING_ACCESS_REQUIRED", "IDEMPOTENCY_KEY_REUSED",
     "IDEMPOTENCY_IN_PROGRESS", "PROBLEM_VERSION_NOT_FOUND",
     "SUBMISSION_NOT_VISIBLE", "ASSESSMENT_INVALID"}

Success(row) == [code |-> "OK", row |-> row]
Refusal(c)   == [code |-> c, row |-> None]

vars == <<accepted, answer>>

Init ==
    /\ accepted = [k \in Keys |-> None]
    /\ answer = [r \in Requests |-> None]

AcceptSubmission(r) ==
    /\ accepted[KeyOf[r]] = None
    /\ answer[r] = None
    /\ \E v \in Verdicts :
          accepted' = [accepted EXCEPT ![KeyOf[r]] =
                         [id |-> r, digest |-> DigestOf[r], verdict |-> v]]
    /\ UNCHANGED answer

AnswerWithSubmission(r) ==
    /\ answer[r] = None
    /\ accepted[KeyOf[r]] # None
    /\ accepted[KeyOf[r]].digest = DigestOf[r]
    /\ answer' = [answer EXCEPT ![r] = Success(accepted[KeyOf[r]])]
    /\ UNCHANGED accepted

AcceptedFrom(r) ==
    /\ accepted[KeyOf[r]] # None
    /\ accepted[KeyOf[r]].id = r

KeyWasReused(r) ==
    \E q \in Requests : KeyOf[q] = KeyOf[r] /\ DigestOf[q] # DigestOf[r]

RefuseRequest(r, c) ==
    /\ answer[r] = None
    /\ ~ AcceptedFrom(r)
    /\ c = "IDEMPOTENCY_KEY_REUSED" => KeyWasReused(r)
    /\ answer' = [answer EXCEPT ![r] = Refusal(c)]
    /\ UNCHANGED accepted

ReportInternalError(r) ==
    /\ answer[r] = None
    /\ answer' = [answer EXCEPT ![r] = Refusal("INTERNAL_ERROR")]
    /\ UNCHANGED accepted

Next ==
    \E r \in Requests :
       \/ AcceptSubmission(r)
       \/ AnswerWithSubmission(r)
       \/ \E c \in DefiniteRefusals : RefuseRequest(r, c)
       \/ ReportInternalError(r)

Spec == Init /\ [][Next]_vars
=============================================================================
