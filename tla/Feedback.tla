------------------------------ MODULE Feedback ------------------------------
(***************************************************************************)
(* POST /v1/submissions/{id}/feedback: LearnerRepository.request_feedback  *)
(* inside the envelope _idempotent, for concurrent requests of one member  *)
(* for the submissions of one problem, the scope of the free first request.*)
(*                                                                         *)
(* The quota is checked in one transaction, under an advisory lock that    *)
(* ends with it, and the request is reserved in the next one.  The stub    *)
(* provider answers inside the request; the external provider is left to a *)
(* worker that the repository does not contain.  Faults are as in          *)
(* SubmissionService: "db" and "crash".                                    *)
(*                                                                         *)
(* The submissions are given: they are in the table, however they came     *)
(* there (SubmissionService, InsertBinds).                                 *)
(***************************************************************************)
EXTENDS Naturals, FiniteSets, FiniteSetsExt

CONSTANTS
    Requests,
    Submissions,
    Keys,
    SubmissionOf,   \* SubmissionOf[r]: the submission request r is about
    KeyOf,          \* KeyOf[r]: its Idempotency-Key, the operation_key
    Assessed,       \* the submissions that have a submission_results row
    Faults,
    None

JobStates == {"pending", "succeeded", "failed"}

Codes == {"IDEMPOTENCY_IN_PROGRESS", "SUBMISSION_NOT_ASSESSED",
          "FEEDBACK_IN_PROGRESS", "REWARDED_ADS_DISABLED", "INTERNAL_ERROR"}

\* The next transaction of a handler, or how it ended.
Points == {"start", "check", "reserve", "queued", "unavailable", "generate", "lock",
           "finalize", "invalid", "internal", "failed", "succeeded", "answered",
           "gone"}

Claims  == [by : Requests, outcome : JobStates \cup {None}]
Tickets == [by : Requests, state : JobStates]

ASSUME FeedbackAssumption ==
    /\ IsFiniteSet(Requests)
    /\ SubmissionOf \in [Requests -> Submissions]
    /\ KeyOf \in [Requests -> Keys]
    /\ Assessed \subseteq Submissions
    /\ Faults \subseteq {"db", "crash"}
    /\ None \notin Requests \cup JobStates \cup Codes \cup Claims \cup Tickets

VARIABLES
    mode,      \* llm_mode
    premium,   \* the member has an active premium entitlement
    pc,        \* pc[r]: the next transaction of request r
    reply,     \* reply[r]: the job state or the error answered, or None
    record,    \* private.idempotency_records: who claimed <<s, k>>, and the
               \* response it stored
    ticket,    \* private.feedback_requests, by operation_key
    job,       \* private.jobs: the state of the job of request r, or None
    versions,  \* public.feedback_versions: [submission, version, by]
    locked,    \* locked[s]: who holds the row lock of submission s
    number,    \* number[r]: the version number read under the lock
    free       \* the requests that were admitted without a premium entitlement

tables == <<record, ticket, job, versions>>
vars == <<mode, premium, pc, reply, tables, locked, number, free>>

Place(r) == <<SubmissionOf[r], KeyOf[r]>>

Init ==
    /\ mode \in {"stub", "groq", "unavailable"}
    /\ premium \in BOOLEAN
    /\ pc = [r \in Requests |-> "start"]
    /\ reply = [r \in Requests |-> None]
    /\ record = [p \in Submissions \X Keys |-> None]
    /\ ticket = [k \in Keys |-> None]
    /\ job = [r \in Requests |-> None]
    /\ versions = {}
    /\ locked = [s \in Submissions |-> None]
    /\ number = [r \in Requests |-> 0]
    /\ free = {}

Goto(r, s) == pc' = [pc EXCEPT ![r] = s]

Respond(r, outcome) ==
    /\ Goto(r, "answered")
    /\ reply' = [reply EXCEPT ![r] = outcome]

-----------------------------------------------------------------------------
(* The envelope, reduced to what feedback needs of it (SubmissionService   *)
(* models its transactions one by one).                                    *)

Start(r) ==
    /\ pc[r] = "start"
    /\ \/ /\ record[Place(r)] = None
          /\ record' = [record EXCEPT ![Place(r)] = [by |-> r, outcome |-> None]]
          /\ Goto(r, "check")
          /\ UNCHANGED reply
       \/ /\ record[Place(r)] # None
          /\ Respond(r, IF record[Place(r)].outcome = None
                        THEN "IDEMPOTENCY_IN_PROGRESS"
                        ELSE record[Place(r)].outcome)
          /\ UNCHANGED record
    /\ UNCHANGED <<mode, premium, ticket, job, versions, locked, number, free>>

\* The action returned a job: the envelope stores and sends it.
Complete(r, outcome) ==
    /\ Respond(r, outcome)
    /\ record' = [record EXCEPT ![Place(r)] = [by |-> r, outcome |-> outcome]]

\* Mutant: the envelope stores an error as it stores a job.
RaiseAndStore(r, code) ==
    /\ Respond(r, code)
    /\ record' = [record EXCEPT ![Place(r)] = [by |-> r, outcome |-> code]]

\* The action raised: the envelope deletes its record and re-raises.
Raise(r, code) ==
    /\ Respond(r, code)
    /\ record' = [record EXCEPT ![Place(r)] = None]

-----------------------------------------------------------------------------
(* The quota.                                                              *)

HasFeedback == versions # {}
HasPending  == \E k \in Keys : ticket[k] # None /\ ticket[k].state = "pending"

CheckQuota(r) ==
    /\ pc[r] = "check"
    /\ \/ /\ SubmissionOf[r] \notin Assessed
          /\ Raise(r, "SUBMISSION_NOT_ASSESSED")
          /\ UNCHANGED free
       \/ /\ SubmissionOf[r] \in Assessed
          /\ HasPending
          /\ Raise(r, "FEEDBACK_IN_PROGRESS")
          /\ UNCHANGED free
       \/ /\ SubmissionOf[r] \in Assessed
          /\ ~ HasPending /\ HasFeedback /\ ~ premium
          /\ Raise(r, "REWARDED_ADS_DISABLED")
          /\ UNCHANGED free
       \/ /\ SubmissionOf[r] \in Assessed
          /\ ~ HasPending /\ (HasFeedback => premium)
          /\ free' = IF premium THEN free ELSE free \cup {r}
          /\ Goto(r, "reserve")
          /\ UNCHANGED <<reply, record>>
    /\ UNCHANGED <<mode, premium, ticket, job, versions, locked, number>>

\* Insert the request and its job.  An operation_key is used once per member:
\* a retry of a key whose first attempt failed is an HTTP 500.
Reserve(r) ==
    /\ pc[r] = "reserve"
    /\ \/ /\ ticket[KeyOf[r]] # None
          /\ Raise(r, "INTERNAL_ERROR")
          /\ UNCHANGED <<ticket, job>>
       \/ /\ ticket[KeyOf[r]] = None
          /\ ticket' = [ticket EXCEPT ![KeyOf[r]] = [by |-> r, state |-> "pending"]]
          /\ job' = [job EXCEPT ![r] = "pending"]
          /\ \/ mode = "groq" /\ Goto(r, "queued")
             \/ mode = "unavailable" /\ Goto(r, "unavailable")
             \/ mode = "stub" /\ Goto(r, "generate")
          /\ UNCHANGED <<reply, record>>
    /\ UNCHANGED <<mode, premium, versions, locked, number, free>>

-----------------------------------------------------------------------------
(* Generation and its outcomes.                                            *)

\* Mutant: only the job is marked.
SettleJobOnly(r, state) ==
    /\ job' = [job EXCEPT ![r] = state]
    /\ UNCHANGED ticket

\* Mutant: only the request is marked.
SettleTicketOnly(r, state) ==
    /\ ticket' = [ticket EXCEPT ![KeyOf[r]].state = state]
    /\ UNCHANGED job

\* The job and the request are marked in one transaction.  The statements name
\* the request by its operation key alone, which is unique per member only; the
\* member is one here.
Settle(r, state) ==
    /\ job' = [job EXCEPT ![r] = state]
    /\ ticket' = [ticket EXCEPT ![KeyOf[r]].state = state]

\* The external provider: the job stays pending.
AnswerPending(r) ==
    /\ pc[r] = "queued"
    /\ Complete(r, "pending")
    /\ UNCHANGED <<mode, premium, ticket, job, versions, locked, number, free>>

\* No provider: the request fails, and the failure is a stored answer.
MarkUnavailable(r) ==
    /\ pc[r] = "unavailable"
    /\ Settle(r, "failed")
    /\ Goto(r, "failed")
    /\ UNCHANGED <<mode, premium, reply, record, versions, locked, number, free>>

\* The provider's text is validated before it is stored.
Generate(r) ==
    /\ pc[r] = "generate"
    /\ \/ Goto(r, "lock")
       \/ Goto(r, "invalid")
    /\ UNCHANGED <<mode, premium, reply, tables, locked, number, free>>

VersionsOf(s) == { v \in versions : v.submission = s }

\* Mutant: the submission is read without FOR UPDATE.
ReadWithoutLock(r) == UNCHANGED locked

TakeLock(r) ==
    /\ locked[SubmissionOf[r]] = None
    /\ locked' = [locked EXCEPT ![SubmissionOf[r]] = r]

\* SELECT ... FOR UPDATE of the submission, then max(version) + 1.
LockSubmission(r) ==
    /\ pc[r] = "lock"
    /\ TakeLock(r)
    /\ number' = [number EXCEPT ![r] =
                    1 + Max({0} \cup { v.version : v \in VersionsOf(SubmissionOf[r]) })]
    /\ Goto(r, "finalize")
    /\ UNCHANGED <<mode, premium, reply, tables, free>>

Unlocked(r) ==
    [locked EXCEPT ![SubmissionOf[r]] = IF @ = r THEN None ELSE @]

Collides(r) ==
    \E v \in VersionsOf(SubmissionOf[r]) : v.version = number[r]

AddVersion(r) ==
    versions' = versions \cup {[submission |-> SubmissionOf[r],
                                version |-> number[r], by |-> r]}

\* Insert the version and settle; a taken version number raises.
Finalize(r) ==
    /\ pc[r] = "finalize"
    /\ \/ /\ ~ Collides(r)
          /\ AddVersion(r)
          /\ Settle(r, "succeeded")
          /\ Goto(r, "succeeded")
       \/ /\ Collides(r)
          /\ Goto(r, "internal")
          /\ UNCHANGED <<versions, ticket, job>>
    /\ locked' = Unlocked(r)
    /\ UNCHANGED <<mode, premium, reply, record, number, free>>

\* except (FeedbackOutputError, ValueError): a failed job is the answer.
MarkInvalid(r) ==
    /\ pc[r] = "invalid"
    /\ Settle(r, "failed")
    /\ Goto(r, "failed")
    /\ UNCHANGED <<mode, premium, reply, record, versions, locked, number, free>>

\* The stored answer of a settled job.
AnswerJob(r) ==
    /\ pc[r] \in {"failed", "succeeded"}
    /\ Complete(r, pc[r])
    /\ UNCHANGED <<mode, premium, ticket, job, versions, locked, number, free>>

\* Mutant: any exception is answered as a failed job.
AnswerInternalAsFailed(r) ==
    /\ pc[r] = "internal"
    /\ Settle(r, "failed")
    /\ Complete(r, "failed")
    /\ UNCHANGED <<mode, premium, versions, locked, number, free>>

\* except Exception: the job is marked failed and the exception re-raised.
MarkInternal(r) ==
    /\ pc[r] = "internal"
    /\ Settle(r, "failed")
    /\ Raise(r, "INTERNAL_ERROR")
    /\ UNCHANGED <<mode, premium, versions, locked, number, free>>

-----------------------------------------------------------------------------
(* Faults and environment.                                                 *)

\* A transaction raises.  Inside the try of the generation the handler goes
\* on to mark the job; elsewhere in request_feedback the exception leaves it
\* through the envelope; in the envelope's own statements it leaves that too.
TransactionFails(r) ==
    /\ "db" \in Faults
    /\ \/ /\ pc[r] \in {"lock", "finalize"}
          /\ Goto(r, "internal")
          /\ UNCHANGED <<reply, record>>
       \/ /\ pc[r] \in {"check", "reserve", "unavailable", "invalid", "internal"}
          /\ Raise(r, "INTERNAL_ERROR")
       \/ /\ pc[r] \in {"start", "queued", "failed", "succeeded"}
          /\ Respond(r, "INTERNAL_ERROR")
          /\ UNCHANGED record
    /\ locked' = Unlocked(r)
    /\ UNCHANGED <<mode, premium, ticket, job, versions, number, free>>

\* The final transaction commits and its acknowledgement is lost.
FinalizeUnacknowledged(r) ==
    /\ "db" \in Faults
    /\ pc[r] = "finalize"
    /\ ~ Collides(r)
    /\ AddVersion(r)
    /\ Settle(r, "succeeded")
    /\ Goto(r, "internal")
    /\ locked' = Unlocked(r)
    /\ UNCHANGED <<mode, premium, reply, record, number, free>>

\* The process dies; the server rolls an open transaction back.
Abandon(r) ==
    /\ "crash" \in Faults
    /\ pc[r] \notin {"answered", "gone"}
    /\ Goto(r, "gone")
    /\ locked' = Unlocked(r)
    /\ UNCHANGED <<mode, premium, reply, tables, number, free>>

PremiumChanges ==
    /\ premium' = ~ premium
    /\ UNCHANGED <<mode, pc, reply, tables, locked, number, free>>

Step(r) ==
    \/ Start(r)
    \/ CheckQuota(r)
    \/ Reserve(r)
    \/ AnswerPending(r)
    \/ MarkUnavailable(r)
    \/ Generate(r)
    \/ LockSubmission(r)
    \/ Finalize(r)
    \/ MarkInvalid(r)
    \/ MarkInternal(r)
    \/ AnswerJob(r)

Next ==
    \/ \E r \in Requests :
          \/ Step(r)
          \/ TransactionFails(r)
          \/ FinalizeUnacknowledged(r)
          \/ Abandon(r)
    \/ PremiumChanges

\* Running handlers make progress; row locks are granted in turn.
Spec == Init /\ [][Next]_vars /\ \A r \in Requests : SF_vars(Step(r))

-----------------------------------------------------------------------------
(* Properties.                                                             *)

\* The tables and handlers keep their types; a submission has no more versions
\* than requests were made, and only jobs are stored as answers.
TypeOK ==
    /\ pc \in [Requests -> Points]
    /\ reply \in [Requests -> JobStates \cup Codes \cup {None}]
    /\ record \in [Submissions \X Keys -> Claims \cup {None}]
    /\ ticket \in [Keys -> Tickets \cup {None}]
    /\ job \in [Requests -> JobStates \cup {None}]
    /\ versions \subseteq
          [submission : Submissions, version : 1..Cardinality(Requests), by : Requests]
    /\ locked \in [Submissions -> Requests \cup {None}]
    /\ number \in [Requests -> Nat]

\* The job the member polls and the request the quota looks at never
\* disagree: whichever way a request ends, both say the same.
JobMatchesRequest ==
    \A r \in Requests :
       job[r] # None =>
          /\ ticket[KeyOf[r]].by = r
          /\ ticket[KeyOf[r]].state = job[r]

\* An answer tells the truth about the feedback: "succeeded" means that this
\* operation stored a version, "failed" that it did not.
AnswersAreTruthful ==
    \A r \in Requests :
       LET stored == \E v \in versions : KeyOf[v.by] = KeyOf[r]
                                         /\ v.submission = SubmissionOf[r]
       IN  /\ reply[r] = "succeeded" => stored
           /\ reply[r] = "failed" => ~ stored

\* Two generations for one submission never take the same version number.
VersionsNeverCollide ==
    \A r \in Requests : pc[r] = "finalize" => ~ Collides(r)

\* A reservation blocks the member's next request until it is settled, and every
\* way out of the generation settles it: what the branches of request_feedback
\* see to themselves.  They cannot after a dead process or a lost transaction,
\* and a job for the external worker is left to that worker; the design promises
\* more (docs/db/decisions.md:47, "Failure releases reservation ... A lease/
\* reconciliation path repairs process death"), and the code has no such path.
ReservationIsSettled ==
    \A r \in Requests :
       LET reserves == ticket[KeyOf[r]] = [by |-> r, state |-> "pending"]
       IN  reserves ~> \/ ~ reserves
                       \/ mode = "groq"
                       \/ pc[r] = "gone"
                       \/ reply[r] = "INTERNAL_ERROR"

\* The quota the design states ("reserve first-free/reward entitlement once"):
\* at most one feedback per problem is delivered without an entitlement.
FirstIsFreeOnce ==
    Cardinality({ v \in versions : v.by \in free }) <= 1
=============================================================================
