------------------------- MODULE SubmissionService --------------------------
(***************************************************************************)
(* POST /v1/submissions: the idempotency envelope _idempotent of           *)
(* learner_routes.py around LearnerRepository.create_submission of         *)
(* learner.py, for any number of concurrent requests of one user.  An      *)
(* action is one database transaction, the granularity at which requests   *)
(* interleave; the Jev call between two of them holds no transaction.  The *)
(* first transaction of the envelope is two actions, for under READ        *)
(* COMMITTED the row its SELECT did not find may exist when it INSERTs.    *)
(*                                                                         *)
(* Faults: "db" is a transaction that raises, before or after its commit   *)
(* took effect (a connection lost while COMMIT is in flight); "crash" is   *)
(* the death of the process or the cancellation of the handler, neither of *)
(* which `except Exception` sees.                                          *)
(***************************************************************************)
CONSTANTS
    Requests, Keys, Digests, Verdicts, KeyOf, DigestOf, None,
    Faults,     \* which faults may happen, a subset of {"db", "crash"}
    InsertBinds \* the INSERT of a submission has a placeholder for each of
                \* its parameters (as the code stands it has 13 for 14)

ASSUME ServiceAssumption ==
    /\ KeyOf \in [Requests -> Keys]
    /\ DigestOf \in [Requests -> Digests]
    /\ Faults \subseteq {"db", "crash"}
    /\ InsertBinds \in BOOLEAN

VARIABLES
    pc,          \* pc[r]: the next transaction of request r
    held,        \* held[r]: the result or the exception request r carries
    record,      \* private.idempotency_records, by key
    submission,  \* public.submissions, by (user_id, idempotency_key)
    reply,       \* reply[r]: the HTTP answer, None until it is sent
    canLearn     \* public.can_learn() of the user

vars == <<pc, held, record, submission, reply, canLearn>>

(***************************************************************************)
(* The abstract register this service implements.                          *)
(***************************************************************************)
Register == INSTANCE SubmissionRegister WITH accepted <- submission,
                                             answer <- reply

Success(row) == [code |-> "OK", row |-> row]
Refusal(c)   == [code |-> c, row |-> None]

Submissions == [id : Requests, digest : Digests, verdict : Verdicts]
Codes == Register!DefiniteRefusals \cup {"OK", "INTERNAL_ERROR"}
Replies == [code : Codes, row : Submissions \cup {None}]
IdempotencyRecords == [digest : Digests, response : Replies \cup {None}]

ASSUME NoneAssumption ==
    /\ None \notin Submissions
    /\ None \notin Replies
    /\ None \notin IdempotencyRecords

(***************************************************************************)
(* A request is inside the envelope's action, or about to store or undo    *)
(* it, in the Executing states: it owns the idempotency record of its key. *)
(***************************************************************************)
InAction  == {"find", "rubric", "assess", "insert", "replay"}
Executing == InAction \cup {"store", "undo"}
Finished  == {"replied", "gone"}
States    == {"received", "lookup", "claim"} \cup Executing \cup Finished

Init ==
    /\ pc = [r \in Requests |-> "received"]
    /\ held = [r \in Requests |-> None]
    /\ record = [k \in Keys |-> None]
    /\ submission = [k \in Keys |-> None]
    /\ reply = [r \in Requests |-> None]
    /\ canLearn = TRUE

-----------------------------------------------------------------------------
Goto(r, s) == pc' = [pc EXCEPT ![r] = s]

\* Mutant: the answer is sent and the handler keeps running.
RespondAndContinue(r, outcome) ==
    /\ UNCHANGED pc
    /\ reply' = [reply EXCEPT ![r] = outcome]

Respond(r, outcome) ==
    /\ Goto(r, "replied")
    /\ reply' = [reply EXCEPT ![r] = outcome]

\* An exception inside action(): the envelope catches it and undoes its claim.
Raise(r, c) ==
    /\ Goto(r, "undo")
    /\ held' = [held EXCEPT ![r] = Refusal(c)]

\* The learning_principal dependency, evaluated before the handler runs.
Admit(r) ==
    /\ pc[r] = "received"
    /\ \/ canLearn /\ Goto(r, "lookup") /\ UNCHANGED reply
       \/ ~canLearn /\ Respond(r, Refusal("LEARNING_ACCESS_REQUIRED"))
    /\ UNCHANGED <<held, record, submission, canLearn>>

\* Mutant: the digest of the found record is not compared.
LookupRecordByKeyOnly(r) ==
    LET found == record[KeyOf[r]] IN
    /\ pc[r] = "lookup"
    /\ \/ found = None /\ Goto(r, "claim") /\ UNCHANGED reply
       \/ /\ found # None
          /\ Respond(r, IF found.response = None
                        THEN Refusal("IDEMPOTENCY_IN_PROGRESS")
                        ELSE found.response)
    /\ UNCHANGED <<held, record, submission, canLearn>>

\* SELECT ... FOR UPDATE of the record; replay, refuse, or go on to claim it.
LookupRecord(r) ==
    LET found == record[KeyOf[r]] IN
    /\ pc[r] = "lookup"
    /\ \/ /\ found = None
          /\ Goto(r, "claim")
          /\ UNCHANGED reply
       \/ /\ found # None
          /\ found.digest # DigestOf[r]
          /\ Respond(r, Refusal("IDEMPOTENCY_KEY_REUSED"))
       \/ /\ found # None
          /\ found.digest = DigestOf[r]
          /\ found.response = None
          /\ Respond(r, Refusal("IDEMPOTENCY_IN_PROGRESS"))
       \/ /\ found # None
          /\ found.digest = DigestOf[r]
          /\ found.response # None
          /\ Respond(r, found.response)
    /\ UNCHANGED <<held, record, submission, canLearn>>

\* The plain INSERT of the record.  Its primary key lets one request win; the
\* unique violation of the others is raised outside the try: an HTTP 500.
InsertRecord(r) ==
    record' = [record EXCEPT ![KeyOf[r]] =
                 [digest |-> DigestOf[r], response |-> None]]

\* Mutant: the record is claimed by an upsert.
ClaimRecordByUpsert(r) ==
    /\ pc[r] = "claim"
    /\ InsertRecord(r)
    /\ Goto(r, "find")
    /\ UNCHANGED <<held, submission, reply, canLearn>>

ClaimRecord(r) ==
    /\ pc[r] = "claim"
    /\ \/ /\ record[KeyOf[r]] = None
          /\ InsertRecord(r)
          /\ Goto(r, "find")
          /\ UNCHANGED reply
       \/ /\ record[KeyOf[r]] # None
          /\ Respond(r, Refusal("INTERNAL_ERROR"))
          /\ UNCHANGED record
    /\ UNCHANGED <<held, submission, canLearn>>

-----------------------------------------------------------------------------
(* create_submission, the action the envelope runs.                        *)

\* Mutant: the existing row is replayed to whoever presents its key.
ResumeFromAnyPayload(r, row) ==
    Goto(r, "replay") /\ UNCHANGED held

\* The authoritative row for the key, if an earlier attempt committed it.
ResumeFrom(r, row) ==
    IF row.digest = DigestOf[r]
    THEN Goto(r, "replay") /\ UNCHANGED held
    ELSE Raise(r, "IDEMPOTENCY_KEY_REUSED")

FindSubmission(r) ==
    LET row == submission[KeyOf[r]] IN
    /\ pc[r] = "find"
    /\ IF row = None
       THEN Goto(r, "rubric") /\ UNCHANGED held
       ELSE ResumeFrom(r, row)
    /\ UNCHANGED <<record, submission, reply, canLearn>>

\* Rubric and problem are read as the user: row security hides them from an
\* account that lost learning access.
ReadRubric(r) ==
    /\ pc[r] = "rubric"
    /\ IF canLearn
       THEN Goto(r, "assess") /\ UNCHANGED held
       ELSE Raise(r, "PROBLEM_VERSION_NOT_FOUND")
    /\ UNCHANGED <<record, submission, reply, canLearn>>

\* Static rules, Jev and the scoring core, outside any transaction.  What Jev
\* answers is not determined by the payload: two runs may disagree.
Assess(r) ==
    /\ pc[r] = "assess"
    /\ \/ \E v \in Verdicts :
            /\ held' = [held EXCEPT ![r] =
                 Success([id |-> r, digest |-> DigestOf[r], verdict |-> v])]
            /\ Goto(r, "insert")
       \/ Raise(r, "ASSESSMENT_INVALID")
    /\ UNCHANGED <<record, submission, reply, canLearn>>

\* INSERT ... ON CONFLICT (user_id, idempotency_key) DO NOTHING, and the
\* result rows, in one transaction.  A statement whose placeholders do not
\* match its parameters is refused by the driver before it is sent.
InsertRow(r) ==
    submission' = [submission EXCEPT ![KeyOf[r]] = held[r].row]

\* Mutant: the stored row is read back through get_submission.
StoreSubmissionAndReadBack(r) ==
    /\ pc[r] = "insert"
    /\ InsertBinds
    /\ submission[KeyOf[r]] = None
    /\ InsertRow(r)
    /\ Goto(r, "replay")
    /\ UNCHANGED <<held, record, reply, canLearn>>

StoreSubmission(r) ==
    LET row == submission[KeyOf[r]] IN
    /\ pc[r] = "insert"
    /\ \/ /\ ~ InsertBinds
          /\ Raise(r, "INTERNAL_ERROR")
          /\ UNCHANGED submission
       \/ /\ InsertBinds
          /\ row = None
          /\ InsertRow(r)
          /\ Goto(r, "store")
          /\ UNCHANGED held
       \/ /\ InsertBinds
          /\ row # None
          /\ ResumeFrom(r, row)
          /\ UNCHANGED submission
    /\ UNCHANGED <<record, reply, canLearn>>

\* get_submission, as the user, of the row another attempt committed.
ReplaySubmission(r) ==
    /\ pc[r] = "replay"
    /\ IF canLearn
       THEN /\ Goto(r, "store")
            /\ held' = [held EXCEPT ![r] = Success(submission[KeyOf[r]])]
       ELSE Raise(r, "SUBMISSION_NOT_VISIBLE")
    /\ UNCHANGED <<record, submission, reply, canLearn>>

-----------------------------------------------------------------------------
(* The end of the envelope.                                                *)

\* UPDATE of the record; with no such row it changes nothing and succeeds.
UpdateRecord(r) ==
    record' = [record EXCEPT ![KeyOf[r]] =
                 IF @ = None THEN None ELSE [@ EXCEPT !.response = held[r]]]

StoreResponse(r) ==
    /\ pc[r] = "store"
    /\ UpdateRecord(r)
    /\ Respond(r, held[r])
    /\ UNCHANGED <<held, submission, canLearn>>

\* Mutant: a failure is cached like a success.
CacheFailure(r) == UpdateRecord(r)

\* Mutant: the failed request forgets its record.
KeepRecord(r) == UNCHANGED record

DeleteRecord(r) == record' = [record EXCEPT ![KeyOf[r]] = None]

\* except Exception: DELETE the record, then re-raise.
UndoClaim(r) ==
    /\ pc[r] = "undo"
    /\ DeleteRecord(r)
    /\ Respond(r, held[r])
    /\ UNCHANGED <<held, submission, canLearn>>

-----------------------------------------------------------------------------
(* Faults and environment.                                                 *)

\* A transaction raises without having committed.
TransactionFails(r) ==
    /\ "db" \in Faults
    /\ \/ /\ pc[r] \in {"received", "lookup", "claim", "store", "undo"}
          /\ Respond(r, Refusal("INTERNAL_ERROR"))
          /\ UNCHANGED held
       \/ /\ pc[r] \in InAction
          /\ Raise(r, "INTERNAL_ERROR")
          /\ UNCHANGED reply
    /\ UNCHANGED <<record, submission, canLearn>>

\* A transaction commits, and the acknowledgement of the commit is lost.
CommitUnacknowledged(r) ==
    /\ "db" \in Faults
    /\ \/ /\ pc[r] = "claim" /\ record[KeyOf[r]] = None
          /\ InsertRecord(r)
          /\ Respond(r, Refusal("INTERNAL_ERROR"))
          /\ UNCHANGED <<held, submission>>
       \/ /\ pc[r] = "insert" /\ InsertBinds /\ submission[KeyOf[r]] = None
          /\ InsertRow(r)
          /\ Raise(r, "INTERNAL_ERROR")
          /\ UNCHANGED <<record, reply>>
       \/ /\ \/ pc[r] = "store" /\ UpdateRecord(r)
             \/ pc[r] = "undo" /\ DeleteRecord(r)
          /\ Respond(r, Refusal("INTERNAL_ERROR"))
          /\ UNCHANGED <<held, submission>>
    /\ UNCHANGED canLearn

\* The process dies or the handler is cancelled: no answer, no clean-up.
Abandon(r) ==
    /\ "crash" \in Faults
    /\ pc[r] \notin Finished
    /\ Goto(r, "gone")
    /\ UNCHANGED <<held, record, submission, reply, canLearn>>

\* A policy version becomes required, the identity is disallowed, or the
\* member acknowledges again.
AccessChanges ==
    /\ canLearn' = ~canLearn
    /\ UNCHANGED <<pc, held, record, submission, reply>>

Step(r) ==
    \/ Admit(r)
    \/ LookupRecord(r)
    \/ ClaimRecord(r)
    \/ FindSubmission(r)
    \/ ReadRubric(r)
    \/ Assess(r)
    \/ StoreSubmission(r)
    \/ ReplaySubmission(r)
    \/ StoreResponse(r)
    \/ UndoClaim(r)

Fault(r) ==
    \/ TransactionFails(r)
    \/ CommitUnacknowledged(r)
    \/ Abandon(r)

Next ==
    \/ \E r \in Requests : Step(r) \/ Fault(r)
    \/ AccessChanges

Spec == Init /\ [][Next]_vars

\* A running handler is scheduled until it answers; nothing obliges the
\* faults or the environment.
FairSpec == Spec /\ \A r \in Requests : WF_vars(Step(r))

-----------------------------------------------------------------------------
(* Properties.                                                             *)

\* The rows, the outcomes and the control points have their types; only the
\* finished requests that were not abandoned have an answer.
TypeOK ==
    /\ pc \in [Requests -> States]
    /\ held \in [Requests -> Replies \cup {None}]
    /\ record \in [Keys -> IdempotencyRecords \cup {None}]
    /\ submission \in [Keys -> Submissions \cup {None}]
    /\ reply \in [Requests -> Replies \cup {None}]
    /\ canLearn \in BOOLEAN
    /\ \A r \in Requests : reply[r] # None <=> pc[r] = "replied"

\* At most one request executes the action of a key at any time, and it owns
\* the unanswered record of that key: neither a crash, a lost commit nor the
\* unconditional DELETE of an undo lets a second one in.
OneExecutorPerKey ==
    \A r \in Requests : pc[r] \in Executing =>
       /\ record[KeyOf[r]] = [digest |-> DigestOf[r], response |-> None]
       /\ \A q \in Requests :
            pc[q] \in Executing /\ KeyOf[q] = KeyOf[r] => q = r

\* The replay cache never contradicts the authoritative row: a stored
\* response is the response of the one submission bound to the key, and of
\* the payload the record was claimed with.
RecordMatchesSubmission ==
    \A k \in Keys :
       record[k] # None /\ record[k].response # None =>
          /\ submission[k] # None
          /\ record[k].response = Success(submission[k])
          /\ record[k].digest = submission[k].digest

\* Every success for a key answers with the same submission, whichever of
\* the three paths (first execution, replay cache, authoritative row) it took.
SuccessesAgree ==
    \A r, q \in Requests :
       /\ reply[r] # None /\ reply[r].code = "OK"
       /\ reply[q] # None /\ reply[q].code = "OK"
       /\ KeyOf[r] = KeyOf[q]
       => reply[r].row = reply[q].row /\ DigestOf[r] = DigestOf[q]

\* A 4xx is truthful: the request it refuses is not the one whose row is in
\* the table.  The browser parks a refused submission on the strength of it.
RefusalsAreTruthful ==
    \A r \in Requests :
       reply[r] # None /\ reply[r].code \in Register!DefiniteRefusals =>
          ~ Register!AcceptedFrom(r)

\* The service implements the register.
ImplementsRegister == Register!Spec

\* A record without a response is the lock of its key.
Unanswered(k) == record[k] # None /\ record[k].response = None

\* Whatever the action raises, the request that claimed a key answers it or
\* releases it again, unless a crash or a lost transaction took the request.
ClaimIsReleased ==
    \A r \in Requests :
       pc[r] \in Executing ~>
          \/ ~ Unanswered(KeyOf[r])
          \/ pc[r] = "gone"
          \/ reply[r] = Refusal("INTERNAL_ERROR")
=============================================================================
