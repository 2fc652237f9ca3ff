---------------------- MODULE SubmissionServiceProofs -----------------------
(***************************************************************************)
(* Proofs about POST /v1/submissions: SubmissionService for every set of   *)
(* requests and keys, then Assessment, which grades what it accepts, for   *)
(* every rubric and every judge.                                           *)
(*                                                                         *)
(* IInv is the inductive invariant of the service: what each control point *)
(* of a handler knows about the record it owns and about the authoritative *)
(* row.  GradingInv is that of the grading.                                *)
(***************************************************************************)
EXTENDS SubmissionService, Assessment, FiniteSetTheorems, TLAPS

ErrorCodes == Register!DefiniteRefusals \cup {"INTERNAL_ERROR"}

NotAcceptedFrom(r) ==
    submission[KeyOf[r]] # None => submission[KeyOf[r]].id # r

\* A refusal that request r may be given.
Justified(r, outcome) ==
    \E c \in ErrorCodes :
       /\ outcome = Refusal(c)
       /\ c # "INTERNAL_ERROR" => NotAcceptedFrom(r)
       /\ c = "IDEMPOTENCY_KEY_REUSED" => Register!KeyWasReused(r)

\* A success that request r may be given.
Confirmed(r, outcome) ==
    /\ submission[KeyOf[r]] # None
    /\ submission[KeyOf[r]].digest = DigestOf[r]
    /\ outcome = Success(submission[KeyOf[r]])

\* The payloads that records and rows are bound to were really sent.
DigestsWereSent ==
    \A k \in Keys :
       /\ record[k] # None =>
             \E q \in Requests : KeyOf[q] = k /\ DigestOf[q] = record[k].digest
       /\ submission[k] # None =>
             /\ KeyOf[submission[k].id] = k
             /\ DigestOf[submission[k].id] = submission[k].digest

\* What each control point knows.
BeforeInsert == {"received", "lookup", "claim", "find", "rubric", "assess", "insert"}

ControlPoints ==
    \A r \in Requests :
       /\ pc[r] \in BeforeInsert \cup {"replay"} => NotAcceptedFrom(r)
       /\ pc[r] \in {"rubric", "assess", "insert"} => submission[KeyOf[r]] = None
       /\ pc[r] = "insert" =>
             /\ held[r].row \in Submissions
             /\ held[r] = Success(held[r].row)
             /\ held[r].row.id = r
             /\ held[r].row.digest = DigestOf[r]
       /\ pc[r] = "replay" =>
             /\ submission[KeyOf[r]] # None
             /\ submission[KeyOf[r]].digest = DigestOf[r]
       /\ pc[r] = "store" => Confirmed(r, held[r])
       /\ pc[r] = "undo" => Justified(r, held[r])
       /\ reply[r] # None => Confirmed(r, reply[r]) \/ Justified(r, reply[r])

IInv ==
    /\ TypeOK
    /\ OneExecutorPerKey
    /\ RecordMatchesSubmission
    /\ DigestsWereSent
    /\ ControlPoints

USE ServiceAssumption, NoneAssumption

-----------------------------------------------------------------------------
(***************************************************************************)
(* Outcomes, rows and records have the types their constructors give them. *)
(***************************************************************************)
LEMMA OutcomeTypes ==
    /\ \A c \in ErrorCodes : Refusal(c) \in Replies /\ Refusal(c) # None
    /\ \A row \in Submissions : Success(row) \in Replies /\ Success(row) # None
BY DEF ErrorCodes, Refusal, Success, Replies, Codes

LEMMA RecordTypes ==
    ASSUME NEW r \in Requests, NEW rec \in IdempotencyRecords, NEW out \in Replies
    PROVE  /\ [digest |-> DigestOf[r], response |-> None] \in IdempotencyRecords
           /\ [rec EXCEPT !.response = out] \in IdempotencyRecords
           /\ [rec EXCEPT !.response = out].digest = rec.digest
           /\ [rec EXCEPT !.response = out].response = out
BY DEF IdempotencyRecords

LEMMA RecordUpdate ==
    ASSUME NEW rec, NEW d, NEW out, rec = [digest |-> d, response |-> None]
    PROVE  [rec EXCEPT !.response = out] = [digest |-> d, response |-> out]
OBVIOUS

\* What a handler holds when it stores or undoes is an outcome it may send.
LEMMA HeldTypes ==
    ASSUME IInv, NEW r \in Requests
    PROVE  /\ pc[r] \in {"store", "undo"} => held[r] \in Replies /\ held[r] # None
           /\ submission[KeyOf[r]] # None => submission[KeyOf[r]] \in Submissions
           /\ record[KeyOf[r]] # None => record[KeyOf[r]] \in IdempotencyRecords
<1>1. pc[r] = "undo" => held[r] \in Replies /\ held[r] # None
  BY OutcomeTypes DEF IInv, ControlPoints, Justified
<1>2. submission[KeyOf[r]] # None => submission[KeyOf[r]] \in Submissions
  BY DEF IInv, TypeOK
<1>3. pc[r] = "store" => held[r] \in Replies /\ held[r] # None
  BY <1>2, OutcomeTypes DEF IInv, ControlPoints, Confirmed
<1>4. record[KeyOf[r]] # None => record[KeyOf[r]] \in IdempotencyRecords
  BY DEF IInv, TypeOK
<1> QED BY <1>1, <1>2, <1>3, <1>4

\* A handler in its action owns the unanswered record of its key, alone.
LEMMA OwnerAlone ==
    ASSUME IInv, NEW r \in Requests, pc[r] \in Executing
    PROVE  /\ record[KeyOf[r]] = [digest |-> DigestOf[r], response |-> None]
           /\ record[KeyOf[r]] # None
           /\ \A q \in Requests :
                 KeyOf[q] = KeyOf[r] /\ pc[q] \in Executing => q = r
BY RecordTypes DEF IInv, OneExecutorPerKey, TypeOK, IdempotencyRecords


(***************************************************************************)
(* The four ways a commit can be lost, each as one formula.                *)
(***************************************************************************)
CommittedClaim(r) ==
    /\ pc[r] = "claim" /\ record[KeyOf[r]] = None
    /\ record' = [record EXCEPT ![KeyOf[r]] =
                    [digest |-> DigestOf[r], response |-> None]]
    /\ pc' = [pc EXCEPT ![r] = "replied"]
    /\ reply' = [reply EXCEPT ![r] = Refusal("INTERNAL_ERROR")]
    /\ UNCHANGED <<held, submission, canLearn>>

CommittedInsert(r) ==
    /\ pc[r] = "insert" /\ submission[KeyOf[r]] = None
    /\ submission' = [submission EXCEPT ![KeyOf[r]] = held[r].row]
    /\ pc' = [pc EXCEPT ![r] = "undo"]
    /\ held' = [held EXCEPT ![r] = Refusal("INTERNAL_ERROR")]
    /\ UNCHANGED <<record, reply, canLearn>>

CommittedStore(r) ==
    /\ pc[r] = "store"
    /\ record' = [record EXCEPT ![KeyOf[r]] =
                    [record[KeyOf[r]] EXCEPT !.response = held[r]]]
    /\ pc' = [pc EXCEPT ![r] = "replied"]
    /\ reply' = [reply EXCEPT ![r] = Refusal("INTERNAL_ERROR")]
    /\ UNCHANGED <<held, submission, canLearn>>

CommittedUndo(r) ==
    /\ pc[r] = "undo"
    /\ record' = [record EXCEPT ![KeyOf[r]] = None]
    /\ pc' = [pc EXCEPT ![r] = "replied"]
    /\ reply' = [reply EXCEPT ![r] = Refusal("INTERNAL_ERROR")]
    /\ UNCHANGED <<held, submission, canLearn>>

LEMMA CommitUnacknowledgedCases ==
    ASSUME IInv, NEW r \in Requests, CommitUnacknowledged(r)
    PROVE  \/ CommittedClaim(r)
           \/ CommittedInsert(r)
           \/ CommittedStore(r)
           \/ CommittedUndo(r)
<1>1. pc[r] = "store" /\ UpdateRecord(r) =>
         record' = [record EXCEPT ![KeyOf[r]] =
                      [record[KeyOf[r]] EXCEPT !.response = held[r]]]
  <2> SUFFICES ASSUME pc[r] = "store", UpdateRecord(r)
               PROVE  record' = [record EXCEPT ![KeyOf[r]] =
                                   [record[KeyOf[r]] EXCEPT !.response = held[r]]]
    OBVIOUS
  <2>1. record[KeyOf[r]] # None
    BY OwnerAlone DEF Executing
  <2> QED BY <2>1 DEF UpdateRecord
<1> QED
  BY <1>1
  DEF CommitUnacknowledged, Goto, Respond, Raise, InsertRecord, InsertRow,
     DeleteRecord, CommittedClaim, CommittedInsert, CommittedStore, CommittedUndo


LEMMA TypeOKStep == ASSUME IInv, [Next]_vars PROVE TypeOK'
<1>1. ASSUME NEW r \in Requests PROVE Admit(r) => TypeOK'
  BY HeldTypes, OutcomeTypes, RecordTypes
  DEF Admit, Goto, Respond, IInv, TypeOK, Register!DefiniteRefusals,
      ErrorCodes, States, Executing, InAction, Finished
<1>2. ASSUME NEW r \in Requests PROVE LookupRecord(r) => TypeOK'
  <2> SUFFICES ASSUME LookupRecord(r) PROVE TypeOK'
    OBVIOUS
  <2> DEFINE found == record[KeyOf[r]]
  <2>1. CASE pc' = [pc EXCEPT ![r] = "claim"] /\ UNCHANGED reply
    BY <2>1
    DEF LookupRecord, IInv, TypeOK, States, Executing, InAction, Finished
  <2>2. ASSUME NEW out \in Replies, out # None, Respond(r, out) PROVE TypeOK'
    BY <2>2
    DEF LookupRecord, Goto, Respond, IInv, TypeOK, States, Executing, InAction,
        Finished
  <2>3. found # None /\ found.response # None => found.response \in Replies
    BY DEF IInv, TypeOK, IdempotencyRecords
  <2>4. /\ Refusal("IDEMPOTENCY_KEY_REUSED") \in Replies \ {None}
        /\ Refusal("IDEMPOTENCY_IN_PROGRESS") \in Replies \ {None}
    BY OutcomeTypes DEF ErrorCodes, Register!DefiniteRefusals
  <2> QED BY <2>1, <2>2, <2>3, <2>4 DEF LookupRecord, Goto
<1>3. ASSUME NEW r \in Requests PROVE ClaimRecord(r) => TypeOK'
  <2> SUFFICES ASSUME ClaimRecord(r) PROVE TypeOK'
    OBVIOUS
  <2>1. record' \in [Keys -> IdempotencyRecords \cup {None}]
    <3>1. [digest |-> DigestOf[r], response |-> None] \in IdempotencyRecords
      BY DEF IdempotencyRecords
    <3> QED BY <3>1 DEF ClaimRecord, InsertRecord, IInv, TypeOK
  <2>2. Refusal("INTERNAL_ERROR") \in Replies /\ Refusal("INTERNAL_ERROR") # None
    BY OutcomeTypes DEF ErrorCodes
  <2> QED BY <2>1, <2>2
          DEF ClaimRecord, Goto, Respond, IInv, TypeOK, States, Executing,
              InAction, Finished
<1>4. ASSUME NEW r \in Requests PROVE FindSubmission(r) => TypeOK'
  BY HeldTypes, OutcomeTypes, RecordTypes
  DEF FindSubmission, Goto, Raise, ResumeFrom, IInv, TypeOK,
      Register!DefiniteRefusals, ErrorCodes, States, Executing, InAction,
      Finished
<1>5. ASSUME NEW r \in Requests PROVE ReadRubric(r) => TypeOK'
  BY HeldTypes, OutcomeTypes, RecordTypes
  DEF ReadRubric, Goto, Raise, IInv, TypeOK, Register!DefiniteRefusals,
      ErrorCodes, States, Executing, InAction, Finished
<1>6. ASSUME NEW r \in Requests PROVE Assess(r) => TypeOK'
  <2> SUFFICES ASSUME Assess(r) PROVE TypeOK'
    OBVIOUS
  <2>1. held'[r] \in Replies /\ held' = [held EXCEPT ![r] = held'[r]]
    <3>1. CASE pc' = [pc EXCEPT ![r] = "undo"] /\ held' = [held EXCEPT ![r] = Refusal("ASSESSMENT_INVALID")]
      BY <3>1, OutcomeTypes
      DEF IInv, TypeOK, ErrorCodes, Register!DefiniteRefusals
    <3>2. ASSUME NEW v \in Verdicts,
                 held' = [held EXCEPT ![r] = Success([id |-> r, digest |-> DigestOf[r], verdict |-> v])]
          PROVE  held'[r] \in Replies /\ held' = [held EXCEPT ![r] = held'[r]]
      <4>1. [id |-> r, digest |-> DigestOf[r], verdict |-> v] \in Submissions
        BY DEF Submissions
      <4> QED BY <3>2, <4>1, OutcomeTypes DEF IInv, TypeOK
    <3> QED BY <3>1, <3>2 DEF Assess, Raise, Goto
  <2>2. pc' \in [Requests -> States] /\ pc[r] # "replied" /\ pc'[r] # "replied"
        /\ \A q \in Requests : q # r => pc'[q] = pc[q]
    BY
    DEF IInv, TypeOK, Assess, Goto, Raise, States, Executing, InAction,
        Finished
  <2> QED BY <2>1, <2>2 DEF IInv, TypeOK, Assess
<1>7. ASSUME NEW r \in Requests PROVE StoreSubmission(r) => TypeOK'
  <2> SUFFICES ASSUME StoreSubmission(r) PROVE TypeOK'
    OBVIOUS
  <2>1. submission[KeyOf[r]] = None /\ held[r].row \in Submissions
    BY DEF IInv, ControlPoints, StoreSubmission
  <2>2. CASE InsertBinds
    BY <2>1, <2>2
    DEF IInv, TypeOK, StoreSubmission, Goto, InsertRow, States, Executing,
        InAction, Finished
  <2>3. CASE ~ InsertBinds
    BY <2>3, OutcomeTypes
    DEF IInv, TypeOK, StoreSubmission, Goto, Raise, States, Executing,
        InAction, Finished, ErrorCodes
  <2> QED BY <2>2, <2>3
<1>8. ASSUME NEW r \in Requests PROVE ReplaySubmission(r) => TypeOK'
  BY HeldTypes, OutcomeTypes, RecordTypes
  DEF ReplaySubmission, Goto, Raise, Refusal, Success, IInv, TypeOK,
      Register!DefiniteRefusals, ErrorCodes, States, Executing, InAction,
      Finished, Codes, Replies
<1>9. ASSUME NEW r \in Requests PROVE StoreResponse(r) => TypeOK'
  <2> SUFFICES ASSUME StoreResponse(r) PROVE TypeOK'
    OBVIOUS
  <2>1. record[KeyOf[r]] \in IdempotencyRecords /\ held[r] \in Replies /\ held[r] # None
    BY OwnerAlone, HeldTypes DEF StoreResponse, Executing
  <2>2. [record[KeyOf[r]] EXCEPT !.response = held[r]] \in IdempotencyRecords
    BY <2>1, RecordTypes
  <2>3. record' \in [Keys -> IdempotencyRecords \cup {None}]
    BY <2>1, <2>2 DEF StoreResponse, UpdateRecord, IInv, TypeOK
  <2> QED BY <2>1, <2>3
          DEF IInv, TypeOK, StoreResponse, Goto, Respond, States, Finished
<1>10. ASSUME NEW r \in Requests PROVE UndoClaim(r) => TypeOK'
  BY HeldTypes, OutcomeTypes, RecordTypes
  DEF UndoClaim, Goto, Respond, DeleteRecord, IInv, TypeOK,
      Register!DefiniteRefusals, ErrorCodes, States, Executing, InAction,
      Finished
<1>11. ASSUME NEW r \in Requests PROVE TransactionFails(r) => TypeOK'
  BY HeldTypes, OutcomeTypes, RecordTypes
  DEF TransactionFails, Goto, Respond, Raise, IInv, TypeOK,
      Register!DefiniteRefusals, ErrorCodes, States, Executing, InAction,
      Finished
<1>12. ASSUME NEW r \in Requests PROVE CommitUnacknowledged(r) => TypeOK'
  <2> SUFFICES ASSUME CommitUnacknowledged(r) PROVE TypeOK'
    OBVIOUS
  <2>1. CASE CommittedClaim(r)
    <3>1. record' \in [Keys -> IdempotencyRecords \cup {None}]
      BY <2>1 DEF CommittedClaim, IInv, TypeOK, IdempotencyRecords
    <3> QED BY <2>1, <3>1, OutcomeTypes
        DEF CommittedClaim, IInv, TypeOK, ErrorCodes, States, Finished
  <2>2. CASE CommittedInsert(r)
    BY <2>2, OwnerAlone, HeldTypes, OutcomeTypes, RecordTypes
    DEF IInv, TypeOK, ControlPoints, Register!DefiniteRefusals,
        CommittedInsert, ErrorCodes, States, Executing, InAction, Finished
  <2>3. CASE CommittedStore(r)
    <3>1. record[KeyOf[r]] \in IdempotencyRecords /\ held[r] \in Replies
      BY <2>3, OwnerAlone, HeldTypes DEF CommittedStore, Executing
    <3>2. [record[KeyOf[r]] EXCEPT !.response = held[r]] \in IdempotencyRecords
      BY <3>1, RecordTypes
    <3> QED BY <2>3, <3>2, OutcomeTypes
            DEF CommittedStore, IInv, TypeOK, ErrorCodes, States, Finished
  <2>4. CASE CommittedUndo(r)
    BY <2>4, OwnerAlone, HeldTypes, OutcomeTypes, RecordTypes
    DEF IInv, TypeOK, ControlPoints, Register!DefiniteRefusals, CommittedUndo,
        ErrorCodes, States, Executing, InAction, Finished
  <2> QED BY CommitUnacknowledgedCases, <2>1, <2>2, <2>3, <2>4
<1>13. ASSUME NEW r \in Requests PROVE Abandon(r) => TypeOK'
  BY HeldTypes, OutcomeTypes, RecordTypes
  DEF Abandon, Goto, IInv, TypeOK, Register!DefiniteRefusals, ErrorCodes,
      States, Executing, InAction, Finished
<1>14. (AccessChanges \/ UNCHANGED vars) => TypeOK'
  BY
  DEF AccessChanges, vars, IInv, TypeOK, Register!DefiniteRefusals, ErrorCodes
<1> QED
  BY <1>1, <1>2, <1>3, <1>4, <1>5, <1>6, <1>7, <1>8, <1>9, <1>10, <1>11, <1>12,
     <1>13, <1>14
  DEF Next, Step, Fault

LEMMA OneExecutorPerKeyStep == ASSUME IInv, [Next]_vars PROVE OneExecutorPerKey'
<1>1. ASSUME NEW r \in Requests PROVE Admit(r) => OneExecutorPerKey'
  BY OwnerAlone
  DEF Admit, Goto, Respond, Refusal, IInv, TypeOK, OneExecutorPerKey, States,
      Executing, InAction, Finished
<1>2. ASSUME NEW r \in Requests PROVE LookupRecord(r) => OneExecutorPerKey'
  BY OwnerAlone
  DEF LookupRecord, Goto, Respond, Refusal, IInv, TypeOK, OneExecutorPerKey,
      States, Executing, InAction, Finished
<1>3. ASSUME NEW r \in Requests PROVE ClaimRecord(r) => OneExecutorPerKey'
  <2> SUFFICES ASSUME ClaimRecord(r) PROVE OneExecutorPerKey'
    OBVIOUS
  <2>1. CASE record[KeyOf[r]] = None
    <3>1. \A q \in Requests : KeyOf[q] = KeyOf[r] => pc[q] \notin Executing
      BY <2>1, OwnerAlone
    <3>2. /\ pc' = [pc EXCEPT ![r] = "find"]
          /\ record' = [record EXCEPT ![KeyOf[r]] = [digest |-> DigestOf[r], response |-> None]]
      BY <2>1 DEF ClaimRecord, Goto, InsertRecord
    <3> QED BY <3>1, <3>2 DEF IInv, TypeOK, OneExecutorPerKey
  <2>2. CASE record[KeyOf[r]] # None
    BY <2>2
    DEF IInv, TypeOK, OneExecutorPerKey, ClaimRecord, Goto, Respond, States,
        Executing, InAction, Finished
  <2> QED BY <2>1, <2>2
<1>4. ASSUME NEW r \in Requests PROVE FindSubmission(r) => OneExecutorPerKey'
  BY OwnerAlone
  DEF FindSubmission, Goto, Raise, Refusal, ResumeFrom, IInv, TypeOK,
      OneExecutorPerKey, States, Executing, InAction, Finished
<1>5. ASSUME NEW r \in Requests PROVE ReadRubric(r) => OneExecutorPerKey'
  BY OwnerAlone
  DEF ReadRubric, Goto, Raise, Refusal, IInv, TypeOK, OneExecutorPerKey,
      States, Executing, InAction, Finished
<1>6. ASSUME NEW r \in Requests PROVE Assess(r) => OneExecutorPerKey'
  BY OwnerAlone
  DEF Assess, Goto, Raise, Refusal, Success, IInv, TypeOK, OneExecutorPerKey,
      States, Executing, InAction, Finished
<1>7. ASSUME NEW r \in Requests PROVE StoreSubmission(r) => OneExecutorPerKey'
  <2> SUFFICES ASSUME StoreSubmission(r) PROVE OneExecutorPerKey'
    OBVIOUS
  <2>1. submission[KeyOf[r]] = None
    BY DEF IInv, ControlPoints, StoreSubmission
  <2> QED BY <2>1
          DEF IInv, TypeOK, OneExecutorPerKey, StoreSubmission, Goto, Raise,
              States, Executing, InAction, Finished
<1>8. ASSUME NEW r \in Requests PROVE ReplaySubmission(r) => OneExecutorPerKey'
  BY OwnerAlone
  DEF ReplaySubmission, Goto, Raise, Refusal, Success, IInv, TypeOK,
      OneExecutorPerKey, States, Executing, InAction, Finished
<1>9. ASSUME NEW r \in Requests PROVE StoreResponse(r) => OneExecutorPerKey'
  BY OwnerAlone
  DEF StoreResponse, Goto, Respond, UpdateRecord, IInv, TypeOK,
      OneExecutorPerKey, States, Executing, InAction, Finished
<1>10. ASSUME NEW r \in Requests PROVE UndoClaim(r) => OneExecutorPerKey'
  BY OwnerAlone
  DEF UndoClaim, Goto, Respond, DeleteRecord, IInv, TypeOK, OneExecutorPerKey,
      States, Executing, InAction, Finished
<1>11. ASSUME NEW r \in Requests PROVE TransactionFails(r) => OneExecutorPerKey'
  BY OwnerAlone
  DEF TransactionFails, Goto, Respond, Raise, Refusal, IInv, TypeOK,
      OneExecutorPerKey, States, Executing, InAction, Finished
<1>12. ASSUME NEW r \in Requests PROVE CommitUnacknowledged(r) => OneExecutorPerKey'
  <2> SUFFICES ASSUME CommitUnacknowledged(r) PROVE OneExecutorPerKey'
    OBVIOUS
  <2>1. CASE CommittedClaim(r)
    BY <2>1, OwnerAlone, HeldTypes, OutcomeTypes, RecordTypes
    DEF IInv, TypeOK, OneExecutorPerKey, CommittedClaim, ErrorCodes, States,
        Executing, InAction, Finished
  <2>2. CASE CommittedInsert(r)
    BY <2>2, OwnerAlone, HeldTypes, OutcomeTypes, RecordTypes
    DEF IInv, TypeOK, OneExecutorPerKey, CommittedInsert, ErrorCodes, States,
        Executing, InAction, Finished
  <2>3. CASE CommittedStore(r)
    BY <2>3, OwnerAlone, HeldTypes, OutcomeTypes, RecordTypes
    DEF IInv, TypeOK, OneExecutorPerKey, CommittedStore, ErrorCodes, States,
        Executing, InAction, Finished
  <2>4. CASE CommittedUndo(r)
    BY <2>4, OwnerAlone, HeldTypes, OutcomeTypes, RecordTypes
    DEF IInv, TypeOK, OneExecutorPerKey, CommittedUndo, ErrorCodes, States,
        Executing, InAction, Finished
  <2> QED BY CommitUnacknowledgedCases, <2>1, <2>2, <2>3, <2>4
<1>13. ASSUME NEW r \in Requests PROVE Abandon(r) => OneExecutorPerKey'
  BY OwnerAlone
  DEF Abandon, Goto, IInv, TypeOK, OneExecutorPerKey, States, Executing,
      InAction, Finished
<1>14. (AccessChanges \/ UNCHANGED vars) => OneExecutorPerKey'
  BY DEF AccessChanges, vars, IInv, TypeOK, OneExecutorPerKey
<1> QED
  BY <1>1, <1>2, <1>3, <1>4, <1>5, <1>6, <1>7, <1>8, <1>9, <1>10, <1>11, <1>12,
     <1>13, <1>14
  DEF Next, Step, Fault

LEMMA RecordMatchesSubmissionStep == ASSUME IInv, [Next]_vars PROVE RecordMatchesSubmission'
<1>1. ASSUME NEW r \in Requests PROVE Admit(r) => RecordMatchesSubmission'
  BY OwnerAlone, HeldTypes, RecordTypes, OutcomeTypes
  DEF Admit, Goto, Respond, Refusal, IInv, TypeOK, RecordMatchesSubmission,
      ControlPoints, Confirmed, IdempotencyRecords, States, Executing,
      InAction, Finished
<1>2. ASSUME NEW r \in Requests PROVE LookupRecord(r) => RecordMatchesSubmission'
  BY OwnerAlone, HeldTypes, RecordTypes, OutcomeTypes
  DEF LookupRecord, Goto, Respond, Refusal, IInv, TypeOK,
      RecordMatchesSubmission, ControlPoints, Confirmed, IdempotencyRecords,
      States, Executing, InAction, Finished
<1>3. ASSUME NEW r \in Requests PROVE ClaimRecord(r) => RecordMatchesSubmission'
  BY OwnerAlone, HeldTypes, RecordTypes, OutcomeTypes
  DEF ClaimRecord, Goto, Respond, Refusal, InsertRecord, IInv, TypeOK,
      RecordMatchesSubmission, ControlPoints, Confirmed, IdempotencyRecords,
      States, Executing, InAction, Finished
<1>4. ASSUME NEW r \in Requests PROVE FindSubmission(r) => RecordMatchesSubmission'
  BY OwnerAlone, HeldTypes, RecordTypes, OutcomeTypes
  DEF FindSubmission, Goto, Raise, Refusal, ResumeFrom, IInv, TypeOK,
      RecordMatchesSubmission, ControlPoints, Confirmed, IdempotencyRecords,
      States, Executing, InAction, Finished
<1>5. ASSUME NEW r \in Requests PROVE ReadRubric(r) => RecordMatchesSubmission'
  BY OwnerAlone, HeldTypes, RecordTypes, OutcomeTypes
  DEF ReadRubric, Goto, Raise, Refusal, IInv, TypeOK, RecordMatchesSubmission,
      ControlPoints, Confirmed, IdempotencyRecords, States, Executing,
      InAction, Finished
<1>6. ASSUME NEW r \in Requests PROVE Assess(r) => RecordMatchesSubmission'
  BY OwnerAlone, HeldTypes, RecordTypes, OutcomeTypes
  DEF Assess, Goto, Raise, Refusal, Success, IInv, TypeOK,
      RecordMatchesSubmission, ControlPoints, Confirmed, IdempotencyRecords,
      States, Executing, InAction, Finished
<1>7. ASSUME NEW r \in Requests PROVE StoreSubmission(r) => RecordMatchesSubmission'
  BY OwnerAlone, HeldTypes, RecordTypes, OutcomeTypes
  DEF StoreSubmission, Goto, InsertRow, IInv, TypeOK, RecordMatchesSubmission,
      ControlPoints, Confirmed, IdempotencyRecords, States, Executing,
      InAction, Finished
<1>8. ASSUME NEW r \in Requests PROVE ReplaySubmission(r) => RecordMatchesSubmission'
  BY OwnerAlone, HeldTypes, RecordTypes, OutcomeTypes
  DEF ReplaySubmission, Goto, Raise, Refusal, Success, IInv, TypeOK,
      RecordMatchesSubmission, ControlPoints, Confirmed, IdempotencyRecords,
      States, Executing, InAction, Finished
<1>9. ASSUME NEW r \in Requests PROVE StoreResponse(r) => RecordMatchesSubmission'
  <2> SUFFICES ASSUME StoreResponse(r) PROVE RecordMatchesSubmission'
    OBVIOUS
  <2>1. record[KeyOf[r]] = [digest |-> DigestOf[r], response |-> None]
        /\ record[KeyOf[r]] # None
    BY OwnerAlone DEF StoreResponse, Executing
  <2>2. record' = [record EXCEPT ![KeyOf[r]] =
                     [digest |-> DigestOf[r], response |-> held[r]]]
    <3>1. [record[KeyOf[r]] EXCEPT !.response = held[r]] =
             [digest |-> DigestOf[r], response |-> held[r]]
      BY <2>1, RecordUpdate
    <3>2. record' = [record EXCEPT ![KeyOf[r]] =
                       [record[KeyOf[r]] EXCEPT !.response = held[r]]]
      BY <2>1 DEF StoreResponse, UpdateRecord
    <3> QED BY <3>1, <3>2, Zenon
  <2> QED BY <2>2, HeldTypes
     
     DEF StoreResponse, IInv, TypeOK, RecordMatchesSubmission, ControlPoints,
         Confirmed
<1>10. ASSUME NEW r \in Requests PROVE UndoClaim(r) => RecordMatchesSubmission'
  BY OwnerAlone, HeldTypes, RecordTypes, OutcomeTypes
  DEF UndoClaim, Goto, Respond, DeleteRecord, IInv, TypeOK,
      RecordMatchesSubmission, ControlPoints, Confirmed, IdempotencyRecords,
      States, Executing, InAction, Finished
<1>11. ASSUME NEW r \in Requests PROVE TransactionFails(r) => RecordMatchesSubmission'
  BY OwnerAlone, HeldTypes, RecordTypes, OutcomeTypes
  DEF TransactionFails, Goto, Respond, Raise, Refusal, IInv, TypeOK,
      RecordMatchesSubmission, ControlPoints, Confirmed, IdempotencyRecords,
      States, Executing, InAction, Finished
<1>12. ASSUME NEW r \in Requests PROVE CommitUnacknowledged(r) => RecordMatchesSubmission'
  <2> SUFFICES ASSUME CommitUnacknowledged(r) PROVE RecordMatchesSubmission'
    OBVIOUS
  <2>1. CASE CommittedClaim(r)
    BY <2>1, OwnerAlone, HeldTypes, OutcomeTypes, RecordTypes
    DEF IInv, TypeOK, RecordMatchesSubmission, ControlPoints, Confirmed,
        IdempotencyRecords, CommittedClaim, ErrorCodes, States, Executing,
        InAction, Finished
  <2>2. CASE CommittedInsert(r)
    BY <2>2, OwnerAlone, HeldTypes, OutcomeTypes, RecordTypes
    DEF IInv, TypeOK, RecordMatchesSubmission, ControlPoints, Confirmed,
        IdempotencyRecords, CommittedInsert, ErrorCodes, States, Executing,
        InAction, Finished
  <2>3. CASE CommittedStore(r)
    <3>1. record' = [record EXCEPT ![KeyOf[r]] =
                       [digest |-> DigestOf[r], response |-> held[r]]]
      <4>1. record[KeyOf[r]] = [digest |-> DigestOf[r], response |-> None]
        BY <2>3, OwnerAlone DEF CommittedStore, Executing
      <4>2. [record[KeyOf[r]] EXCEPT !.response = held[r]] =
               [digest |-> DigestOf[r], response |-> held[r]]
        BY <4>1, RecordUpdate
      <4> QED BY <2>3, <4>2, Zenon DEF CommittedStore
    <3> QED BY <2>3, <3>1, HeldTypes
       
       DEF CommittedStore, IInv, TypeOK, RecordMatchesSubmission,
           ControlPoints, Confirmed
  <2>4. CASE CommittedUndo(r)
    BY <2>4, OwnerAlone, HeldTypes, OutcomeTypes, RecordTypes
    DEF IInv, TypeOK, RecordMatchesSubmission, ControlPoints, Confirmed,
        IdempotencyRecords, CommittedUndo, ErrorCodes, States, Executing,
        InAction, Finished
  <2> QED BY CommitUnacknowledgedCases, <2>1, <2>2, <2>3, <2>4
<1>13. ASSUME NEW r \in Requests PROVE Abandon(r) => RecordMatchesSubmission'
  BY OwnerAlone, HeldTypes, RecordTypes, OutcomeTypes
  DEF Abandon, Goto, IInv, TypeOK, RecordMatchesSubmission, ControlPoints,
      Confirmed, IdempotencyRecords, States, Executing, InAction, Finished
<1>14. (AccessChanges \/ UNCHANGED vars) => RecordMatchesSubmission'
  BY
  DEF AccessChanges, vars, IInv, TypeOK, RecordMatchesSubmission,
      ControlPoints, Confirmed, IdempotencyRecords
<1> QED
  BY <1>1, <1>2, <1>3, <1>4, <1>5, <1>6, <1>7, <1>8, <1>9, <1>10, <1>11, <1>12,
     <1>13, <1>14
  DEF Next, Step, Fault

LEMMA DigestsWereSentStep == ASSUME IInv, [Next]_vars PROVE DigestsWereSent'
<1>1. ASSUME NEW r \in Requests PROVE Admit(r) => DigestsWereSent'
  BY OwnerAlone, HeldTypes
  DEF Admit, Goto, Respond, Refusal, IInv, TypeOK, DigestsWereSent,
      IdempotencyRecords, ControlPoints, Submissions, States, Executing,
      InAction, Finished
<1>2. ASSUME NEW r \in Requests PROVE LookupRecord(r) => DigestsWereSent'
  BY OwnerAlone, HeldTypes
  DEF LookupRecord, Goto, Respond, Refusal, IInv, TypeOK, DigestsWereSent,
      IdempotencyRecords, ControlPoints, Submissions, States, Executing,
      InAction, Finished
<1>3. ASSUME NEW r \in Requests PROVE ClaimRecord(r) => DigestsWereSent'
  BY OwnerAlone, HeldTypes
  DEF ClaimRecord, Goto, Respond, Refusal, InsertRecord, IInv, TypeOK,
      DigestsWereSent, IdempotencyRecords, ControlPoints, Submissions, States,
      Executing, InAction, Finished
<1>4. ASSUME NEW r \in Requests PROVE FindSubmission(r) => DigestsWereSent'
  BY OwnerAlone, HeldTypes
  DEF FindSubmission, Goto, Raise, Refusal, ResumeFrom, IInv, TypeOK,
      DigestsWereSent, IdempotencyRecords, ControlPoints, Submissions, States,
      Executing, InAction, Finished
<1>5. ASSUME NEW r \in Requests PROVE ReadRubric(r) => DigestsWereSent'
  BY OwnerAlone, HeldTypes
  DEF ReadRubric, Goto, Raise, Refusal, IInv, TypeOK, DigestsWereSent,
      IdempotencyRecords, ControlPoints, Submissions, States, Executing,
      InAction, Finished
<1>6. ASSUME NEW r \in Requests PROVE Assess(r) => DigestsWereSent'
  BY OwnerAlone, HeldTypes
  DEF Assess, Goto, Raise, Refusal, Success, IInv, TypeOK, DigestsWereSent,
      IdempotencyRecords, ControlPoints, Submissions, States, Executing,
      InAction, Finished
<1>7. ASSUME NEW r \in Requests PROVE StoreSubmission(r) => DigestsWereSent'
  BY OwnerAlone, HeldTypes
  DEF StoreSubmission, Goto, InsertRow, IInv, TypeOK, DigestsWereSent,
      IdempotencyRecords, ControlPoints, Submissions, States, Executing,
      InAction, Finished
<1>8. ASSUME NEW r \in Requests PROVE ReplaySubmission(r) => DigestsWereSent'
  BY OwnerAlone, HeldTypes
  DEF ReplaySubmission, Goto, Raise, Refusal, Success, IInv, TypeOK,
      DigestsWereSent, IdempotencyRecords, ControlPoints, Submissions, States,
      Executing, InAction, Finished
<1>9. ASSUME NEW r \in Requests PROVE StoreResponse(r) => DigestsWereSent'
  BY OwnerAlone, HeldTypes
  DEF StoreResponse, Goto, Respond, UpdateRecord, IInv, TypeOK,
      DigestsWereSent, IdempotencyRecords, ControlPoints, Submissions, States,
      Executing, InAction, Finished
<1>10. ASSUME NEW r \in Requests PROVE UndoClaim(r) => DigestsWereSent'
  BY OwnerAlone, HeldTypes
  DEF UndoClaim, Goto, Respond, DeleteRecord, IInv, TypeOK, DigestsWereSent,
      IdempotencyRecords, ControlPoints, Submissions, States, Executing,
      InAction, Finished
<1>11. ASSUME NEW r \in Requests PROVE TransactionFails(r) => DigestsWereSent'
  BY OwnerAlone, HeldTypes
  DEF TransactionFails, Goto, Respond, Raise, Refusal, IInv, TypeOK,
      DigestsWereSent, IdempotencyRecords, ControlPoints, Submissions, States,
      Executing, InAction, Finished
<1>12. ASSUME NEW r \in Requests PROVE CommitUnacknowledged(r) => DigestsWereSent'
  <2> SUFFICES ASSUME CommitUnacknowledged(r) PROVE DigestsWereSent'
    OBVIOUS
  <2>1. CASE CommittedClaim(r)
    BY <2>1, OwnerAlone, HeldTypes, OutcomeTypes, RecordTypes
    DEF IInv, TypeOK, DigestsWereSent, IdempotencyRecords, ControlPoints,
        Submissions, CommittedClaim, ErrorCodes, States, Executing, InAction,
        Finished
  <2>2. CASE CommittedInsert(r)
    BY <2>2, OwnerAlone, HeldTypes, OutcomeTypes, RecordTypes
    DEF IInv, TypeOK, DigestsWereSent, IdempotencyRecords, ControlPoints,
        Submissions, CommittedInsert, ErrorCodes, States, Executing, InAction,
        Finished
  <2>3. CASE CommittedStore(r)
    <3>1. record' = [record EXCEPT ![KeyOf[r]] =
                       [digest |-> DigestOf[r], response |-> held[r]]]
      <4>1. record[KeyOf[r]] = [digest |-> DigestOf[r], response |-> None]
        BY <2>3, OwnerAlone DEF CommittedStore, Executing
      <4>2. [record[KeyOf[r]] EXCEPT !.response = held[r]] =
               [digest |-> DigestOf[r], response |-> held[r]]
        BY <4>1, RecordUpdate
      <4> QED BY <2>3, <4>2, Zenon DEF CommittedStore
    <3> QED BY <2>3, <3>1 DEF CommittedStore, IInv, TypeOK, DigestsWereSent
  <2>4. CASE CommittedUndo(r)
    BY <2>4, OwnerAlone, HeldTypes, OutcomeTypes, RecordTypes
    DEF IInv, TypeOK, DigestsWereSent, IdempotencyRecords, ControlPoints,
        Submissions, CommittedUndo, ErrorCodes, States, Executing, InAction,
        Finished
  <2> QED BY CommitUnacknowledgedCases, <2>1, <2>2, <2>3, <2>4
<1>13. ASSUME NEW r \in Requests PROVE Abandon(r) => DigestsWereSent'
  BY OwnerAlone, HeldTypes
  DEF Abandon, Goto, IInv, TypeOK, DigestsWereSent, IdempotencyRecords,
      ControlPoints, Submissions, States, Executing, InAction, Finished
<1>14. (AccessChanges \/ UNCHANGED vars) => DigestsWereSent'
  BY
  DEF AccessChanges, vars, IInv, TypeOK, DigestsWereSent, IdempotencyRecords,
      ControlPoints, Submissions
<1> QED
  BY <1>1, <1>2, <1>3, <1>4, <1>5, <1>6, <1>7, <1>8, <1>9, <1>10, <1>11, <1>12,
     <1>13, <1>14
  DEF Next, Step, Fault

LEMMA ControlPointsStep == ASSUME IInv, [Next]_vars PROVE ControlPoints'
<1>1. ASSUME NEW r \in Requests PROVE Admit(r) => ControlPoints'
  BY HeldTypes, OutcomeTypes
  DEF Admit, Goto, Respond, Refusal, Success, IInv, TypeOK, ControlPoints,
      Confirmed, Justified, NotAcceptedFrom, Register!KeyWasReused,
      BeforeInsert, ErrorCodes, Register!DefiniteRefusals, Submissions, States,
      Executing, InAction, Finished
<1>2. ASSUME NEW r \in Requests PROVE LookupRecord(r) => ControlPoints'
  BY HeldTypes, OutcomeTypes
  DEF LookupRecord, Goto, Respond, Refusal, Success, IInv, TypeOK,
      ControlPoints, Confirmed, Justified, NotAcceptedFrom,
      Register!KeyWasReused, BeforeInsert, ErrorCodes,
      Register!DefiniteRefusals, Submissions, States, Executing, InAction,
      Finished, RecordMatchesSubmission, DigestsWereSent
<1>3. ASSUME NEW r \in Requests PROVE ClaimRecord(r) => ControlPoints'
  BY HeldTypes, OutcomeTypes
  DEF ClaimRecord, Goto, Respond, Refusal, InsertRecord, Success, IInv, TypeOK,
      ControlPoints, Confirmed, Justified, NotAcceptedFrom,
      Register!KeyWasReused, BeforeInsert, ErrorCodes,
      Register!DefiniteRefusals, Submissions, States, Executing, InAction,
      Finished
<1>4. ASSUME NEW r \in Requests PROVE FindSubmission(r) => ControlPoints'
  BY HeldTypes, OutcomeTypes
  DEF FindSubmission, Goto, Raise, Refusal, ResumeFrom, Success, IInv, TypeOK,
      ControlPoints, Confirmed, Justified, NotAcceptedFrom,
      Register!KeyWasReused, BeforeInsert, ErrorCodes,
      Register!DefiniteRefusals, Submissions, States, Executing, InAction,
      Finished, RecordMatchesSubmission, DigestsWereSent
<1>5. ASSUME NEW r \in Requests PROVE ReadRubric(r) => ControlPoints'
  BY HeldTypes, OutcomeTypes
  DEF ReadRubric, Goto, Raise, Refusal, Success, IInv, TypeOK, ControlPoints,
      Confirmed, Justified, NotAcceptedFrom, Register!KeyWasReused,
      BeforeInsert, ErrorCodes, Register!DefiniteRefusals, Submissions, States,
      Executing, InAction, Finished
<1>6. ASSUME NEW r \in Requests PROVE Assess(r) => ControlPoints'
  BY HeldTypes, OutcomeTypes
  DEF Assess, Goto, Raise, Refusal, Success, IInv, TypeOK, ControlPoints,
      Confirmed, Justified, NotAcceptedFrom, Register!KeyWasReused,
      BeforeInsert, ErrorCodes, Register!DefiniteRefusals, Submissions, States,
      Executing, InAction, Finished
<1>7. ASSUME NEW r \in Requests PROVE StoreSubmission(r) => ControlPoints'
  <2> SUFFICES ASSUME StoreSubmission(r) PROVE ControlPoints'
    OBVIOUS
  <2>1. \A q \in Requests : KeyOf[q] = KeyOf[r] /\ pc[q] \in Executing => q = r
    BY OwnerAlone DEF StoreSubmission, Executing, InAction
  <2>2. submission[KeyOf[r]] = None
    BY DEF IInv, ControlPoints, StoreSubmission
  <2>3. CASE InsertBinds
    BY <2>1, <2>2, <2>3, HeldTypes, OutcomeTypes
    DEF StoreSubmission, Goto, InsertRow, Success, Refusal, IInv, TypeOK,
        ControlPoints, Confirmed, Justified, NotAcceptedFrom,
        Register!KeyWasReused, BeforeInsert, ErrorCodes,
        Register!DefiniteRefusals, Submissions, States, Executing, InAction,
        Finished
  <2>4. CASE ~ InsertBinds
    BY <2>1, <2>2, <2>4, HeldTypes, OutcomeTypes
    DEF StoreSubmission, Goto, Raise, Success, Refusal, IInv, TypeOK,
        ControlPoints, Confirmed, Justified, NotAcceptedFrom,
        Register!KeyWasReused, BeforeInsert, ErrorCodes,
        Register!DefiniteRefusals, Submissions, States, Executing, InAction,
        Finished
  <2> QED BY <2>3, <2>4
<1>8. ASSUME NEW r \in Requests PROVE ReplaySubmission(r) => ControlPoints'
  BY HeldTypes, OutcomeTypes
  DEF ReplaySubmission, Goto, Raise, Refusal, Success, IInv, TypeOK,
      ControlPoints, Confirmed, Justified, NotAcceptedFrom,
      Register!KeyWasReused, BeforeInsert, ErrorCodes,
      Register!DefiniteRefusals, Submissions, States, Executing, InAction,
      Finished
<1>9. ASSUME NEW r \in Requests PROVE StoreResponse(r) => ControlPoints'
  BY HeldTypes, OutcomeTypes
  DEF StoreResponse, Goto, Respond, UpdateRecord, Success, Refusal, IInv,
      TypeOK, ControlPoints, Confirmed, Justified, NotAcceptedFrom,
      Register!KeyWasReused, BeforeInsert, ErrorCodes,
      Register!DefiniteRefusals, Submissions, States, Executing, InAction,
      Finished
<1>10. ASSUME NEW r \in Requests PROVE UndoClaim(r) => ControlPoints'
  BY HeldTypes, OutcomeTypes
  DEF UndoClaim, Goto, Respond, DeleteRecord, Success, Refusal, IInv, TypeOK,
      ControlPoints, Confirmed, Justified, NotAcceptedFrom,
      Register!KeyWasReused, BeforeInsert, ErrorCodes,
      Register!DefiniteRefusals, Submissions, States, Executing, InAction,
      Finished
<1>11. ASSUME NEW r \in Requests PROVE TransactionFails(r) => ControlPoints'
  BY HeldTypes, OutcomeTypes
  DEF TransactionFails, Goto, Respond, Raise, Refusal, Success, IInv, TypeOK,
      ControlPoints, Confirmed, Justified, NotAcceptedFrom,
      Register!KeyWasReused, BeforeInsert, ErrorCodes,
      Register!DefiniteRefusals, Submissions, States, Executing, InAction,
      Finished
<1>12. ASSUME NEW r \in Requests PROVE CommitUnacknowledged(r) => ControlPoints'
  <2> SUFFICES ASSUME CommitUnacknowledged(r) PROVE ControlPoints'
    OBVIOUS
  <2>1. CASE CommittedClaim(r)
    BY <2>1, OwnerAlone, HeldTypes, OutcomeTypes, RecordTypes
    DEF Success, Refusal, IInv, TypeOK, ControlPoints, Confirmed, Justified,
        NotAcceptedFrom, Register!KeyWasReused, BeforeInsert, ErrorCodes,
        Register!DefiniteRefusals, Submissions, CommittedClaim, ErrorCodes,
        States, Executing, InAction, Finished
  <2>2. CASE CommittedInsert(r)
    <3>1. \A q \in Requests : KeyOf[q] = KeyOf[r] /\ pc[q] \in Executing => q = r
      BY <2>2, OwnerAlone DEF CommittedInsert, Executing, InAction
    <3> QED BY <2>2, <3>1, HeldTypes, OutcomeTypes
            DEF CommittedInsert, Success, Refusal, IInv, TypeOK, ControlPoints,
                Confirmed, Justified, NotAcceptedFrom, Register!KeyWasReused,
                BeforeInsert, ErrorCodes, Register!DefiniteRefusals,
                Submissions, States, Executing, InAction, Finished
  <2>3. CASE CommittedStore(r)
    BY <2>3, OwnerAlone, HeldTypes, OutcomeTypes, RecordTypes
    DEF Success, Refusal, IInv, TypeOK, ControlPoints, Confirmed, Justified,
        NotAcceptedFrom, Register!KeyWasReused, BeforeInsert, ErrorCodes,
        Register!DefiniteRefusals, Submissions, CommittedStore, ErrorCodes,
        States, Executing, InAction, Finished
  <2>4. CASE CommittedUndo(r)
    BY <2>4, OwnerAlone, HeldTypes, OutcomeTypes, RecordTypes
    DEF Success, Refusal, IInv, TypeOK, ControlPoints, Confirmed, Justified,
        NotAcceptedFrom, Register!KeyWasReused, BeforeInsert, ErrorCodes,
        Register!DefiniteRefusals, Submissions, CommittedUndo, ErrorCodes,
        States, Executing, InAction, Finished
  <2> QED BY CommitUnacknowledgedCases, <2>1, <2>2, <2>3, <2>4
<1>13. ASSUME NEW r \in Requests PROVE Abandon(r) => ControlPoints'
  BY HeldTypes, OutcomeTypes
  DEF Abandon, Goto, Success, Refusal, IInv, TypeOK, ControlPoints, Confirmed,
      Justified, NotAcceptedFrom, Register!KeyWasReused, BeforeInsert,
      ErrorCodes, Register!DefiniteRefusals, Submissions, States, Executing,
      InAction, Finished
<1>14. (AccessChanges \/ UNCHANGED vars) => ControlPoints'
  BY
  DEF AccessChanges, vars, Success, Refusal, IInv, TypeOK, ControlPoints,
      Confirmed, Justified, NotAcceptedFrom, Register!KeyWasReused,
      BeforeInsert, ErrorCodes, Register!DefiniteRefusals, Submissions
<1> QED
  BY <1>1, <1>2, <1>3, <1>4, <1>5, <1>6, <1>7, <1>8, <1>9, <1>10, <1>11, <1>12,
     <1>13, <1>14
  DEF Next, Step, Fault

-----------------------------------------------------------------------------
(***************************************************************************)
(* Initial state and the theorems.                                         *)
(***************************************************************************)
LEMMA InitIInv == Init => IInv
<1> SUFFICES ASSUME Init PROVE IInv
  OBVIOUS
<1>1. TypeOK
  BY DEF Init, TypeOK, States
<1>2. OneExecutorPerKey /\ RecordMatchesSubmission /\ DigestsWereSent
  BY DEF Init, OneExecutorPerKey, RecordMatchesSubmission, DigestsWereSent,
     Executing, InAction
<1>3. ControlPoints
  BY DEF Init, ControlPoints, NotAcceptedFrom
<1> QED BY <1>1, <1>2, <1>3 DEF IInv

LEMMA IInvStep == IInv /\ [Next]_vars => IInv'
BY TypeOKStep, OneExecutorPerKeyStep, RecordMatchesSubmissionStep,
   DigestsWereSentStep, ControlPointsStep DEF IInv

\* The inductive invariant holds in every reachable state of the service:
\* each control point of _idempotent and create_submission knows what the
\* record of its key and the authoritative row say.
THEOREM Invariance == Spec => []IInv
BY InitIInv, IInvStep, PTL DEF Spec

\* Every variable keeps its type, for any sets of requests and keys.
THEOREM TypeCorrectness == Spec => []TypeOK
<1>1. IInv => TypeOK
  BY DEF IInv
<1> QED BY Invariance, <1>1, PTL

\* The idempotency record is a lock: whatever the faults, at most one request
\* runs create_submission for a key, and it owns the unanswered record.
THEOREM MutualExclusion == Spec => []OneExecutorPerKey
<1>1. IInv => OneExecutorPerKey
  BY DEF IInv
<1> QED BY Invariance, <1>1, PTL

\* A cached response is always the response of the authoritative row.
THEOREM CacheCoherence == Spec => []RecordMatchesSubmission
<1>1. IInv => RecordMatchesSubmission
  BY DEF IInv
<1> QED BY Invariance, <1>1, PTL

\* Two successes for one key carry the same submission.
THEOREM Agreement == Spec => []SuccessesAgree
<1>1. IInv => SuccessesAgree
  <2> SUFFICES ASSUME IInv, NEW r \in Requests, NEW q \in Requests,
                      reply[r] # None, reply[r].code = "OK",
                      reply[q] # None, reply[q].code = "OK",
                      KeyOf[r] = KeyOf[q]
               PROVE  reply[r].row = reply[q].row /\ DigestOf[r] = DigestOf[q]
    BY DEF SuccessesAgree
  <2>1. ASSUME NEW p \in Requests, reply[p] # None, reply[p].code = "OK"
        PROVE  Confirmed(p, reply[p])
    BY <2>1 DEF IInv, ControlPoints, Justified, Refusal, ErrorCodes,
       Register!DefiniteRefusals
  <2> QED BY <2>1 DEF Confirmed
<1> QED BY Invariance, <1>1, PTL

\* A request that got a definite 4xx has no row behind the member's back.
THEOREM Truthfulness == Spec => []RefusalsAreTruthful
<1>1. IInv => RefusalsAreTruthful
  <2> SUFFICES ASSUME IInv, NEW r \in Requests, reply[r] # None,
                      reply[r].code \in Register!DefiniteRefusals
               PROVE  ~ Register!AcceptedFrom(r)
    BY DEF RefusalsAreTruthful
  <2>1. Justified(r, reply[r])
    <3>1. Confirmed(r, reply[r]) => reply[r].code = "OK"
      BY DEF Confirmed, Success
    <3>2. reply[r].code # "OK"
      BY DEF Register!DefiniteRefusals
    <3> QED BY <3>1, <3>2 DEF IInv, ControlPoints
  <2> QED BY <2>1
          DEF Justified, Refusal, NotAcceptedFrom, Register!AcceptedFrom,
             Register!DefiniteRefusals
<1> QED BY Invariance, <1>1, PTL

-----------------------------------------------------------------------------
(***************************************************************************)
(* Refinement: every step of the service is a step of the register or      *)
(* leaves the submissions and the answers alone.                           *)
(***************************************************************************)
LEMMA RegisterInit == Init => Register!Init
BY DEF Init, Register!Init

\* An answer the invariant justifies is an answer the register may give.
LEMMA JustifiedAnswer ==
    ASSUME IInv, NEW r \in Requests, NEW out, reply[r] = None,
           Confirmed(r, out) \/ Justified(r, out),
           reply' = [reply EXCEPT ![r] = out], UNCHANGED submission
    PROVE  Register!Next
<1>1. CASE Confirmed(r, out)
  <2>1. Register!AnswerWithSubmission(r)
    BY <1>1
    DEF Confirmed, Success, Register!AnswerWithSubmission, Register!Success
  <2> QED BY <2>1 DEF Register!Next
<1>2. CASE Justified(r, out)
  <2>1. PICK c \in ErrorCodes :
           /\ out = Refusal(c)
           /\ c # "INTERNAL_ERROR" => NotAcceptedFrom(r)
           /\ c = "IDEMPOTENCY_KEY_REUSED" => Register!KeyWasReused(r)
    BY <1>2 DEF Justified
  <2>2. CASE c = "INTERNAL_ERROR"
    <3>1. Register!ReportInternalError(r)
      BY <2>1, <2>2 DEF Refusal, Register!ReportInternalError, Register!Refusal
    <3> QED BY <3>1 DEF Register!Next
  <2>3. CASE c # "INTERNAL_ERROR"
    <3>1. c \in Register!DefiniteRefusals
      BY <2>3 DEF ErrorCodes
    <3>2. Register!RefuseRequest(r, c)
      BY <2>1, <2>3 DEF Refusal, NotAcceptedFrom, Register!AcceptedFrom,
         Register!RefuseRequest, Register!Refusal
    <3> QED BY <3>1, <3>2 DEF Register!Next
  <2> QED BY <2>2, <2>3
<1> QED BY <1>1, <1>2

\* A request that has not finished has not been answered.
LEMMA Unanswering ==
    ASSUME IInv, NEW r \in Requests, pc[r] # "replied"
    PROVE  reply[r] = None
BY DEF IInv, TypeOK

\* After a step, whoever was just answered was answered justifiably.
LEMMA AnsweringStep ==
    ASSUME IInv, [Next]_vars, NEW r \in Requests, NEW out, reply[r] = None,
           out # None, reply' = [reply EXCEPT ![r] = out], UNCHANGED submission
    PROVE  Register!Next
<1>1. ControlPoints'
  BY ControlPointsStep
<1>2. reply'[r] = out
  BY DEF IInv, TypeOK
<1>3. Confirmed(r, out) \/ Justified(r, out)
  BY <1>1, <1>2 DEF ControlPoints, Confirmed, Justified, NotAcceptedFrom,
     Register!KeyWasReused
<1> QED BY <1>3, JustifiedAnswer

LEMMA RegisterStep ==
    ASSUME IInv, [Next]_vars
    PROVE  Register!Next \/ UNCHANGED Register!vars
<1> DEFINE Simulated == Register!Next \/ UNCHANGED <<submission, reply>>
<1>0. Simulated => Register!Next \/ UNCHANGED Register!vars
  BY DEF Register!vars
<1> SUFFICES Simulated
  BY <1>0
<1>a. \A r \in Requests, c \in ErrorCodes :
         pc[r] # "replied" /\ Respond(r, Refusal(c)) /\ UNCHANGED submission
            => Simulated
  <2> SUFFICES ASSUME NEW r \in Requests, NEW c \in ErrorCodes,
                      pc[r] # "replied", Respond(r, Refusal(c)),
                      UNCHANGED submission
               PROVE  Register!Next
    OBVIOUS
  <2>1. reply[r] = None /\ Refusal(c) # None
    BY Unanswering, OutcomeTypes
  <2> QED BY <2>1, AnsweringStep DEF Respond
<1>b. \A r \in Requests :
         pc[r] \in {"store", "undo"} /\ Respond(r, held[r]) /\ UNCHANGED submission
            => Simulated
  <2> SUFFICES ASSUME NEW r \in Requests, pc[r] \in {"store", "undo"},
                      Respond(r, held[r]), UNCHANGED submission
               PROVE  Register!Next
    OBVIOUS
  <2>1. reply[r] = None /\ held[r] # None
    BY Unanswering, HeldTypes
  <2> QED BY <2>1, AnsweringStep DEF Respond
<1>c. ASSUME NEW r \in Requests, pc[r] = "insert", submission[KeyOf[r]] = None,
             InsertRow(r), UNCHANGED reply
      PROVE  Simulated
  <2>1. /\ held[r].row \in Submissions
        /\ held[r].row.id = r
        /\ held[r].row.digest = DigestOf[r]
    BY <1>c DEF IInv, ControlPoints
  <2>2. PICK v \in Verdicts :
           held[r].row = [id |-> r, digest |-> DigestOf[r], verdict |-> v]
    BY <2>1 DEF Submissions
  <2>3. Register!AcceptSubmission(r)
    BY <1>c, <2>2, Unanswering DEF InsertRow, Register!AcceptSubmission
  <2> QED BY <2>3 DEF Register!Next
<1>1. ASSUME NEW r \in Requests PROVE Admit(r) => Simulated
  BY <1>a DEF Admit, ErrorCodes, Register!DefiniteRefusals
<1>2. ASSUME NEW r \in Requests PROVE LookupRecord(r) => Simulated
  <2> SUFFICES ASSUME LookupRecord(r) PROVE Simulated
    OBVIOUS
  <2>1. CASE UNCHANGED reply
    BY <2>1 DEF LookupRecord
  <2>2. CASE Respond(r, record[KeyOf[r]].response) /\ record[KeyOf[r]].response # None
    BY <2>2, Unanswering, AnsweringStep DEF LookupRecord, Respond
  <2>3. CASE Respond(r, Refusal("IDEMPOTENCY_KEY_REUSED"))
    BY <2>3, <1>a DEF LookupRecord, ErrorCodes, Register!DefiniteRefusals
  <2>4. CASE Respond(r, Refusal("IDEMPOTENCY_IN_PROGRESS"))
    BY <2>4, <1>a DEF LookupRecord, ErrorCodes, Register!DefiniteRefusals
  <2> QED BY <2>1, <2>2, <2>3, <2>4 DEF LookupRecord
<1>3. ASSUME NEW r \in Requests PROVE ClaimRecord(r) => Simulated
  BY <1>a DEF ClaimRecord, ErrorCodes
<1>4. ASSUME NEW r \in Requests PROVE
         FindSubmission(r) \/ ReadRubric(r) \/ Assess(r) \/ ReplaySubmission(r)
         \/ Abandon(r) => Simulated
  BY DEF FindSubmission, ReadRubric, Assess, ReplaySubmission, Abandon
<1>5. ASSUME NEW r \in Requests PROVE StoreSubmission(r) => Simulated
  BY <1>c DEF StoreSubmission
<1>6. ASSUME NEW r \in Requests PROVE StoreResponse(r) \/ UndoClaim(r) => Simulated
  BY <1>b DEF StoreResponse, UndoClaim
<1>7. ASSUME NEW r \in Requests PROVE TransactionFails(r) => Simulated
  BY <1>a DEF TransactionFails, InAction, ErrorCodes
<1>8. ASSUME NEW r \in Requests PROVE CommitUnacknowledged(r) => Simulated
  BY <1>a, <1>c DEF CommitUnacknowledged, ErrorCodes
<1>9. AccessChanges \/ UNCHANGED vars => Simulated
  BY DEF AccessChanges, vars
<1> QED
  BY <1>1, <1>2, <1>3, <1>4, <1>5, <1>6, <1>7, <1>8, <1>9 DEF Next, Step, Fault

\* The service, with its envelope, its races and its faults, implements the
\* register: one submission per key, never changed, and only true answers.
THEOREM Refinement == Spec => ImplementsRegister
<1>1. IInv /\ [Next]_vars => [Register!Next]_(Register!vars)
  BY RegisterStep
<1> QED BY Invariance, RegisterInit, <1>1, PTL
        DEF Spec, ImplementsRegister, Register!Spec

-----------------------------------------------------------------------------
(***************************************************************************)
(* The parts of ClaimIsReleased that need no fairness: who may be behind a *)
(* record that refuses every retry, and that handlers do not run for ever. *)
(***************************************************************************)

\* r may be the reason why its key is taken: it executes the action, it died, or
\* it lost a transaction of the envelope.
MayHoldClaim(r) ==
    \/ pc[r] \in Executing \cup {"gone"}
    \/ reply[r] = Refusal("INTERNAL_ERROR")

ClaimsHaveHolders ==
    \A k \in Keys : Unanswered(k) => \E r \in Requests : KeyOf[r] = k /\ MayHoldClaim(r)

\* What a step does to the records: one is claimed by a request that goes on, or
\* loses its commit; the others were there, as they are.
LEMMA RecordOrigin ==
    ASSUME IInv, [Next]_vars, NEW k \in Keys, Unanswered(k)'
    PROVE  \/ Unanswered(k) /\ record'[k] = record[k]
           \/ \E r \in Requests : KeyOf[r] = k /\ MayHoldClaim(r)'
<1>1. ASSUME NEW r \in Requests, pc[r] \in Executing, UpdateRecord(r)
      PROVE  KeyOf[r] = k \/ record'[k] = record[k]
  BY <1>1 DEF UpdateRecord, IInv, TypeOK
<1>2. ASSUME NEW r \in Requests, pc[r] \in {"store", "undo"}, UpdateRecord(r)
      PROVE  record'[KeyOf[r]].response # None
  <2>1. record[KeyOf[r]] = [digest |-> DigestOf[r], response |-> None]
    BY <1>2, OwnerAlone DEF Executing
  <2>2. held[r] # None /\ record[KeyOf[r]] # None
    BY <1>2, HeldTypes, OwnerAlone DEF Executing
  <2>3. record'[KeyOf[r]] = [record[KeyOf[r]] EXCEPT !.response = held[r]]
    <3>1. KeyOf[r] \in Keys /\ record \in [Keys -> IdempotencyRecords \cup {None}]
      BY DEF IInv, TypeOK
    <3> QED BY <1>2, <2>2, <3>1 DEF UpdateRecord
  <2> QED BY <2>1, <2>2, <2>3, RecordUpdate
<1>3. ASSUME NEW r \in Requests, Step(r) \/ Fault(r), record' # record
      PROVE  \/ KeyOf[r] # k /\ record'[k] = record[k]
             \/ KeyOf[r] = k /\ MayHoldClaim(r)'
  <2>1. CASE ClaimRecord(r)
    BY <1>3, <2>1
    DEF ClaimRecord, InsertRecord, Goto, MayHoldClaim, Executing, InAction, IInv, TypeOK
  <2>2. CASE StoreResponse(r)
    BY <1>1, <1>2, <2>2 DEF StoreResponse, Unanswered, Executing, IInv, TypeOK
  <2>3. CASE UndoClaim(r)
    BY <2>3 DEF UndoClaim, DeleteRecord, Unanswered, IInv, TypeOK
  <2>4. CASE CommitUnacknowledged(r)
    <3>1. record'[k] # record[k] => KeyOf[r] = k
      BY <1>1, <2>4
      DEF CommitUnacknowledged, InsertRecord, DeleteRecord, Executing, InAction,
          IInv, TypeOK
    <3>2. reply'[r] = Refusal("INTERNAL_ERROR")
      BY <1>3, <2>4 DEF CommitUnacknowledged, Respond, IInv, TypeOK
    <3> QED BY <3>1, <3>2 DEF MayHoldClaim
  <2> QED BY <1>3, <2>1, <2>2, <2>3, <2>4
          DEF Step, Fault, Admit, LookupRecord, FindSubmission, ReadRubric, Assess,
              StoreSubmission, ReplaySubmission, TransactionFails, Abandon
<1>4. CASE \E r \in Requests : Step(r) \/ Fault(r)
  BY <1>3, <1>4 DEF Unanswered
<1>5. CASE AccessChanges \/ UNCHANGED vars
  BY <1>5 DEF AccessChanges, vars, Unanswered
<1> QED BY <1>4, <1>5 DEF Next

\* A holder stays one, as long as the record it may hold is not answered or gone.
LEMMA HolderStays ==
    ASSUME IInv, [Next]_vars, NEW k \in Keys, Unanswered(k), record'[k] = record[k],
           NEW r \in Requests, KeyOf[r] = k, MayHoldClaim(r)
    PROVE  MayHoldClaim(r)'
<1>1. ASSUME NEW q \in Requests, q # r, Step(q) \/ Fault(q)
      PROVE  pc'[r] = pc[r] /\ reply'[r] = reply[r]
  BY <1>1
  DEF Step, Fault, Admit, LookupRecord, ClaimRecord, FindSubmission, ResumeFrom,
      ReadRubric, Assess, StoreSubmission, ReplaySubmission, StoreResponse, UndoClaim,
      TransactionFails, CommitUnacknowledged, Abandon, Goto, Respond, Raise, IInv, TypeOK
<1>2. CASE Step(r) \/ Fault(r)
  <2>1. reply[r] = None /\ pc[r] \in Executing
    <3>1. pc[r] \notin Finished
      BY <1>2
      DEF Step, Fault, Admit, LookupRecord, ClaimRecord, FindSubmission, ReadRubric,
          Assess, StoreSubmission, ReplaySubmission, StoreResponse, UndoClaim,
          TransactionFails, CommitUnacknowledged, Abandon, InAction, Finished
    <3>2. reply[r] = None
      BY <3>1 DEF IInv, TypeOK, Finished
    <3>3. Refusal("INTERNAL_ERROR") # None
      BY OutcomeTypes DEF ErrorCodes
    <3> QED BY <3>1, <3>2, <3>3 DEF MayHoldClaim, Finished
  <2>2. ~ StoreResponse(r)
    <3> SUFFICES ASSUME StoreResponse(r) PROVE FALSE
      OBVIOUS
    <3>1. record[k] = [digest |-> DigestOf[r], response |-> None] /\ record[k] # None
      BY <2>1, OwnerAlone
    <3>2. record'[k] = [record[k] EXCEPT !.response = held[r]]
      BY <3>1 DEF StoreResponse, UpdateRecord, IInv, TypeOK
    <3>3. held[r] # None
      BY HeldTypes DEF StoreResponse
    <3> QED BY <3>1, <3>2, <3>3, RecordUpdate
  <2>3. ~ UndoClaim(r)
    BY DEF UndoClaim, DeleteRecord, Unanswered, IInv, TypeOK
  <2>4. CASE TransactionFails(r) \/ CommitUnacknowledged(r) \/ Abandon(r)
    BY <2>4
    DEF TransactionFails, CommitUnacknowledged, Abandon, Goto, Respond, Raise,
        MayHoldClaim, Executing, IInv, TypeOK
  <2>5. CASE FindSubmission(r) \/ ReadRubric(r) \/ Assess(r) \/ StoreSubmission(r)
             \/ ReplaySubmission(r)
    BY <2>5
    DEF FindSubmission, ResumeFrom, ReadRubric, Assess, StoreSubmission,
        ReplaySubmission, Goto, Raise, MayHoldClaim, Executing, InAction, IInv, TypeOK
  <2>6. ~ (Admit(r) \/ LookupRecord(r) \/ ClaimRecord(r))
    BY <2>1 DEF Admit, LookupRecord, ClaimRecord, Executing, InAction
  <2> QED BY <1>2, <2>2, <2>3, <2>4, <2>5, <2>6 DEF Step, Fault
<1>3. CASE \E q \in Requests : Step(q) \/ Fault(q)
  BY <1>1, <1>2, <1>3 DEF MayHoldClaim
<1>4. CASE AccessChanges \/ UNCHANGED vars
  BY <1>4 DEF AccessChanges, vars, MayHoldClaim
<1> QED BY <1>3, <1>4 DEF Next

\* A record without a response, which answers every retry with
\* IDEMPOTENCY_IN_PROGRESS, is the claim of a request that still runs, died, or
\* was told of an internal error: no order of requests leaves one behind.
THEOREM ClaimsAreHeld == Spec => []ClaimsHaveHolders
<1>1. Init => ClaimsHaveHolders
  BY DEF Init, ClaimsHaveHolders, Unanswered
<1>2. IInv /\ ClaimsHaveHolders /\ [Next]_vars => ClaimsHaveHolders'
  <2> SUFFICES ASSUME IInv, ClaimsHaveHolders, [Next]_vars, NEW k \in Keys, Unanswered(k)'
               PROVE  \E r \in Requests : KeyOf[r] = k /\ MayHoldClaim(r)'
    BY DEF ClaimsHaveHolders
  <2>1. CASE Unanswered(k) /\ record'[k] = record[k]
    <3>1. PICK r \in Requests : KeyOf[r] = k /\ MayHoldClaim(r)
      BY <2>1 DEF ClaimsHaveHolders
    <3>2. MayHoldClaim(r)'
      BY <2>1, <3>1, HolderStays
    <3> QED BY <3>1, <3>2
  <2> QED BY <2>1, RecordOrigin
<1> QED BY Invariance, <1>1, <1>2, PTL DEF Spec

\* How many transactions a handler has before it at most.
Remaining(p) ==
    CASE p = "received" -> 10
      [] p = "lookup"   -> 9
      [] p = "claim"    -> 8
      [] p = "find"     -> 7
      [] p = "rubric"   -> 6
      [] p = "assess"   -> 5
      [] p = "insert"   -> 4
      [] p = "replay"   -> 3
      [] p = "store"    -> 2
      [] p = "undo"     -> 1
      [] p \in Finished -> 0

\* r moves on, and nobody else.
MovesOn(r) ==
    /\ Remaining(pc'[r]) < Remaining(pc[r])
    /\ \A q \in Requests \ {r} : pc'[q] = pc[q]

LEMMA HandlerMovesOn ==
    ASSUME TypeOK, NEW r \in Requests, Step(r) \/ Fault(r)
    PROVE  MovesOn(r)
<1>1. ASSUME NEW p \in States, pc' = [pc EXCEPT ![r] = p],
             Remaining(p) < Remaining(pc[r])
      PROVE  MovesOn(r)
  BY <1>1 DEF MovesOn, TypeOK
<1>2. CASE Admit(r) \/ LookupRecord(r) \/ ClaimRecord(r)
  BY <1>1, <1>2
  DEF Admit, LookupRecord, ClaimRecord, Goto, Respond, Remaining, States, Executing,
      InAction, Finished
<1>3. CASE FindSubmission(r) \/ ReadRubric(r)
  BY <1>1, <1>3
  DEF FindSubmission, ResumeFrom, ReadRubric, Goto, Raise, Remaining, States,
      Executing, InAction, Finished
<1>4. CASE Assess(r)
  <2>1. pc[r] = "assess" /\ (Goto(r, "insert") \/ Goto(r, "undo"))
    BY <1>4 DEF Assess, Raise
  <2> QED BY <1>1, <2>1 DEF Goto, Remaining, States, Executing, InAction, Finished
<1>5. CASE StoreSubmission(r) \/ ReplaySubmission(r)
  BY <1>1, <1>5
  DEF StoreSubmission, ResumeFrom, ReplaySubmission, Goto, Raise, Remaining, States,
      Executing, InAction, Finished
<1>6. CASE StoreResponse(r) \/ UndoClaim(r)
  BY <1>1, <1>6
  DEF StoreResponse, UndoClaim, Goto, Respond, Remaining, States, Finished
<1>7. CASE TransactionFails(r)
  BY <1>1, <1>7
  DEF TransactionFails, Goto, Respond, Raise, Remaining, States, Executing, InAction,
      Finished
<1>8. CASE CommitUnacknowledged(r)
  BY <1>1, <1>8
  DEF CommitUnacknowledged, Goto, Respond, Raise, Remaining, States, Executing,
      InAction, Finished
<1>9. CASE Abandon(r)
  BY <1>1, <1>9
  DEF Abandon, Goto, Remaining, TypeOK, States, Executing, InAction, Finished
<1> QED BY <1>2, <1>3, <1>4, <1>5, <1>6, <1>7, <1>8, <1>9 DEF Step, Fault

\* Every step but a change of access brings one handler nearer its end, which is at
\* most ten transactions away, whatever fails: no request retries by itself, waits
\* for another or runs for ever (_idempotent, create_submission).
THEOREM HandlersMoveOn ==
    Spec => /\ [](\A r \in Requests : Remaining(pc[r]) \in 0..10)
            /\ [][AccessChanges \/ \E r \in Requests : MovesOn(r)]_vars
<1>1. TypeOK => \A r \in Requests : Remaining(pc[r]) \in 0..10
  <2>1. \A p \in States : Remaining(p) \in 0..10
    BY DEF Remaining, States, Executing, InAction, Finished
  <2> QED BY <2>1 DEF TypeOK
<1>2. TypeOK /\ [Next]_vars => [AccessChanges \/ \E r \in Requests : MovesOn(r)]_vars
  BY HandlerMovesOn DEF Next
<1> QED BY <1>1, <1>2, TypeCorrectness, PTL DEF Spec

-----------------------------------------------------------------------------
(***************************************************************************)
(* Assessment: the sums of the scoring core and of the database.  Both are *)
(* folds; that a fold over a set is what it should be is shown by counting *)
(* a weight in units, which are the elements of a set.                     *)
(***************************************************************************)

\* f and g agree on the empty set, and on a set as soon as they agree on the set
\* without one of its elements.
AgreeByOne(f, g, S) ==
    /\ f[{}] = g[{}]
    /\ \A s \in SUBSET S :
          s # {} => \E x \in s : f[s \ {x}] = g[s \ {x}] => f[s] = g[s]

LEMMA SubsetInduction ==
    ASSUME NEW S, IsFiniteSet(S), NEW f, NEW g, AgreeByOne(f, g, S)
    PROVE  \A s \in SUBSET S : f[s] = g[s]
<1> DEFINE Bad == { s \in SUBSET S : f[s] # g[s] }
<1> SUFFICES ASSUME Bad # {} PROVE FALSE
  OBVIOUS
<1>1. IsWellFoundedOn(StrictSubsetOrdering(S), SUBSET S)
  BY FS_StrictSubsetOrderingWellFounded, FS_FiniteSubsetsOfFinite
<1>2. Bad \subseteq SUBSET S
  OBVIOUS
<1>3. PICK s \in Bad : \A t \in Bad : <<t, s>> \notin StrictSubsetOrdering(S)
  <2> HIDE DEF Bad
  <2> QED BY <1>1, <1>2, WFMin
<1>4. s \in SUBSET S /\ f[s] # g[s] /\ s # {}
  BY DEF AgreeByOne
<1>5. PICK x \in s : f[s \ {x}] = g[s \ {x}] => f[s] = g[s]
  BY <1>4 DEF AgreeByOne
<1>6. <<s \ {x}, s>> \in StrictSubsetOrdering(S)
  <2>1. s \ {x} \in SUBSET S /\ s \ {x} \subseteq s /\ s \ {x} # s
    BY <1>4
  <2> QED BY <1>4, <2>1 DEF StrictSubsetOrdering
<1>7. s \ {x} \in SUBSET S /\ s \ {x} \notin Bad
  BY <1>3, <1>4, <1>6
<1> QED BY <1>4, <1>5, <1>7

\* A weight is counted in units: the units of the items of S.
Units(items, S) == { u \in S \X (Nat \ {0}) : u[2] <= items[u[1]].weight }

Weighed(items, S) == Cardinality(Units(items, S))

Gradable(items) ==
    \A i \in DOMAIN items : /\ items[i].weight \in Nat \ {0}
                            /\ items[i].critical \in BOOLEAN

\* One item more adds its weight.
LEMMA OneMoreItem ==
    ASSUME NEW items, Gradable(items), NEW S, S \subseteq DOMAIN items, NEW x \in S,
           IsFiniteSet(Units(items, S \ {x}))
    PROVE  /\ IsFiniteSet(Units(items, S))
           /\ Weighed(items, S \ {x}) \in Nat
           /\ Weighed(items, S) = Weighed(items, S \ {x}) + items[x].weight
<1>1. PICK w \in Nat \ {0} : w = items[x].weight
  BY DEF Gradable
<1>2. PICK A : A = Units(items, S \ {x})
  OBVIOUS
<1>3. PICK B : B = {x} \X (1..w)
  OBVIOUS
<1>4. Units(items, S) = A \cup B
  BY <1>1, <1>2, <1>3 DEF Units
<1>5. A \cap B = {}
  BY <1>2, <1>3 DEF Units
<1>6. IsFiniteSet({x}) /\ Cardinality({x}) = 1
  BY FS_Singleton
<1>7. IsFiniteSet(1..w) /\ Cardinality(1..w) = w
  <2>1. 1 \in Int /\ w \in Int /\ (IF 1 > w THEN 0 ELSE w - 1 + 1) = w
    OBVIOUS
  <2> QED BY <2>1, FS_Interval
<1>8. IsFiniteSet(B) /\ Cardinality(B) = w
  <2>1. /\ IsFiniteSet({x} \X (1..w))
        /\ Cardinality({x} \X (1..w)) = Cardinality({x}) * Cardinality(1..w)
    BY <1>6, <1>7, FS_Product, Zenon
  <2>2. Cardinality({x}) * Cardinality(1..w) = 1 * w
    BY <1>6, <1>7
  <2>3. Cardinality(B) = 1 * w
    BY <1>3, <2>1, <2>2
  <2> QED BY <1>3, <2>1, <2>3
<1>9. IsFiniteSet(A) /\ Cardinality(A) \in Nat
  BY <1>2, FS_CardinalityType
<1>10. IsFiniteSet(A \cup B) /\ Cardinality(A \cup B) = Cardinality(A) + w
  <2>1. Cardinality(A \cap B) = 0
    BY <1>5, FS_EmptySet
  <2>2. IsFiniteSet(A \cup B)
        /\ Cardinality(A \cup B) = Cardinality(A) + Cardinality(B) - Cardinality(A \cap B)
    BY <1>8, <1>9, FS_Union
  <2> QED BY <1>8, <1>9, <2>1, <2>2
<1> QED BY <1>1, <1>2, <1>4, <1>9, <1>10 DEF Weighed

LEMMA NoItems ==
    ASSUME NEW items
    PROVE  IsFiniteSet(Units(items, {})) /\ Weighed(items, {}) = 0
<1>1. Units(items, {}) = {}
  BY DEF Units
<1> QED BY <1>1, FS_EmptySet DEF Weighed

LEMMA UnitsAreFinite ==
    ASSUME NEW items, Gradable(items), IsFiniteSet(DOMAIN items)
    PROVE  \A S \in SUBSET (DOMAIN items) :
              IsFiniteSet(Units(items, S)) /\ Weighed(items, S) \in Nat
<1>1. PICK D : D = DOMAIN items
  OBVIOUS
<1>2. PICK f : f = [s \in SUBSET D |-> IsFiniteSet(Units(items, s))]
  OBVIOUS
<1>3. PICK g : g = [s \in SUBSET D |-> TRUE]
  OBVIOUS
<1>4. f[{}] = g[{}]
  BY <1>2, <1>3, NoItems
<1>5. ASSUME NEW s \in SUBSET D, s # {}
      PROVE  \E x \in s : f[s \ {x}] = g[s \ {x}] => f[s] = g[s]
  <2>1. PICK x \in s : TRUE
    BY <1>5
  <2>2. ASSUME f[s \ {x}] = g[s \ {x}] PROVE f[s] = g[s]
    <3>1. s \ {x} \in SUBSET D
      OBVIOUS
    <3>2. IsFiniteSet(Units(items, s \ {x}))
      BY <1>2, <1>3, <2>2, <3>1
    <3>3. IsFiniteSet(Units(items, s))
      BY <1>1, <3>2, OneMoreItem
    <3> QED BY <1>2, <1>3, <3>3
  <2> QED BY <2>1, <2>2
<1>6. \A s \in SUBSET D : f[s] = g[s]
  <2>1. AgreeByOne(f, g, D)
    BY <1>4, <1>5 DEF AgreeByOne
  <2> QED BY <1>1, <2>1, SubsetInduction
<1>7. \A s \in SUBSET D : IsFiniteSet(Units(items, s))
  BY <1>2, <1>3, <1>6
<1> QED BY <1>1, <1>7, FS_CardinalityType DEF Weighed

\* A set of items weighs as much as all items only if it is all items.
LEMMA FullWeight ==
    ASSUME NEW items, Gradable(items), IsFiniteSet(DOMAIN items),
           NEW S, S \subseteq DOMAIN items
    PROVE  Weighed(items, S) = Weighed(items, DOMAIN items) <=> S = DOMAIN items
<1> SUFFICES ASSUME Weighed(items, S) = Weighed(items, DOMAIN items)
             PROVE  DOMAIN items \subseteq S
  OBVIOUS
<1>1. PICK A : A = Units(items, S)
  OBVIOUS
<1>2. PICK B : B = Units(items, DOMAIN items)
  OBVIOUS
<1>3. A \in SUBSET B
  BY <1>1, <1>2 DEF Units
<1>4. IsFiniteSet(B)
  BY <1>2, UnitsAreFinite
<1>5. A = B
  BY <1>1, <1>2, <1>3, <1>4, FS_Subset DEF Weighed
<1>6. ASSUME NEW i \in DOMAIN items PROVE i \in S
  <2>1. items[i].weight \in Nat /\ items[i].weight >= 1
    BY DEF Gradable
  <2>2. <<i, 1>> \in B
    BY <1>2, <2>1 DEF Units
  <2>3. <<i, 1>> \in Units(items, S)
    BY <1>1, <1>5, <2>2
  <2> QED BY <2>3 DEF Units
<1> QED BY <1>6

\* A fold is the function that CHOOSE finds for its equations.  Counting units
\* gives a function g that satisfies them, so the chosen f satisfies them too, and
\* the equations leave it no other value.  So with each fold of the model: first
\* the total of the core.
LEMMA CoreTotal ==
    ASSUME NEW items, Gradable(items), IsFiniteSet(DOMAIN items)
    PROVE  FoldSeq(LAMBDA item, sum : sum + item.weight, 0, items)
              = Weighed(items, DOMAIN items)
<1>1. PICK D : D = DOMAIN items
  OBVIOUS
<1>2. PICK g : g = [s \in SUBSET D |-> Weighed(items, s)]
  OBVIOUS
<1> DEFINE Unfolded(f, s) == LET x == CHOOSE y \in s : TRUE
                             IN  f[s \ {x}] + items[x].weight
<1>3. ASSUME NEW s \in SUBSET D, s # {} PROVE g[s] = Unfolded(g, s)
  <2>1. PICK x \in s : x = CHOOSE y \in s : TRUE
    BY <1>3
  <2>2. s \ {x} \in SUBSET D
    OBVIOUS
  <2>3. IsFiniteSet(Units(items, s \ {x}))
    BY <1>1, <2>2, UnitsAreFinite
  <2>4. Weighed(items, s) = Weighed(items, s \ {x}) + items[x].weight
    BY <1>1, <2>3, OneMoreItem
  <2> QED BY <1>2, <2>1, <2>2, <2>4
<1>4. g = [s \in SUBSET D |-> IF s = {} THEN 0 ELSE Unfolded(g, s)]
  <2> HIDE DEF Unfolded
  <2>1. \A s \in SUBSET D : g[s] = IF s = {} THEN 0 ELSE Unfolded(g, s)
    BY <1>2, <1>3, NoItems
  <2> QED BY <1>2, <2>1
<1>5. PICK f : f = CHOOSE h : h = [s \in SUBSET D |-> IF s = {} THEN 0 ELSE Unfolded(h, s)]
  OBVIOUS
<1>6. f = [s \in SUBSET D |-> IF s = {} THEN 0 ELSE Unfolded(f, s)]
  <2> DEFINE Satisfies(h) == h = [s \in SUBSET D |-> IF s = {} THEN 0 ELSE Unfolded(h, s)]
  <2>1. Satisfies(g) /\ f = CHOOSE h : Satisfies(h)
    BY <1>4, <1>5
  <2>2. Satisfies(f)
    <3> HIDE DEF Satisfies
    <3> QED BY <2>1
  <2> QED BY <2>2
<1>7. \A s \in SUBSET D : f[s] = g[s]
  <2>1. f[{}] = g[{}]
    BY <1>2, <1>6, NoItems
  <2>2. ASSUME NEW s \in SUBSET D, s # {}
        PROVE  \E x \in s : f[s \ {x}] = g[s \ {x}] => f[s] = g[s]
    <3>1. PICK x \in s : x = CHOOSE y \in s : TRUE
      BY <2>2
    <3>2. f[s] = f[s \ {x}] + items[x].weight /\ g[s] = g[s \ {x}] + items[x].weight
      <4>1. g[s] = g[s \ {x}] + items[x].weight
        BY <1>3, <2>2, <3>1
      <4>2. f[s] = Unfolded(f, s)
        <5> HIDE DEF Unfolded
        <5> QED BY <1>6, <2>2
      <4> QED BY <3>1, <4>1, <4>2
    <3> QED BY <3>2
  <2> HIDE DEF Unfolded
  <2>3. AgreeByOne(f, g, D)
    BY <2>1, <2>2 DEF AgreeByOne
  <2> QED BY <1>1, <2>3, SubsetInduction
<1>8. FoldSeq(LAMBDA item, sum : sum + item.weight, 0, items) = f[D]
  BY <1>1, <1>5 DEF FoldSeq, FoldFunction, FoldFunctionOnSet, MapThenFoldSet
<1> QED BY <1>1, <1>2, <1>7, <1>8

\* The sums of the triggers, over the joined rows of the items of S.
SummedByDatabase(items, S) == MapThenSumSet(LAMBDA i : items[i].weight, S)

LEMMA DatabaseSum ==
    ASSUME NEW items, Gradable(items), IsFiniteSet(DOMAIN items),
           NEW D, D \subseteq DOMAIN items
    PROVE  SummedByDatabase(items, D) = Weighed(items, D)
<1>1. IsFiniteSet(D)
  BY FS_Subset
<1>2. PICK g : g = [s \in SUBSET D |-> Weighed(items, s)]
  OBVIOUS
<1> DEFINE Unfolded(f, s) == LET x == CHOOSE y \in s : TRUE
                             IN  items[x].weight + f[s \ {x}]
<1>3. ASSUME NEW s \in SUBSET D, s # {} PROVE g[s] = Unfolded(g, s)
  <2>1. PICK x \in s : x = CHOOSE y \in s : TRUE
    BY <1>3
  <2>2. s \ {x} \in SUBSET D
    OBVIOUS
  <2>3. IsFiniteSet(Units(items, s \ {x}))
    BY <2>2, UnitsAreFinite
  <2>4. Weighed(items, s) = items[x].weight + Weighed(items, s \ {x})
    <3>1. items[x].weight \in Nat
      BY DEF Gradable
    <3> QED BY <2>3, <3>1, OneMoreItem
  <2> QED BY <1>2, <2>1, <2>2, <2>4
<1>4. g = [s \in SUBSET D |-> IF s = {} THEN 0 ELSE Unfolded(g, s)]
  <2> HIDE DEF Unfolded
  <2>1. \A s \in SUBSET D : g[s] = IF s = {} THEN 0 ELSE Unfolded(g, s)
    BY <1>2, <1>3, NoItems
  <2> QED BY <1>2, <2>1
<1>5. PICK f : f = CHOOSE h : h = [s \in SUBSET D |-> IF s = {} THEN 0 ELSE Unfolded(h, s)]
  OBVIOUS
<1>6. f = [s \in SUBSET D |-> IF s = {} THEN 0 ELSE Unfolded(f, s)]
  <2> DEFINE Satisfies(h) == h = [s \in SUBSET D |-> IF s = {} THEN 0 ELSE Unfolded(h, s)]
  <2>1. Satisfies(g) /\ f = CHOOSE h : Satisfies(h)
    BY <1>4, <1>5
  <2>2. Satisfies(f)
    <3> HIDE DEF Satisfies
    <3> QED BY <2>1
  <2> QED BY <2>2
<1>7. \A s \in SUBSET D : f[s] = g[s]
  <2>1. f[{}] = g[{}]
    BY <1>2, <1>6, NoItems
  <2>2. ASSUME NEW s \in SUBSET D, s # {}
        PROVE  \E x \in s : f[s \ {x}] = g[s \ {x}] => f[s] = g[s]
    <3>1. PICK x \in s : x = CHOOSE y \in s : TRUE
      BY <2>2
    <3>2. f[s] = items[x].weight + f[s \ {x}] /\ g[s] = items[x].weight + g[s \ {x}]
      <4>1. g[s] = items[x].weight + g[s \ {x}]
        BY <1>3, <2>2, <3>1
      <4>2. f[s] = Unfolded(f, s)
        <5> HIDE DEF Unfolded
        <5> QED BY <1>6, <2>2
      <4> QED BY <3>1, <4>1, <4>2
    <3> QED BY <3>2
  <2> HIDE DEF Unfolded
  <2>3. AgreeByOne(f, g, D)
    BY <2>1, <2>2 DEF AgreeByOne
  <2> QED BY <1>1, <2>3, SubsetInduction
<1>8. SummedByDatabase(items, D) = f[D]
  BY <1>1, <1>5 DEF SummedByDatabase, MapThenSumSet, MapThenFoldSet
<1> QED BY <1>1, <1>2, <1>7, <1>8

\* The loop of the core over the decisions.
ScoredByCore(items, decisions) ==
    FoldSet(LAMBDA i, acc :
               IF decisions[i]
               THEN [acc EXCEPT !.weight = @ + items[i].weight]
               ELSE [acc EXCEPT !.critical = @ /\ ~ items[i].critical],
            [weight |-> 0, critical |-> TRUE], DOMAIN items)

\* It yields the weight of the items that are met, and whether no other item is
\* critical.
LEMMA CoreLoop ==
    ASSUME NEW items, Gradable(items), IsFiniteSet(DOMAIN items),
           NEW decisions, NEW met, met = { i \in DOMAIN items : decisions[i] }
    PROVE  ScoredByCore(items, decisions)
              = [weight |-> Weighed(items, met),
                 critical |-> \A i \in DOMAIN items \ met : ~ items[i].critical]
<1>1. PICK D : D = DOMAIN items
  OBVIOUS
<1> DEFINE Scored(s) == [weight |-> Weighed(items, s \cap met),
                         critical |-> \A i \in s \ met : ~ items[i].critical]
<1>2. PICK g : g = [s \in SUBSET D |-> Scored(s)]
  OBVIOUS
<1> DEFINE Count(i, acc) ==
              IF decisions[i]
              THEN [acc EXCEPT !.weight = @ + items[i].weight]
              ELSE [acc EXCEPT !.critical = @ /\ ~ items[i].critical]
           Nought == [weight |-> 0, critical |-> TRUE]
           Unfolded(f, s) == LET x == CHOOSE y \in s : TRUE IN Count(x, f[s \ {x}])
<1>3. ASSUME NEW s \in SUBSET D, NEW x \in s PROVE Scored(s) = Count(x, Scored(s \ {x}))
  <2>1. CASE decisions[x]
    <3>1. (s \ {x}) \cap met = (s \cap met) \ {x} /\ x \in s \cap met
      BY <1>1, <2>1
    <3>2. (s \ {x}) \ met = s \ met
      BY <1>1, <2>1
    <3>3. IsFiniteSet(Units(items, (s \cap met) \ {x}))
      BY <1>1, UnitsAreFinite
    <3>4. Weighed(items, s \cap met)
             = Weighed(items, (s \cap met) \ {x}) + items[x].weight
      BY <1>1, <3>1, <3>3, OneMoreItem
    <3> QED BY <2>1, <3>1, <3>2, <3>4
  <2>2. CASE ~ decisions[x]
    <3>1. (s \ {x}) \cap met = s \cap met
      BY <2>2
    <3>2. x \in s \ met /\ (s \ {x}) \ met = (s \ met) \ {x}
      BY <2>2
    <3>3. (\A i \in s \ met : ~ items[i].critical)
             = ((\A i \in (s \ {x}) \ met : ~ items[i].critical)
                /\ ~ items[x].critical)
      BY <1>1, <3>2 DEF Gradable
    <3> QED BY <2>2, <3>1, <3>3
  <2> QED BY <2>1, <2>2
<1>4. Scored({}) = Nought
  BY NoItems
<1>5. g = [s \in SUBSET D |-> IF s = {} THEN Nought ELSE Unfolded(g, s)]
  <2>1. ASSUME NEW s \in SUBSET D, s # {} PROVE g[s] = Unfolded(g, s)
    <3>1. PICK x \in s : x = CHOOSE y \in s : TRUE
      BY <2>1
    <3>2. s \ {x} \in SUBSET D
      OBVIOUS
    <3>3. g[s] = Scored(s) /\ g[s \ {x}] = Scored(s \ {x})
      BY <1>2, <3>2
    <3> HIDE DEF Scored, Count
    <3> QED BY <1>3, <3>1, <3>3
  <2>2. g[{}] = Nought
    BY <1>2, <1>4
  <2> HIDE DEF Unfolded, Nought
  <2>3. \A s \in SUBSET D : g[s] = IF s = {} THEN Nought ELSE Unfolded(g, s)
    BY <2>1, <2>2
  <2> QED BY <1>2, <2>3
<1>6. PICK f : f = CHOOSE h : h = [s \in SUBSET D |->
                                      IF s = {} THEN Nought ELSE Unfolded(h, s)]
  OBVIOUS
<1>7. f = [s \in SUBSET D |-> IF s = {} THEN Nought ELSE Unfolded(f, s)]
  <2> DEFINE Satisfies(h) == h = [s \in SUBSET D |-> IF s = {} THEN Nought ELSE Unfolded(h, s)]
  <2>1. Satisfies(g) /\ f = CHOOSE h : Satisfies(h)
    <3> HIDE DEF Unfolded, Nought
    <3> QED BY <1>5, <1>6
  <2>2. Satisfies(f)
    <3> HIDE DEF Satisfies
    <3> QED BY <2>1
  <2> QED BY <2>2
<1>8. \A s \in SUBSET D : f[s] = g[s]
  <2> HIDE DEF Nought, Count, Scored
  <2>1. f[{}] = g[{}]
    <3> HIDE DEF Unfolded
    <3> QED BY <1>2, <1>4, <1>7
  <2>2. ASSUME NEW s \in SUBSET D, s # {}
        PROVE  \E x \in s : f[s \ {x}] = g[s \ {x}] => f[s] = g[s]
    <3>1. PICK x \in s : x = CHOOSE y \in s : TRUE
      BY <2>2
    <3>2. f[s] = Unfolded(f, s)
      <4> HIDE DEF Unfolded
      <4> QED BY <1>7, <2>2
    <3>3. g[s] = Unfolded(g, s)
      <4> HIDE DEF Unfolded
      <4> QED BY <1>5, <2>2
    <3> QED BY <3>1, <3>2, <3>3
  <2> HIDE DEF Unfolded
  <2>3. AgreeByOne(f, g, D)
    BY <2>1, <2>2 DEF AgreeByOne
  <2> QED BY <1>1, <2>3, SubsetInduction
<1>9. ScoredByCore(items, decisions) = f[D]
  BY <1>1, <1>6 DEF ScoredByCore, FoldSet, MapThenFoldSet
<1>10. f[D] = Scored(D)
  BY <1>2, <1>8
<1>11. D \cap met = met
  BY <1>1
<1> QED BY <1>1, <1>9, <1>10, <1>11

\* What the rubric is: finitely many rows with a weight of their own.
IsRubric(items) ==
    \E n \in 1..MaxItems : items \in [1..n -> RubricItems]

LEMMA RubricProperties ==
    ASSUME NEW items, IsRubric(items)
    PROVE  /\ items \in Seq(RubricItems)
           /\ IsFiniteSet(DOMAIN items)
           /\ Gradable(items)
           /\ \A i \in DOMAIN items : /\ items[i].critical \in BOOLEAN
                                      /\ items[i].contradiction \in BOOLEAN
                                      /\ items[i].kind \in Kinds
           /\ DOMAIN items \subseteq 1..MaxItems
<1>1. MaxItems \in Nat
  BY AssessmentAssumption
<1>2. PICK n \in 1..MaxItems : items \in [1..n -> RubricItems]
  BY DEF IsRubric
<1>3. n \in Nat /\ DOMAIN items = 1..n /\ 1..n \subseteq 1..MaxItems
  BY <1>1, <1>2
<1>4. items \in Seq(RubricItems)
  BY <1>2, <1>3
<1>5. IsFiniteSet(1..n)
  <2>1. 1 \in Int /\ n \in Int
    BY <1>3
  <2> QED BY <2>1, FS_Interval
<1>6. \A i \in 1..n : items[i] \in RubricItems
  BY <1>2
<1>7. \A i \in 1..n : /\ items[i].critical \in BOOLEAN
                      /\ items[i].contradiction \in BOOLEAN
                      /\ items[i].kind \in Kinds
                      /\ items[i].weight \in Weights
  BY <1>6 DEF RubricItems
<1>8. Gradable(items)
  BY <1>3, <1>7, AssessmentAssumption DEF Gradable
<1> QED BY <1>3, <1>4, <1>5, <1>7, <1>8

CriticalsMet(items, met) == \A i \in DOMAIN items \ met : ~ items[i].critical

\* The core adds up all weights and those of the items that are met.
LEMMA CoreAssessed ==
    ASSUME NEW items, IsRubric(items), NEW decisions, NEW flag,
           NEW met, met = { i \in DOMAIN items : decisions[i] }
    PROVE  CoreAssess(items, decisions, flag)
              = Assessed(Weighed(items, met), Weighed(items, DOMAIN items),
                         CriticalsMet(items, met), flag)
<1>1. Gradable(items) /\ IsFiniteSet(DOMAIN items)
  BY RubricProperties
<1>2. PICK total : total = FoldSeq(LAMBDA item, sum : sum + item.weight, 0, items)
  OBVIOUS
<1>3. PICK scored : scored = ScoredByCore(items, decisions)
  OBVIOUS
<1>4. total = Weighed(items, DOMAIN items)
  BY <1>1, <1>2, CoreTotal
<1>5. scored = [weight |-> Weighed(items, met),
                critical |-> \A i \in DOMAIN items \ met : ~ items[i].critical]
  BY <1>1, <1>3, CoreLoop
<1>6. CoreAssess(items, decisions, flag)
         = Assessed(scored.weight, total, scored.critical, flag)
  BY <1>2, <1>3 DEF CoreAssess, ScoredByCore
<1> QED BY <1>4, <1>5, <1>6 DEF CriticalsMet

-----------------------------------------------------------------------------
(***************************************************************************)
(* Assessment: a verdict is what its judges said.                          *)
(***************************************************************************)

\* The decision about every item is that of its own judge, the confidences are
\* those of the items Jev answered, and a rule that marks a contradiction and
\* holds of the schema has raised the flag.
Judged ==
    /\ \A i \in Items : decision[i] <=> MetByItsJudge(i)
    /\ confident = IF answers = Null THEN {} ELSE JevItems
    /\ StaticContradiction => contradiction

\* What each control point knows.
GradingInv ==
    /\ AssessmentTypeOK
    /\ IsRubric(rubric)
    /\ answers # Null => mode = "external"
    /\ phase = "static" => answers = Null /\ confident = {}
    /\ phase # "static" => Judged
    /\ phase \in {"static", "ask"} => posts = attempt
    /\ phase = "ask" => mode = "external" /\ answers = Null
    /\ phase = "score" =>
          /\ mode # "unavailable"
          /\ mode = "external" => answers # Null
    /\ phase \in {"static", "ask", "score", "raised"} => result = Null
    /\ result # Null =>
          /\ mode # "unavailable"
          /\ mode = "external" => answers # Null
          /\ result = CoreAssess(rubric, decision, contradiction)
    /\ phase # "rolledBack"

LEMMA MetIffItsJudgeSays ==
    ASSUME NEW i \in Items, rubric[i].kind \in Kinds
    PROVE  /\ rubric[i].kind = "objective" => (MetByItsJudge(i) <=> holds[i])
           /\ rubric[i].kind = "semantic" =>
                 (MetByItsJudge(i) <=> answers # Null /\ answers[i])
           /\ rubric[i].kind = "columnOnly" => ~ MetByItsJudge(i)
  BY DEF MetByItsJudge, Kinds

LEMMA GradingStarts == AssessmentInit => GradingInv
<1> SUFFICES ASSUME AssessmentInit PROVE GradingInv
  OBVIOUS
<1>1. PICK n \in 1..MaxItems : rubric \in [1..n -> RubricItems]
  BY DEF AssessmentInit
<1>2. IsRubric(rubric)
  BY <1>1 DEF IsRubric
<1>3. rubric \in Seq(RubricItems)
  BY <1>2, RubricProperties
<1>4. 0 \in 0..MaxRetries /\ 0 \in 0..(MaxRetries + 1)
  BY AssessmentAssumption
<1> QED BY <1>2, <1>3, <1>4 DEF AssessmentInit, GradingInv, AssessmentTypeOK, Items

\* The task, what is graded, does not change while it is.
LEMMA JudgedIsKept ==
    ASSUME Judged, UNCHANGED <<task, answers, decision, confident, contradiction>>
    PROVE  Judged'
  BY DEF Judged, task, Items, MetByItsJudge, JevItems, StaticContradiction

\* The three steps that end or repeat an attempt without an answer.
LEMMA FailIsSound ==
    ASSUME GradingInv, phase = "ask", CountPost, NEW code \in Failures, Fail(code)
    PROVE  GradingInv'
<1>1. posts' \in 0..(MaxRetries + 1)
  BY AssessmentAssumption DEF GradingInv, AssessmentTypeOK, CountPost
<1>2. Judged'
  BY JudgedIsKept DEF GradingInv, Fail
<1>3. AssessmentTypeOK' /\ IsRubric(rubric)'
  BY <1>1 DEF Fail, GradingInv, AssessmentTypeOK, task, Items, JevItems
<1> QED BY <1>2, <1>3 DEF GradingInv, Fail, task

LEMMA RetryIsSound ==
    ASSUME GradingInv, phase = "ask", NEW code \in Failures, RetryOrFail(code)
    PROVE  GradingInv'
<1>1. CASE attempt >= MaxRetries
  BY <1>1, FailIsSound DEF RetryOrFail
<1>2. CASE ~ (attempt >= MaxRetries)
  <2>1. /\ attempt' = attempt + 1 /\ CountPost
        /\ UNCHANGED <<task, phase, answers, consistency, grade>>
    BY <1>2 DEF RetryOrFail
  <2>2. /\ attempt' \in 0..MaxRetries
        /\ posts' \in 0..(MaxRetries + 1)
        /\ posts' = attempt'
    BY <1>2, <2>1, AssessmentAssumption DEF GradingInv, AssessmentTypeOK, CountPost
  <2>3. Judged'
    BY <2>1, JudgedIsKept DEF GradingInv, grade
  <2>4. AssessmentTypeOK' /\ IsRubric(rubric)'
    BY <2>1, <2>2 DEF GradingInv, AssessmentTypeOK, task, grade, Items, JevItems
  <2> QED BY <2>1, <2>2, <2>3, <2>4 DEF GradingInv, task, grade
<1> QED BY <1>1, <1>2

LEMMA StaticIsSound ==
    ASSUME GradingInv, EvaluateStatic
    PROVE  GradingInv'
<1>1. /\ phase = "static" /\ answers = Null /\ confident = {} /\ result = Null
      /\ posts = attempt /\ IsRubric(rubric)
  BY DEF EvaluateStatic, GradingInv
<1>2. /\ UNCHANGED <<task, judge, confident, result>>
      /\ decision' = [i \in Items |-> StaticDecision(rubric[i], holds[i])]
      /\ contradiction' = StaticContradiction
  BY DEF EvaluateStatic
<1>3. \/ phase' = "commit" /\ failure' \in Failures
      \/ phase' = "score" /\ mode = "stub" /\ failure' = failure
      \/ phase' = "ask" /\ mode = "external" /\ failure' = failure
  BY DEF EvaluateStatic, Failures
<1>4. \A i \in Items : StaticDecision(rubric[i], holds[i]) \in BOOLEAN
  BY DEF StaticDecision
<1>5. \A i \in Items : rubric[i].kind \in Kinds
  BY <1>1, RubricProperties DEF Items
<1>6. AssessmentTypeOK'
  <2>1. decision' \in [Items -> BOOLEAN]
    BY <1>2, <1>4
  <2>2. contradiction' \in BOOLEAN
    BY <1>2 DEF StaticContradiction
  <2> QED BY <1>1, <1>2, <1>3, <2>1, <2>2
          DEF GradingInv, AssessmentTypeOK, task, judge, Items, JevItems
<1>7. Judged'
  <2>1. ASSUME NEW i \in Items PROVE decision'[i] <=> MetByItsJudge(i)'
    <3>1. decision'[i] <=> StaticDecision(rubric[i], holds[i])
      BY <1>2
    <3>2. MetByItsJudge(i)' <=> MetByItsJudge(i)
      BY <1>2 DEF MetByItsJudge, task, judge
    <3> QED BY <1>1, <1>5, <3>1, <3>2, MetIffItsJudgeSays DEF StaticDecision, Kinds
  <2> QED BY <1>1, <1>2, <2>1 DEF Judged, Items, StaticContradiction, task, judge
<1> QED BY <1>1, <1>2, <1>3, <1>6, <1>7 DEF GradingInv, task, judge

LEMMA AnswerIsSound ==
    ASSUME GradingInv, PostAnswered
    PROVE  GradingInv'
<1>1. /\ phase = "ask" /\ phase' = "score" /\ CountPost
      /\ UNCHANGED <<task, attempt, failure, result>>
      /\ mode = "external" /\ answers = Null /\ result = Null /\ Judged
      /\ IsRubric(rubric)
  BY DEF PostAnswered, GradingInv
<1>2. PICK given \in [JevItems -> BOOLEAN], inconsistent \in BOOLEAN :
         /\ answers' = given
         /\ consistency' = inconsistent
         /\ decision' = [i \in Items |->
                            IF i \in DOMAIN given THEN given[i] ELSE decision[i]]
         /\ confident' = DOMAIN given
         /\ contradiction' = (contradiction \/ ~ inconsistent)
  BY DEF PostAnswered, Merge
<1>3. JevItems \subseteq Items /\ DOMAIN given = JevItems
  BY DEF JevItems
<1>4. given # Null
  <2>1. JevItems \in SUBSET (1..MaxItems)
    BY <1>1, <1>3, RubricProperties DEF Items
  <2> QED BY <2>1, AssessmentAssumption
<1>5. posts' \in 0..(MaxRetries + 1)
  BY <1>1, AssessmentAssumption DEF GradingInv, AssessmentTypeOK, CountPost
<1>6. UNCHANGED <<Items, JevItems>>
  BY <1>1 DEF Items, JevItems, task
<1>7. AssessmentTypeOK'
  <2>1. decision' \in [Items -> BOOLEAN]
    BY <1>2, <1>3 DEF GradingInv, AssessmentTypeOK
  <2>2. contradiction' \in BOOLEAN
    BY <1>2 DEF GradingInv, AssessmentTypeOK
  <2> QED BY <1>1, <1>2, <1>3, <1>5, <1>6, <2>1, <2>2 DEF GradingInv, AssessmentTypeOK, task
<1>8. Judged'
  <2>1. ASSUME NEW i \in Items PROVE decision'[i] <=> MetByItsJudge(i)'
    <3>1. rubric'[i] = rubric[i] /\ holds' = holds /\ rubric[i].kind \in Kinds
      BY <1>1, RubricProperties DEF Items, task
    <3>2. CASE rubric[i].kind = "semantic"
      <4>1. i \in JevItems
        BY <3>2 DEF JevItems, IsStaticSpec
      <4>2. decision'[i] <=> given[i]
        BY <1>2, <1>3, <4>1
      <4>3. MetByItsJudge(i)' <=> given[i]
        BY <1>2, <1>4, <3>1, <3>2 DEF MetByItsJudge
      <4> QED BY <4>2, <4>3
    <3>3. CASE rubric[i].kind # "semantic"
      <4>1. i \notin JevItems
        BY <3>3 DEF JevItems, IsStaticSpec
      <4>2. decision'[i] <=> decision[i]
        BY <1>2, <1>3, <4>1
      <4>3. MetByItsJudge(i)' <=> MetByItsJudge(i)
        BY <3>1, <3>3 DEF MetByItsJudge, Kinds
      <4> QED BY <1>1, <4>2, <4>3 DEF Judged
    <3> QED BY <3>2, <3>3
  <2>2. StaticContradiction' => contradiction'
    BY <1>1, <1>2 DEF StaticContradiction, Judged, Items, task
  <2> QED BY <1>2, <1>3, <1>4, <1>6, <2>1, <2>2 DEF Judged
<1> QED BY <1>1, <1>2, <1>4, <1>7, <1>8 DEF GradingInv, task

LEMMA ScoreIsSound ==
    ASSUME GradingInv, Score
    PROVE  GradingInv'
<1>1. UNCHANGED <<task, judge, decision, confident, contradiction, failure>>
  BY DEF Score
<1>2. Judged'
  BY <1>1, JudgedIsKept DEF GradingInv, Score, judge
<1>3. AssessmentTypeOK' /\ IsRubric(rubric)'
  BY <1>1 DEF GradingInv, Score, AssessmentTypeOK, task, judge, Items, JevItems
<1> QED BY <1>1, <1>2, <1>3 DEF GradingInv, Score, task, judge

\* The deferred triggers compute what the core did.
LEMMA DatabaseAgrees ==
    ASSUME GradingInv, phase = "commit", result # Null
    PROVE  ValidResult /\ ConfidenceCheck
<1>1. /\ result = CoreAssess(rubric, decision, contradiction)
      /\ IsRubric(rubric) /\ Judged
      /\ mode \in {"stub", "external"}
      /\ mode = "external" <=> answers # Null
  BY DEF GradingInv, AssessmentTypeOK, Modes
<1>2. PICK met : met = { i \in Items : decision[i] }
  OBVIOUS
<1>3. result = Assessed(Weighed(rubric, met), Weighed(rubric, Items),
                        CriticalsMet(rubric, met), contradiction)
  BY <1>1, <1>2, CoreAssessed DEF Items
<1>4. /\ result.total = Weighed(rubric, Items)
      /\ result.satisfied = Weighed(rubric, met)
      /\ result.passed = (CriticalsMet(rubric, met) /\ ~ contradiction)
  BY <1>3 DEF Assessed
<1>5. /\ SummedByDatabase(rubric, Items) = Weighed(rubric, Items)
      /\ SummedByDatabase(rubric, met) = Weighed(rubric, met)
  BY <1>1, <1>2, RubricProperties, DatabaseSum DEF Items
<1>6. ValidResult
  BY <1>2, <1>4, <1>5 DEF ValidResult, SummedByDatabase, CriticalsMet, Items
<1>7. ConfidenceCheck
  <2>1. confident = IF mode = "external" THEN JevItems ELSE {}
    BY <1>1 DEF Judged
  <2> QED BY <1>1, <2>1 DEF ConfidenceCheck, Source, JevItems
<1> QED BY <1>6, <1>7

LEMMA StoringIsSound ==
    ASSUME GradingInv, Commit
    PROVE  GradingInv'
<1>1. phase = "commit" /\ UNCHANGED <<task, judge, grade>>
  BY DEF Commit
<1>2. phase' = "stored"
  BY <1>1, DatabaseAgrees DEF Commit
<1>3. Judged'
  BY <1>1, JudgedIsKept DEF GradingInv, judge, grade
<1>4. AssessmentTypeOK' /\ IsRubric(rubric)'
  BY <1>1, <1>2 DEF GradingInv, AssessmentTypeOK, task, judge, grade, Items, JevItems
<1> QED BY <1>1, <1>2, <1>3, <1>4 DEF GradingInv, task, judge, grade

LEMMA EscapeIsSound ==
    ASSUME GradingInv, PostEscapes
    PROVE  GradingInv'
<1>1. /\ phase = "ask" /\ phase' = "raised"
      /\ CountPost
      /\ UNCHANGED <<task, attempt, answers, consistency, grade>>
  BY DEF PostEscapes
<1>2. posts' \in 0..(MaxRetries + 1)
  BY <1>1, AssessmentAssumption DEF GradingInv, AssessmentTypeOK, CountPost
<1>3. Judged'
  BY <1>1, JudgedIsKept DEF GradingInv, grade
<1>4. AssessmentTypeOK' /\ IsRubric(rubric)'
  BY <1>1, <1>2 DEF GradingInv, AssessmentTypeOK, task, grade, Items, JevItems
<1> QED BY <1>1, <1>3, <1>4 DEF GradingInv, task, grade

LEMMA GradingStutters ==
    ASSUME GradingInv, UNCHANGED assessmentVars
    PROVE  GradingInv'
<1> USE DEF assessmentVars, task, judge, grade
<1>1. Judged => Judged'
  BY JudgedIsKept
<1>2. AssessmentTypeOK' /\ IsRubric(rubric)'
  BY DEF GradingInv, AssessmentTypeOK, Items, JevItems
<1> QED BY <1>1, <1>2 DEF GradingInv

LEMMA GradingStepIsSound ==
    GradingInv /\ [AssessmentNext]_assessmentVars => GradingInv'
<1> SUFFICES ASSUME GradingInv, [AssessmentNext]_assessmentVars PROVE GradingInv'
  OBVIOUS
<1>1. CASE EvaluateStatic
  BY <1>1, StaticIsSound
<1>2. CASE PostTimesOut
  BY <1>2, RetryIsSound DEF PostTimesOut, Failures
<1>3. CASE PostOverloaded
  BY <1>3, RetryIsSound DEF PostOverloaded, Failures
<1>4. CASE PostRejected
  BY <1>4, FailIsSound DEF PostRejected, Failures
<1>5. CASE PostAnswered
  BY <1>5, AnswerIsSound
<1>6. CASE Score
  BY <1>6, ScoreIsSound
<1>7. CASE Commit
  BY <1>7, StoringIsSound
<1>8. CASE Done \/ UNCHANGED assessmentVars
  BY <1>8, GradingStutters DEF Done
<1>9. CASE PostEscapes
  BY <1>9, EscapeIsSound
<1> QED BY <1>1, <1>2, <1>3, <1>4, <1>5, <1>6, <1>7, <1>8, <1>9
        DEF AssessmentNext

\* The inductive invariant of grading: what each phase knows of the judge and of
\* the decisions, and that a verdict is what the core makes of them.
THEOREM GradingInvariance == AssessmentSpec => []GradingInv
  BY GradingStarts, GradingStepIsSound, PTL DEF AssessmentSpec

\* The types of a grading; Jev is asked at most once more than the retries that
\* are configured (JevClient._post).
THEOREM GradingTypeCorrect == AssessmentSpec => []AssessmentTypeOK
<1>1. GradingInv => AssessmentTypeOK
  BY DEF GradingInv
<1> QED BY <1>1, GradingInvariance, PTL

\* Whatever the rubric and the judge's answers: the triggers that recompute the
\* aggregate at commit never disagree with the scoring core (create_submission,
\* private.validate_result).
THEOREM CoreAndDatabaseAgree == AssessmentSpec => []CommitIsAccepted
<1>1. GradingInv => CommitIsAccepted
  BY DEF GradingInv, CommitIsAccepted
<1> QED BY <1>1, GradingInvariance, PTL

\* A pass is earned item by item, with no contradiction, and from a judge that
\* answered (create_submission, assess).
THEOREM PassesAreEarned == AssessmentSpec => []PassIsEarned
<1>1. GradingInv => PassIsEarned
  <2> SUFFICES ASSUME GradingInv, result # Null
               PROVE  /\ mode = "external" => answers # Null
                      /\ result.passed =>
                            \A i \in Items :
                               /\ rubric[i].critical => MetByItsJudge(i)
                               /\ rubric[i].contradiction /\ rubric[i].kind = "objective"
                                     => ~ holds[i]
    BY DEF PassIsEarned
  <2>1. /\ result = CoreAssess(rubric, decision, contradiction)
        /\ IsRubric(rubric)
        /\ mode = "external" => answers # Null
        /\ \A i \in Items : decision[i] <=> MetByItsJudge(i)
        /\ StaticContradiction => contradiction
    BY DEF GradingInv, Judged, AssessmentTypeOK
  <2>2. PICK met : met = { i \in Items : decision[i] }
    OBVIOUS
  <2>3. result.passed = (CriticalsMet(rubric, met) /\ ~ contradiction)
    <3>1. result = Assessed(Weighed(rubric, met), Weighed(rubric, Items),
                            CriticalsMet(rubric, met), contradiction)
      BY <2>1, <2>2, CoreAssessed DEF Items
    <3> QED BY <3>1 DEF Assessed
  <2> QED BY <2>1, <2>2, <2>3
          DEF StaticContradiction, StaticDecision, CriticalsMet, Items
<1> QED BY <1>1, GradingInvariance, PTL

\* Full marks are those of whoever meets every item; no rounding grants or denies
\* them (assess, exact_full).
THEOREM FullMarksAreFull == AssessmentSpec => []FullMarksAreExact
<1>1. GradingInv => FullMarksAreExact
  <2> SUFFICES ASSUME GradingInv, result # Null
               PROVE  result.exactFull <=> \A i \in Items : MetByItsJudge(i)
    BY DEF FullMarksAreExact
  <2>1. /\ result = CoreAssess(rubric, decision, contradiction)
        /\ IsRubric(rubric)
        /\ \A i \in Items : decision[i] <=> MetByItsJudge(i)
    BY DEF GradingInv, Judged, AssessmentTypeOK
  <2>2. PICK met : met = { i \in Items : decision[i] }
    OBVIOUS
  <2>3. result.exactFull = (Weighed(rubric, met) = Weighed(rubric, Items))
    BY <2>1, <2>2, CoreAssessed DEF Items, Assessed
  <2>4. Weighed(rubric, met) = Weighed(rubric, Items) <=> met = Items
    BY <2>1, <2>2, RubricProperties, FullWeight DEF Items
  <2> QED BY <2>1, <2>2, <2>3, <2>4
<1> QED BY <1>1, GradingInvariance, PTL

-----------------------------------------------------------------------------
(***************************************************************************)
(* Assessment: the part of GradingEnds that needs no fairness.             *)
(***************************************************************************)

\* How many steps a grading has left at most.
StepsLeft ==
    CASE phase = "static" -> MaxRetries + 4
      [] phase = "ask"    -> MaxRetries - attempt + 3
      [] phase = "score"  -> 2
      [] phase = "commit" -> 1
      [] phase \in {"stored", "rolledBack", "raised"} -> 0

LEMMA StepsAreUsedUp ==
    ASSUME AssessmentTypeOK, AssessmentNext, assessmentVars' # assessmentVars
    PROVE  StepsLeft' < StepsLeft
<1>1. MaxRetries \in Nat /\ attempt \in Nat /\ attempt <= MaxRetries
  BY AssessmentAssumption DEF AssessmentTypeOK
<1>2. CASE EvaluateStatic
  <2>1. phase = "static" /\ phase' \in {"ask", "score", "commit"} /\ attempt' = attempt
    BY <1>2 DEF EvaluateStatic, judge
  <2> QED BY <1>1, <2>1 DEF StepsLeft
<1>3. ASSUME NEW code, phase = "ask", RetryOrFail(code) PROVE StepsLeft' < StepsLeft
  <2>1. \/ phase' = "commit" /\ attempt' = attempt
        \/ phase' = "ask" /\ attempt' = attempt + 1 /\ attempt < MaxRetries
    BY <1>1, <1>3 DEF RetryOrFail, Fail
  <2> QED BY <1>1, <1>3, <2>1 DEF StepsLeft
<1>4. CASE PostRejected
  <2>1. phase = "ask" /\ phase' = "commit"
    BY <1>4 DEF PostRejected, Fail
  <2> QED BY <1>1, <2>1 DEF StepsLeft
<1>5. CASE PostAnswered
  <2>1. phase = "ask" /\ phase' = "score"
    BY <1>5 DEF PostAnswered
  <2> QED BY <1>1, <2>1 DEF StepsLeft
<1>6. CASE Score
  BY <1>6 DEF Score, StepsLeft
<1>7. CASE Commit
  <2>1. phase = "commit" /\ phase' \in {"stored", "rolledBack"}
    BY <1>7 DEF Commit
  <2> QED BY <2>1 DEF StepsLeft
<1>8. CASE PostEscapes
  <2>1. phase = "ask" /\ phase' = "raised"
    BY <1>8 DEF PostEscapes
  <2> QED BY <1>1, <2>1 DEF StepsLeft
<1> QED BY <1>2, <1>3, <1>4, <1>5, <1>6, <1>7, <1>8
        DEF AssessmentNext, PostTimesOut, PostOverloaded, Done

\* Whatever the judge does, every step of a grading uses up one of a number of
\* steps that is bounded from the start by the retries (create_submission, _post):
\* a grading can only end, or stand still.
THEOREM GradingIsBounded ==
    AssessmentSpec => /\ [](StepsLeft \in 0..(MaxRetries + 4))
                      /\ [][StepsLeft' < StepsLeft]_assessmentVars
<1>1. AssessmentTypeOK => StepsLeft \in 0..(MaxRetries + 4)
  <2> SUFFICES ASSUME AssessmentTypeOK PROVE StepsLeft \in 0..(MaxRetries + 4)
    OBVIOUS
  <2>1. MaxRetries \in Nat /\ attempt \in Nat /\ attempt <= MaxRetries
    BY AssessmentAssumption DEF AssessmentTypeOK
  <2>2. phase \in {"static", "ask", "score", "commit", "stored", "rolledBack",
                   "raised"}
    BY DEF AssessmentTypeOK
  <2> QED BY <2>1, <2>2 DEF StepsLeft
<1>2. AssessmentTypeOK /\ [AssessmentNext]_assessmentVars
         => [StepsLeft' < StepsLeft]_assessmentVars
  BY StepsAreUsedUp
<1> QED BY <1>1, <1>2, GradingTypeCorrect, PTL DEF AssessmentSpec
=============================================================================
