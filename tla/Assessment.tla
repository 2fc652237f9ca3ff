---------------------------- MODULE Assessment -----------------------------
(***************************************************************************)
(* How one submission is graded: the middle of create_submission, between  *)
(* the reading of the rubric and the insertion of the rows.  Objective     *)
(* rules are evaluated on the server, the others are asked of the external *)
(* judge Jev over HTTP with bounded retries, the Rust core `assess` scores *)
(* the decisions, and the deferred triggers of the database recompute the  *)
(* aggregate when the transaction commits.                                 *)
(*                                                                         *)
(* A rubric is the sequence of rubric_items rows by ordinal.  Its evaluator*)
(* specification is one of three kinds: "objective" (a table, relationship *)
(* or `always` rule, decided by the schema), "columnOnly" (the single key  *)
(* requiredColumn, which _is_static_spec counts as static and              *)
(* _static_decisions cannot decide) and "semantic" (everything else).      *)
(*                                                                         *)
(* The statement that inserts the submission is taken as its column list   *)
(* means it; as it is written the driver refuses it (SubmissionService,    *)
(* InsertBinds), and no grading reaches the commit.                        *)
(***************************************************************************)
EXTENDS Integers, FiniteSets, SequencesExt

CONSTANTS
    Weights,      \* weights of rubric items, 1..1000000 in the table's CHECK
    MaxItems,     \* most items of a rubric (2000)
    MaxQuestions, \* _MAX_QUESTION_COUNT of the Jev client (2000)
    MaxRetries,   \* jev_max_retries, 0..3
    Null

ASSUME AssessmentAssumption ==
    /\ Weights \subseteq Nat \ {0}
    /\ MaxItems \in Nat \ {0}
    /\ MaxQuestions \in Nat
    /\ MaxRetries \in 0..3
    /\ \A S \in SUBSET (1..MaxItems) : Null \notin [S -> BOOLEAN]

Kinds == {"objective", "columnOnly", "semantic"}
Modes == {"stub", "unavailable", "external"}

\* A rubric_items row that its CHECKs admit.
RubricItems ==
    { item \in [weight : Weights, critical : BOOLEAN, implicit : BOOLEAN,
                kind : Kinds, contradiction : BOOLEAN] :
        ~ (item.critical /\ item.implicit) }

Failures == {"JEV_UNAVAILABLE", "JEV_TIMEOUT", "JEV_AUTH_FAILED",
             "JEV_REQUEST_INVALID", "JEV_UPSTREAM_UNAVAILABLE",
             "JEV_RESPONSE_INVALID"}

VARIABLES
    rubric,        \* the rubric, by ordinal
    holds,         \* holds[i]: the schema really has what item i asks for
    mode,          \* JevMode
    phase,         \* where create_submission is
    attempt,       \* the loop counter of _post
    posts,         \* how many requests were sent to Jev, counted up to one
                   \* more than the loop may send
    answers,       \* Jev's answers: items to BOOLEAN, or Null
    consistency,   \* Jev's answer to the "consistency" question
    decision,      \* static_decisions, merged with the answers
    confident,     \* the items with a requirement_confidence
    contradiction, \* the contradiction flag
    failure,       \* failure_code, or Null
    result         \* the Assessment, or Null

task  == <<rubric, holds, mode>>
judge == <<attempt, posts, answers, consistency>>
grade == <<decision, confident, contradiction, failure, result>>
assessmentVars  == <<task, phase, judge, grade>>

Items == DOMAIN rubric

-----------------------------------------------------------------------------
(* The scoring core, rust/core/src/lib.rs.                                 *)

\* Mutant: a score that is displayed as 100.0 counts as full.
AssessedByDisplay(satisfied, total, allCritical, flag) ==
    LET displayTenths == (satisfied * 1000 + total \div 2) \div total IN
    [satisfied    |-> satisfied,
     total        |-> total,
     displayTenths |-> displayTenths,
     exactFull    |-> displayTenths = 1000,
     passed       |-> allCritical /\ ~ flag]

Assessed(satisfied, total, allCritical, flag) ==
    [satisfied    |-> satisfied,
     total        |-> total,
     displayTenths |-> (satisfied * 1000 + total \div 2) \div total,
     exactFull    |-> satisfied = total,
     passed       |-> allCritical /\ ~ flag]

\* The two loops of assess, over the rubric and over the decisions.
CoreAssess(items, decisions, flag) ==
    LET total == FoldSeq(LAMBDA item, sum : sum + item.weight, 0, items)
        Count(i, acc) ==
            IF decisions[i]
            THEN [acc EXCEPT !.weight = @ + items[i].weight]
            ELSE [acc EXCEPT !.critical = @ /\ ~ items[i].critical]
        scored == FoldSet(Count, [weight |-> 0, critical |-> TRUE],
                          DOMAIN items)
    IN  Assessed(scored.weight, total, scored.critical, flag)

-----------------------------------------------------------------------------
(* The rules evaluated on the server.                                      *)

IsStaticSpec(item) == item.kind # "semantic"

\* Mutant: whatever counts as static is decided by the schema.
StaticDecisionByClass(item, held) == IsStaticSpec(item) /\ held

\* Unknown specifications are not met; so is a lone requiredColumn.
StaticDecision(item, held) == item.kind = "objective" /\ held

StaticContradiction ==
    \E i \in Items :
       rubric[i].contradiction /\ StaticDecision(rubric[i], holds[i])

\* The items whose decision is the judge's.
JevItems == { i \in Items : ~ IsStaticSpec(rubric[i]) }

\* One question for every such item, and the consistency question.
QuestionCount == Cardinality(JevItems) + 1

AssessmentInit ==
    /\ rubric \in UNION { [1..n -> RubricItems] : n \in 1..MaxItems }
    /\ holds \in [DOMAIN rubric -> BOOLEAN]
    /\ mode \in Modes
    /\ phase = "static"
    /\ attempt = 0 /\ posts = 0
    /\ answers = Null /\ consistency = FALSE
    /\ decision = [i \in DOMAIN rubric |-> FALSE]
    /\ confident = {}
    /\ contradiction = FALSE
    /\ failure = Null
    /\ result = Null

EvaluateStatic ==
    /\ phase = "static"
    /\ decision' = [i \in Items |-> StaticDecision(rubric[i], holds[i])]
    /\ contradiction' = StaticContradiction
    /\ \/ mode = "unavailable" /\ failure' = "JEV_UNAVAILABLE" /\ phase' = "commit"
       \/ mode = "stub" /\ UNCHANGED failure /\ phase' = "score"
       \/ /\ mode = "external"
          /\ IF QuestionCount > MaxQuestions
             THEN failure' = "JEV_REQUEST_INVALID" /\ phase' = "commit"
             ELSE UNCHANGED failure /\ phase' = "ask"
    /\ UNCHANGED <<task, judge, confident, result>>

-----------------------------------------------------------------------------
(* JevClient._post: one action for every way one attempt can end.          *)

Fail(code) ==
    /\ failure' = code
    /\ phase' = "commit"
    /\ UNCHANGED <<task, attempt, answers, consistency, decision, confident,
                   contradiction, result>>

CountPost == posts' = IF posts = MaxRetries + 2 THEN posts ELSE posts + 1

\* Mutant: instead of giving up, the loop starts over.
RetryForEver(code) ==
    /\ CountPost
    /\ attempt' = IF attempt < MaxRetries THEN attempt + 1 ELSE 0
    /\ UNCHANGED <<task, phase, answers, consistency, grade>>

\* Mutant: attempts are counted from zero and compared with <=.
RetryOnceTooOften(code) ==
    /\ CountPost
    /\ IF attempt > MaxRetries
       THEN Fail(code)
       ELSE /\ attempt' = attempt + 1
            /\ UNCHANGED <<task, phase, answers, consistency, grade>>

RetryOrFail(code) ==
    /\ CountPost
    /\ IF attempt >= MaxRetries
       THEN Fail(code)
       ELSE /\ attempt' = attempt + 1
            /\ UNCHANGED <<task, phase, answers, consistency, grade>>

PostTimesOut   == phase = "ask" /\ RetryOrFail("JEV_TIMEOUT")
PostOverloaded == phase = "ask" /\ RetryOrFail("JEV_UPSTREAM_UNAVAILABLE")

\* A status that is not retried, or a 200 whose body is not the protocol's.
PostRejected ==
    /\ phase = "ask"
    /\ CountPost
    /\ \E code \in {"JEV_AUTH_FAILED", "JEV_REQUEST_INVALID",
                    "JEV_UPSTREAM_UNAVAILABLE", "JEV_RESPONSE_INVALID"} :
          Fail(code)

\* Neither a timeout nor a network error (RemoteProtocolError, ProxyError,
\* DecodingError): _post does not catch it, and create_submission catches
\* nothing but JevError.  The member gets HTTP 500, nothing is stored.
PostEscapes ==
    /\ phase = "ask"
    /\ CountPost
    /\ phase' = "raised"
    /\ UNCHANGED <<task, attempt, answers, consistency, grade>>

\* Mutant: an answer below one half carries no confidence.
MergeMet(given, inconsistent) ==
    /\ decision' = [i \in Items |->
                      IF i \in DOMAIN given THEN given[i] ELSE decision[i]]
    /\ confident' = { i \in DOMAIN given : given[i] }
    /\ contradiction' = (contradiction \/ ~ inconsistent)

\* The answers replace the decisions of their items; the consistency answer
\* raises the contradiction flag when it is NOT satisfied (noul < 0.5).
Merge(given, inconsistent) ==
    /\ decision' = [i \in Items |->
                      IF i \in DOMAIN given THEN given[i] ELSE decision[i]]
    /\ confident' = DOMAIN given
    /\ contradiction' = (contradiction \/ ~ inconsistent)

\* A 200 that answers exactly the questions asked.
PostAnswered ==
    /\ phase = "ask"
    /\ CountPost
    /\ \E given \in [JevItems -> BOOLEAN], inconsistent \in BOOLEAN :
          /\ answers' = given
          /\ consistency' = inconsistent
          /\ Merge(given, inconsistent)
    /\ phase' = "score"
    /\ UNCHANGED <<task, attempt, failure, result>>

-----------------------------------------------------------------------------
(* Scoring and storing.                                                    *)

Score ==
    /\ phase = "score"
    /\ result' = CoreAssess(rubric, decision, contradiction)
    /\ phase' = "commit"
    /\ UNCHANGED <<task, judge, decision, confident, contradiction, failure>>

Source(i) ==
    IF mode = "stub" \/ IsStaticSpec(rubric[i]) THEN "static" ELSE "jev"

\* CHECK of requirement_results: a confidence if and only if Jev decided.
ConfidenceCheck == \A i \in Items : i \in confident <=> Source(i) = "jev"

\* The aggregate private.validate_result computes from the joined rows.
ValidResult ==
    LET Weight(i) == rubric[i].weight
        met == { i \in Items : decision[i] }
    IN  /\ result.total = MapThenSumSet(Weight, Items)
        /\ result.satisfied = MapThenSumSet(Weight, met)
        /\ result.passed =
              ( /\ \A i \in Items \ met : ~ rubric[i].critical
                /\ ~ contradiction )

\* Insert the submission, and its result and requirement rows if it has any.
Commit ==
    /\ phase = "commit"
    /\ phase' = IF result = Null \/ (ValidResult /\ ConfidenceCheck)
                THEN "stored" ELSE "rolledBack"
    /\ UNCHANGED <<task, judge, grade>>

Done == phase \in {"stored", "rolledBack", "raised"} /\ UNCHANGED assessmentVars

AssessmentNext ==
    \/ EvaluateStatic
    \/ PostTimesOut
    \/ PostOverloaded
    \/ PostRejected
    \/ PostEscapes
    \/ PostAnswered
    \/ Score
    \/ Commit
    \/ Done

\* Every attempt ends: the HTTP client has a timeout.
AssessmentSpec == AssessmentInit /\ [][AssessmentNext]_assessmentVars /\ WF_assessmentVars(AssessmentNext)

-----------------------------------------------------------------------------
(* Properties.                                                             *)

\* The types; the judge is asked at most once more than the retries allowed.
AssessmentTypeOK ==
    /\ rubric \in Seq(RubricItems)
    /\ holds \in [Items -> BOOLEAN]
    /\ mode \in Modes
    /\ phase \in {"static", "ask", "score", "commit", "stored", "rolledBack",
                 "raised"}
    /\ attempt \in 0..MaxRetries
    /\ posts \in 0..(MaxRetries + 1)
    /\ answers # Null => answers \in [JevItems -> BOOLEAN]
    /\ decision \in [Items -> BOOLEAN]
    /\ confident \subseteq Items
    /\ contradiction \in BOOLEAN /\ consistency \in BOOLEAN
    /\ failure \in Failures \cup {Null}

\* Whether item i is met according to the judge it belongs to: the schema
\* for objective rules, Jev for semantic ones, nobody otherwise.
MetByItsJudge(i) ==
    CASE rubric[i].kind = "objective"  -> holds[i]
      [] rubric[i].kind = "semantic"   -> answers # Null /\ answers[i]
      [] rubric[i].kind = "columnOnly" -> FALSE

\* A pass is earned: every critical requirement is met according to its own
\* judge, no rule that marks a contradiction holds of the schema, and with an
\* external judge there is a verdict only if the judge answered.
PassIsEarned ==
    phase = "stored" /\ result # Null =>
       /\ mode = "external" => answers # Null
       /\ result.passed =>
             \A i \in Items :
                /\ rubric[i].critical => MetByItsJudge(i)
                /\ rubric[i].contradiction /\ rubric[i].kind = "objective"
                      => ~ holds[i]

\* Full marks, which open the community, are exact: a score that only rounds
\* to 100.0 is not full, and whoever misses an item has less than full marks.
FullMarksAreExact ==
    phase = "stored" /\ result # Null =>
       (result.exactFull <=> \A i \in Items : MetByItsJudge(i))

\* The core and the triggers agree on every verdict: no grading is lost at
\* commit because the database recomputes something else.
CommitIsAccepted == phase # "rolledBack"

\* However often the judge times out or is overloaded, the retries come to an
\* end: the submission is stored, with its verdict or as failed, or an
\* exception that _post does not know ends the request with HTTP 500 and
\* nothing stored, so that the member may submit again.
GradingEnds == <>(phase \in {"stored", "raised"})
=============================================================================
