---------------------------- MODULE Publication ----------------------------
(****************************************************************************)
(* The editorial path of a problem version (AdminRepository: create_version,*)
(* replace_version, validate_version, approval, publish_version) and the    *)
(* member's path through what it publishes: the page of a problem (detail,  *)
(* today), and a submission against the version that page showed (the reads *)
(* of create_submission under row-level security, and its insert).          *)
(*                                                                          *)
(* A handler that holds the row lock of its version from its first          *)
(* statement to its commit is one action.  An approval is two: it reads the *)
(* version without a lock and updates it afterwards.  A submission is       *)
(* three: its rubric, its problem and its insert are transactions of their  *)
(* own, and a page stays open, or comes from the browser's store, however   *)
(* long its version has been superseded.  A content stands for everything   *)
(* its SHA-256 digest covers.  Learning access is taken for granted here    *)
(* (SubmissionService takes it away).                                       *)
(*                                                                          *)
(* The insert of a submission is taken as its column list means it; as it   *)
(* is written the driver refuses it (SubmissionService, InsertBinds).       *)
(****************************************************************************)
EXTENDS Naturals

CONSTANTS
    Problems,
    Versions,   \* the ids create_version may draw
    Contents,
    Sound,      \* the contents whose official solution passes the Rust core
    LastDay,    \* the days of the model are 1..LastDay
    Admins,
    Members,
    None

Dates == 1..LastDay

Rows == [problem : Problems, content : Contents,
         state : {"draft", "validated", "approved", "published"}]

Pages == [version : Versions, content : Contents]

Answers == {"stored", "notFound", "failed"}

ASSUME PublicationAssumption ==
    /\ Sound \subseteq Contents
    /\ LastDay \in Nat
    /\ None \notin Versions \cup Contents \cup Rows \cup Pages \cup Answers

VARIABLES
    version,     \* public.problem_versions: a record or None
    approvals,   \* public.admin_approvals: <<version, content>>
    calendar,    \* public.publication_calendar: the version of a date
    today,       \* the last date whose 04:00 JST has passed
    approving,   \* approving[a]: <<version, content>> read by an approval
    shown,       \* shown[m]: the page of m, [version, content], or None
    reading,     \* reading[m]: what a submission of m has read so far
    answer,      \* answer[m]: how the last submission from the page ended
    submissions  \* public.submissions with their results

editorial == <<version, approvals, calendar>>
member == <<shown, reading, answer, submissions>>
vars == <<editorial, today, approving, member>>

Nothing == [rubric |-> None, problem |-> None]

Init ==
    /\ version = [v \in Versions |-> None]
    /\ approvals = {}
    /\ calendar = [d \in Dates |-> None]
    /\ today = 0
    /\ approving = [a \in Admins |-> None]
    /\ shown = [m \in Members |-> None]
    /\ reading = [m \in Members |-> Nothing]
    /\ answer = [m \in Members |-> None]
    /\ submissions = {}

Exists(v) == version[v] # None

InState(v, states) == Exists(v) /\ version[v].state \in states

\* frozen_at, tied to the state by a CHECK of the table
Frozen(v) == InState(v, {"approved", "published"})

\* UNIQUE (normalized_hash)
Taken(c, except) ==
    \E v \in Versions \ {except} : Exists(v) /\ version[v].content = c

-----------------------------------------------------------------------------
(* Editing.                                                                *)

CreateVersion(v, p, c) ==
    /\ ~ Exists(v)
    /\ ~ Taken(c, v)
    /\ version' = [version EXCEPT ![v] = [problem |-> p, content |-> c,
                                          state |-> "draft"]]
    /\ UNCHANGED <<approvals, calendar, today, approving, member>>

\* Mutant: whatever is not frozen can be replaced.
ReplaceableUntilFrozen(v) == Exists(v) /\ ~ Frozen(v)

\* FROZEN_CONTENT otherwise
Replaceable(v) == InState(v, {"draft"})

\* The caller's ETag is the digest of the content it replaces.
ReplaceVersion(v, c) ==
    /\ Replaceable(v)
    /\ ~ Frozen(v)
    /\ ~ Taken(c, v)
    /\ version' = [version EXCEPT ![v].content = c]
    /\ UNCHANGED <<approvals, calendar, today, approving, member>>

\* Any other state is kept, and a job is recorded all the same.
ValidateVersion(v) ==
    /\ InState(v, {"draft"})
    /\ version[v].content \in Sound
    /\ version' = [version EXCEPT ![v].state = "validated"]
    /\ UNCHANGED <<approvals, calendar, today, approving, member>>

-----------------------------------------------------------------------------
(* Approval of a correction.                                               *)

\* The SELECT of the version's digest, without FOR UPDATE.
ReadTarget(a, v, c) ==
    /\ approving[a] = None
    /\ Exists(v)
    /\ version[v].content = c
    /\ approving' = [approving EXCEPT ![a] = <<v, c>>]
    /\ UNCHANGED <<editorial, today, member>>

\* UPDATE ... SET state='approved' ... WHERE id=... AND state='validated'
Promoted(row) ==
    IF row.state = "validated" THEN [row EXCEPT !.state = "approved"] ELSE row

\* A second approval of one digest is refused, and its UPDATE rolled back.
ApproveTarget(a) ==
    /\ approving[a] # None
    /\ approving' = [approving EXCEPT ![a] = None]
    /\ \/ /\ approving[a] \notin approvals
          /\ approvals' = approvals \cup {approving[a]}
          /\ version' = [version EXCEPT ![approving[a][1]] = Promoted(@)]
       \/ /\ approving[a] \in approvals
          /\ UNCHANGED <<approvals, version>>
    /\ UNCHANGED <<calendar, today, member>>

-----------------------------------------------------------------------------
(* Publication.                                                            *)

\* Mutant: the upsert moves a date to another problem.
CalendarAcceptsAnyProblem(d, v) ==
    \A e \in Dates \ {d} :
       calendar[e] # None => version[calendar[e]].problem # version[v].problem

\* The primary key, the two UNIQUE constraints and the foreign key of the
\* calendar: PUBLICATION_CONFLICT otherwise.
CalendarAccepts(d, v) ==
    LET problemOf(u) == version[u].problem
    IN  /\ calendar[d] # None => problemOf(calendar[d]) = problemOf(v)
        /\ \A e \in Dates \ {d} :
              calendar[e] # None => problemOf(calendar[e]) # problemOf(v)

\* The caller names the approved digest; the handler looks the approval up by
\* it.  It lets a published version through, and then the trigger
\* protect_problem_version raises on its UPDATE: only an approved version is
\* published.
PublishVersion(v, c, d) ==
    /\ <<v, c>> \in approvals
    /\ InState(v, {"approved"})
    /\ CalendarAccepts(d, v)
    /\ calendar' = [calendar EXCEPT ![d] = v]
    /\ version' = [version EXCEPT ![v].state = "published"]
    /\ UNCHANGED <<approvals, today, approving, member>>

\* 04:00 JST of the next date: its published_at has come.
DayComes ==
    /\ today < LastDay
    /\ today' = today + 1
    /\ UNCHANGED <<editorial, approving, member>>

-----------------------------------------------------------------------------
(* The member's side.                                                      *)

\* publication_member_read: the calendar up to now
Out(d) == d <= today /\ calendar[d] # None

IsDue(p) == \E d \in Dates : Out(d) /\ version[calendar[d]].problem = p

\* problem_versions_member_read and rubric_member_read; no operation of the
\* program ever retires a version.
Readable(v) ==
    /\ InState(v, {"published"})
    /\ \E d \in Dates : Out(d) /\ calendar[d] = v

\* What either query of a problem page returns of a row it can read.
Show(m, v) ==
    /\ Readable(v)
    /\ shown' = [shown EXCEPT ![m] = [version |-> v,
                                      content |-> version[v].content]]
    /\ answer' = [answer EXCEPT ![m] = None]
    /\ UNCHANGED <<editorial, today, approving, reading, submissions>>

\* detail: the version the calendar has for the problem, or the one whose
\* number is asked for; row-level security leaves only the first to be read.
OpenProblem(m, p) ==
    /\ reading[m] = Nothing
    /\ IsDue(p)
    /\ \E v \in Versions :
          InState(v, {"published"}) /\ version[v].problem = p /\ Show(m, v)

\* today: the problem of this very date
OpenToday(m) ==
    /\ reading[m] = Nothing
    /\ today \in Dates
    /\ Out(today)
    /\ Show(m, calendar[today])

Submitting(m) == shown[m] # None /\ answer[m] = None

\* _rubric: PROBLEM_VERSION_NOT_FOUND if there is none to read.
ReadRubric(m) ==
    LET v == shown[m].version
    IN  /\ Submitting(m)
        /\ reading[m] = Nothing
        /\ IF Readable(v)
           THEN /\ reading' = [reading EXCEPT ![m].rubric = version[v].content]
                /\ UNCHANGED answer
           ELSE /\ answer' = [answer EXCEPT ![m] = "notFound"]
                /\ UNCHANGED reading
        /\ UNCHANGED <<editorial, today, approving, shown, submissions>>

\* Mutant: the problem that is graded is read through the calendar.
ReadCurrentProblem(m) ==
    /\ reading[m].rubric # None /\ reading[m].problem = None
    /\ \E d \in Dates :
          /\ Out(d)
          /\ version[calendar[d]].problem = version[shown[m].version].problem
          /\ reading' = [reading EXCEPT ![m].problem = version[calendar[d]].content]
    /\ UNCHANGED <<editorial, today, approving, shown, answer, submissions>>

\* _problem_snapshot: the same answer when the version was superseded since.
ReadProblem(m) ==
    LET v == shown[m].version
    IN  /\ reading[m].rubric # None /\ reading[m].problem = None
        /\ IF Readable(v)
           THEN /\ reading' = [reading EXCEPT ![m].problem = version[v].content]
                /\ UNCHANGED answer
           ELSE /\ answer' = [answer EXCEPT ![m] = "notFound"]
                /\ reading' = [reading EXCEPT ![m] = Nothing]
        /\ UNCHANGED <<editorial, today, approving, shown, submissions>>

\* Mutant: the insert, too, asks for the version of the calendar.
EligibleIfCurrent(v) == Readable(v)

\* The trigger validate_submission: it does not ask for the current version.
Eligible(v) == InState(v, {"published"}) /\ IsDue(version[v].problem)

Row(m, passed) ==
    [by |-> m, version |-> shown[m].version, shown |-> shown[m].content,
     rubric |-> reading[m].rubric, problem |-> reading[m].problem,
     passed |-> passed]

\* The trigger's exception is an HTTP 500.
StoreRow(m) ==
    LET eligible == Eligible(shown[m].version)
    IN  /\ reading' = [reading EXCEPT ![m] = Nothing]
        /\ answer' = [answer EXCEPT ![m] = IF eligible THEN "stored" ELSE "failed"]
        /\ \E passed \in BOOLEAN :
              submissions' = IF eligible
                             THEN submissions \cup {Row(m, passed)}
                             ELSE submissions
        /\ UNCHANGED <<editorial, today, approving, shown>>

\* Mutant: a problem that could not be read is not missed.
InsertWithoutProblem(m) == reading[m].rubric # None /\ StoreRow(m)

InsertSubmission(m) == reading[m].problem # None /\ StoreRow(m)

\* The problems the dashboard counts: passed in any version, and joined with
\* the version of the calendar.
Dashboard(m) ==
    { p \in Problems :
        /\ \E d \in Dates : /\ Out(d)
                           /\ Readable(calendar[d])
                           /\ version[calendar[d]].problem = p
        /\ \E s \in submissions :
              s.by = m /\ s.passed /\ version[s.version].problem = p }

-----------------------------------------------------------------------------
Editing ==
    \/ \E v \in Versions, c \in Contents :
          \/ \E p \in Problems : CreateVersion(v, p, c)
          \/ ReplaceVersion(v, c)
          \/ \E a \in Admins : ReadTarget(a, v, c)
          \/ \E d \in Dates : PublishVersion(v, c, d)
    \/ \E v \in Versions : ValidateVersion(v)
    \/ \E a \in Admins : ApproveTarget(a)

Learning(m) ==
    \/ \E p \in Problems : OpenProblem(m, p)
    \/ OpenToday(m)
    \/ ReadRubric(m)
    \/ ReadProblem(m)
    \/ InsertSubmission(m)

Next == Editing \/ DayComes \/ \E m \in Members : Learning(m)

Spec == Init /\ [][Next]_vars

-----------------------------------------------------------------------------
(* Properties.                                                             *)

\* The types of the tables and of what the handlers have read.
TypeOK ==
    /\ version \in [Versions -> Rows \cup {None}]
    /\ approvals \subseteq Versions \X Contents
    /\ calendar \in [Dates -> Versions \cup {None}]
    /\ today \in 0..LastDay
    /\ approving \in [Admins -> (Versions \X Contents) \cup {None}]
    /\ shown \in [Members -> Pages \cup {None}]
    /\ reading \in [Members -> [rubric : Contents \cup {None},
                                problem : Contents \cup {None}]]
    /\ answer \in [Members -> Answers \cup {None}]
    /\ submissions \subseteq [by : Members, version : Versions,
                              shown : Contents, rubric : Contents,
                              problem : Contents, passed : BOOLEAN]

\* What has left the draft state has the content that passed the static
\* validation: an edit can not slip in between validation and approval.
ValidatedContentIsSound ==
    \A v \in Versions :
       InState(v, {"validated", "approved", "published"}) => version[v].content \in Sound

\* A submission is graded and stored against the content its author was shown:
\* the page, the rubric and the problem, read in three transactions with any
\* time between them, are one content, that of its version, for good, whatever
\* the editors do meanwhile and afterwards.
SubmissionsKeepTheirVersion ==
    \A s \in submissions :
       /\ Exists(s.version)
       /\ s.shown = version[s.version].content
       /\ s.rubric = version[s.version].content
       /\ s.problem = version[s.version].content

\* Another version of its problem has taken the place of v in the calendar.
Superseded(v) ==
    \E d \in Dates :
       /\ calendar[d] \notin {None, v}
       /\ version[calendar[d]].problem = version[v].problem

\* A submission from a page is refused as PROBLEM_VERSION_NOT_FOUND only if a
\* correction has superseded the version of the page, and one that was let
\* through the reads is never turned away by the insert's trigger.
HonestRefusals ==
    \A m \in Members :
       /\ answer[m] # "failed"
       /\ answer[m] = "notFound" => Superseded(shown[m].version)

Readables == { version[v].problem : v \in { u \in Versions : Readable(u) } }

\* A correction replaces a version under the members' eyes in one step: a
\* problem that can be read never becomes unreadable, and one the dashboard
\* counts as passed, in whatever version, is counted for good.
CorrectionsTakeNothingAway ==
    [][/\ Readables \subseteq Readables'
       /\ \A m \in Members : Dashboard(m) \subseteq Dashboard(m)']_vars

\* What the database design asks of approvals ("reference exact target version
\* digest and action; editing the draft invalidates applicability"): a version
\* is published with a content that was approved.
PublishedIsApproved ==
    \A v \in Versions :
       InState(v, {"published"}) => <<v, version[v].content>> \in approvals
=============================================================================
