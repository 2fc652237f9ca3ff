------------------------- MODULE PublicationProofs -------------------------
(* Publication is sound for any number of problems, versions, contents,     *)
(* days, administrators and members.  What is published is frozen and keeps  *)
(* its place in the calendar until a version of the same problem takes it;   *)
(* everything a member reads rests on that.                                  *)
EXTENDS Library, FiniteSetTheorems, SequenceTheorems, TLAPS

IsPublished(v) == v \in Versions /\ InState(v, {"published"})

\* The calendar holds published versions, one date for a problem.
CalendarIsSound ==
    /\ \A d \in Dates : calendar[d] # None => IsPublished(calendar[d])
    /\ \A d, e \in Dates :
          /\ d # e
          /\ calendar[d] # None /\ calendar[e] # None
          => version[calendar[d]].problem # version[calendar[e]].problem

\* A page shows a version that was published and out, as it is for good.
PageIsSound(m) ==
    shown[m] # None =>
       /\ IsPublished(shown[m].version)
       /\ shown[m].content = version[shown[m].version].content
       /\ IsDue(version[shown[m].version].problem)

\* A submission under way has read the content of its page's version.
ReadingIsSound(m) ==
    /\ reading[m].rubric # None =>
          /\ shown[m] # None
          /\ reading[m].rubric = version[shown[m].version].content
    /\ reading[m].problem # None =>
          /\ reading[m].rubric # None
          /\ reading[m].problem = version[shown[m].version].content

\* An answer is about the page that is shown.
AnswerIsSound(m) ==
    /\ answer[m] # None => shown[m] # None
    /\ answer[m] # "failed"
    /\ answer[m] = "notFound" => Superseded(shown[m].version)

RowIsSound(s) ==
    /\ IsPublished(s.version)
    /\ s.shown = version[s.version].content
    /\ s.rubric = version[s.version].content
    /\ s.problem = version[s.version].content

\* An approval under way is about a version that is there: none is deleted.
ApprovingIsSound ==
    \A a \in Admins : approving[a] # None => Exists(approving[a][1])

EditorialIsSound ==
    ValidatedContentIsSound /\ CalendarIsSound /\ ApprovingIsSound

MemberIsSound ==
    /\ \A m \in Members :
          PageIsSound(m) /\ ReadingIsSound(m) /\ AnswerIsSound(m)
    /\ \A s \in submissions : RowIsSound(s)

IInv == TypeOK /\ EditorialIsSound /\ MemberIsSound

-----------------------------------------------------------------------------
(* What the editors may do to what a member has seen.                      *)

\* A published version stays as it is; a problem that is out stays out, and a
\* version that was superseded stays superseded.
Steady ==
    /\ \A v \in Versions : IsPublished(v) => IsPublished(v)' /\ version'[v] = version[v]
    /\ \A d \in Dates :
          calendar[d] # None =>
             /\ calendar'[d] # None
             /\ version'[calendar'[d]].problem = version[calendar[d]].problem
    /\ \A d \in Dates, v \in Versions :
          IsPublished(v) /\ calendar[d] \notin {None, v} => calendar'[d] # v
    /\ today' \in Nat /\ today <= today'

LEMMA InitIsSound == Init => IInv
<1> SUFFICES ASSUME Init PROVE IInv
  OBVIOUS
<1>1. TypeOK
  BY PublicationAssumption DEF Init, TypeOK, Nothing
<1>2. EditorialIsSound
  BY DEF Init, EditorialIsSound, ValidatedContentIsSound, CalendarIsSound,
         ApprovingIsSound, InState, Exists
<1>3. MemberIsSound
  BY PublicationAssumption
     DEF Init, MemberIsSound, PageIsSound, ReadingIsSound, AnswerIsSound, Nothing,
         Answers
<1> QED BY <1>1, <1>2, <1>3 DEF IInv

\* Under a steady editorial step that leaves the member's variables alone, what
\* members have seen stays sound.
LEMMA SteadyKeepsMembers ==
    ASSUME IInv, Steady, UNCHANGED member
    PROVE  MemberIsSound'
<1> USE DEF IInv
<1>1. \A p : IsDue(p) => IsDue(p)'
  BY DEF Steady, IsDue, Out, TypeOK, Dates
<1>2. \A v \in Versions : IsPublished(v) /\ Superseded(v) => Superseded(v)'
  BY DEF Steady, Superseded
<1>3. ASSUME NEW m \in Members
      PROVE  (PageIsSound(m) /\ ReadingIsSound(m) /\ AnswerIsSound(m))'
  <2>1. PageIsSound(m) /\ ReadingIsSound(m) /\ AnswerIsSound(m)
    BY DEF MemberIsSound
  <2>2. CASE shown[m] = None
    BY <2>1, <2>2, PublicationAssumption
       DEF member, PageIsSound, ReadingIsSound, AnswerIsSound, Answers
  <2>3. CASE shown[m] # None
    <3> DEFINE v == shown[m].version
    <3>1. IsPublished(v) /\ IsPublished(v)' /\ version'[v] = version[v]
      BY <2>1, <2>3 DEF PageIsSound, Steady, IsPublished, member
    <3>2. PageIsSound(m)'
      BY <1>1, <2>1, <2>3, <3>1 DEF PageIsSound, member
    <3>3. ReadingIsSound(m)'
      BY <2>1, <2>3, <3>1 DEF ReadingIsSound, member
    <3>4. AnswerIsSound(m)'
      BY <1>2, <2>1, <2>3, <3>1 DEF AnswerIsSound, member, IsPublished
    <3> QED BY <3>2, <3>3, <3>4
  <2> QED BY <2>2, <2>3
<1>4. \A s \in submissions' : RowIsSound(s)'
  BY DEF MemberIsSound, RowIsSound, Steady, IsPublished, member
<1> QED BY <1>3, <1>4 DEF MemberIsSound

-----------------------------------------------------------------------------
(* The editors' steps.                                                     *)

LEMMA CreateIsSound ==
    ASSUME IInv, NEW v \in Versions, NEW p \in Problems, NEW c \in Contents,
           CreateVersion(v, p, c)
    PROVE  TypeOK' /\ EditorialIsSound' /\ Steady
<1> USE DEF IInv, CreateVersion
<1>1. TypeOK'
  BY DEF TypeOK, Rows, member
<1>2. \A u \in Versions : IsPublished(u) => u # v
  BY DEF IsPublished, InState
<1>3. \A u \in Versions : u # v => version'[u] = version[u]
  BY DEF TypeOK
<1>4. \A u \in Versions : IsPublished(u) => IsPublished(u)' /\ version'[u] = version[u]
  BY <1>2, <1>3 DEF IsPublished, InState, Exists
<1>5. ValidatedContentIsSound'
  BY <1>3 DEF TypeOK, EditorialIsSound, ValidatedContentIsSound, InState, Exists
<1>6. CalendarIsSound' /\ Steady
  BY <1>4 DEF EditorialIsSound, CalendarIsSound, Steady, IsPublished, TypeOK
<1>7. ApprovingIsSound'
  BY <1>3, PublicationAssumption
     DEF EditorialIsSound, ApprovingIsSound, Exists, TypeOK, Rows
<1> QED BY <1>1, <1>5, <1>6, <1>7 DEF EditorialIsSound

LEMMA ReplaceIsSound ==
    ASSUME IInv, NEW v \in Versions, NEW c \in Contents, ReplaceVersion(v, c)
    PROVE  TypeOK' /\ EditorialIsSound' /\ Steady
<1> USE DEF IInv, ReplaceVersion, Replaceable
<1>1. version[v] \in Rows /\ version[v].state = "draft"
  BY DEF InState, Exists, TypeOK
<1>2. /\ version'[v] = [version[v] EXCEPT !.content = c]
      /\ \A u \in Versions : u # v => version'[u] = version[u]
  BY DEF TypeOK
<1>3. TypeOK'
  BY <1>1, <1>2 DEF TypeOK, Rows, member
<1>4. \A u \in Versions : IsPublished(u) => IsPublished(u)' /\ version'[u] = version[u]
  BY <1>1, <1>2 DEF IsPublished, InState, Exists
<1>5. ValidatedContentIsSound'
  BY <1>1, <1>2 DEF EditorialIsSound, ValidatedContentIsSound, InState, Exists, Rows
<1>6. CalendarIsSound' /\ Steady
  BY <1>4 DEF EditorialIsSound, CalendarIsSound, Steady, IsPublished, TypeOK
<1>7. ApprovingIsSound'
  BY <1>1, <1>2, PublicationAssumption
     DEF EditorialIsSound, ApprovingIsSound, Exists, TypeOK, Rows
<1> QED BY <1>3, <1>5, <1>6, <1>7 DEF EditorialIsSound

LEMMA ValidateIsSound ==
    ASSUME IInv, NEW v \in Versions, ValidateVersion(v)
    PROVE  TypeOK' /\ EditorialIsSound' /\ Steady
<1> USE DEF IInv, ValidateVersion
<1>1. version[v] \in Rows /\ version[v].state = "draft"
  BY DEF InState, Exists, TypeOK
<1>2. /\ version'[v] = [version[v] EXCEPT !.state = "validated"]
      /\ \A u \in Versions : u # v => version'[u] = version[u]
  BY DEF TypeOK
<1>3. TypeOK'
  BY <1>1, <1>2 DEF TypeOK, Rows, member
<1>4. \A u \in Versions : IsPublished(u) => IsPublished(u)' /\ version'[u] = version[u]
  BY <1>1, <1>2 DEF IsPublished, InState, Exists
<1>5. ValidatedContentIsSound'
  BY <1>1, <1>2 DEF EditorialIsSound, ValidatedContentIsSound, InState, Exists, Rows
<1>6. CalendarIsSound' /\ Steady
  BY <1>4 DEF EditorialIsSound, CalendarIsSound, Steady, IsPublished, TypeOK
<1>7. ApprovingIsSound'
  BY <1>1, <1>2, PublicationAssumption
     DEF EditorialIsSound, ApprovingIsSound, Exists, TypeOK, Rows
<1> QED BY <1>3, <1>5, <1>6, <1>7 DEF EditorialIsSound

LEMMA ReadTargetIsSound ==
    ASSUME IInv, NEW a \in Admins, NEW v \in Versions, NEW c \in Contents,
           ReadTarget(a, v, c)
    PROVE  TypeOK' /\ EditorialIsSound' /\ Steady
<1> USE DEF IInv, ReadTarget, editorial
<1>1. TypeOK'
  BY DEF TypeOK, member
<1>2. EditorialIsSound' /\ Steady
  BY DEF EditorialIsSound, ValidatedContentIsSound, CalendarIsSound,
         ApprovingIsSound, Steady, IsPublished, InState, Exists, TypeOK
<1> QED BY <1>1, <1>2

\* Approving changes a validated version and no other.
LEMMA PromotedRow ==
    ASSUME NEW row \in Rows
    PROVE  /\ Promoted(row) \in Rows
           /\ Promoted(row).problem = row.problem
           /\ Promoted(row).content = row.content
           /\ row.state # "validated" => Promoted(row) = row
           /\ Promoted(row).state \in {"validated", "approved", "published"}
                 => row.state \in {"validated", "approved", "published"}
           /\ Promoted(row).state = "published" <=> row.state = "published"
  BY DEF Promoted, Rows

LEMMA ApproveIsSound ==
    ASSUME IInv, NEW a \in Admins, ApproveTarget(a)
    PROVE  TypeOK' /\ EditorialIsSound' /\ Steady
<1> USE DEF IInv, ApproveTarget
<1> DEFINE v == approving[a][1]
<1>1. approving[a] \in Versions \X Contents /\ v \in Versions
  BY DEF TypeOK
<1>2. CASE approving[a] \in approvals
  <2>1. TypeOK'
    BY <1>2 DEF TypeOK, member
  <2>2. EditorialIsSound' /\ Steady
    BY <1>2 DEF EditorialIsSound, ValidatedContentIsSound, CalendarIsSound,
                ApprovingIsSound, Steady, IsPublished, InState, Exists, TypeOK
  <2> QED BY <2>1, <2>2
<1>3. CASE approving[a] \notin approvals
  <2>1. /\ version'[v] = Promoted(version[v])
        /\ \A u \in Versions : u # v => version'[u] = version[u]
    BY <1>1, <1>3 DEF TypeOK
  <2>2. version[v] \in Rows
    BY <1>1 DEF TypeOK, EditorialIsSound, ApprovingIsSound, Exists
  <2>3. TypeOK'
    BY <1>1, <1>3, <2>1, <2>2, PromotedRow DEF TypeOK, member
  <2>4. \A u \in Versions : IsPublished(u) => IsPublished(u)' /\ version'[u] = version[u]
    BY <2>1, <2>2, PromotedRow, PublicationAssumption DEF IsPublished, InState, Exists
  <2>5. ValidatedContentIsSound'
    BY <2>1, <2>2, PromotedRow, PublicationAssumption
       DEF EditorialIsSound, ValidatedContentIsSound, InState, Exists
  <2>6. CalendarIsSound' /\ Steady
    BY <2>4 DEF EditorialIsSound, CalendarIsSound, Steady, IsPublished, TypeOK
  <2>7. ApprovingIsSound'
    BY <2>1, <2>2, PromotedRow, PublicationAssumption
       DEF EditorialIsSound, ApprovingIsSound, Exists, TypeOK
  <2> QED BY <2>3, <2>5, <2>6, <2>7 DEF EditorialIsSound
<1> QED BY <1>2, <1>3

LEMMA PublishIsSound ==
    ASSUME IInv, NEW v \in Versions, NEW c \in Contents, NEW d \in Dates,
           PublishVersion(v, c, d)
    PROVE  TypeOK' /\ EditorialIsSound' /\ Steady
<1> USE DEF IInv, PublishVersion
<1>1. version[v] \in Rows /\ version[v].state = "approved"
  BY DEF InState, Exists, TypeOK
<1>2. /\ version'[v] = [version[v] EXCEPT !.state = "published"]
      /\ \A u \in Versions : u # v => version'[u] = version[u]
  BY DEF TypeOK
<1>3. /\ version'[v] \in Rows
      /\ version'[v].state = "published"
      /\ version'[v].problem = version[v].problem
      /\ version'[v].content = version[v].content
  BY <1>1, <1>2 DEF Rows
<1>4. calendar'[d] = v /\ \A e \in Dates : e # d => calendar'[e] = calendar[e]
  BY DEF TypeOK
<1>5. TypeOK'
  BY <1>1, <1>2, <1>3 DEF TypeOK, member
<1>6. IsPublished(v)' /\ ~ IsPublished(v)
  BY <1>1, <1>3, PublicationAssumption DEF IsPublished, InState, Exists
<1>7. \A u \in Versions : IsPublished(u) => IsPublished(u)' /\ version'[u] = version[u]
  BY <1>2, <1>6 DEF IsPublished, InState, Exists
<1>8. ValidatedContentIsSound'
  BY <1>1, <1>2, <1>3, PublicationAssumption
     DEF EditorialIsSound, ValidatedContentIsSound, InState, Exists
<1>9. ApprovingIsSound'
  BY <1>2, <1>3, PublicationAssumption
     DEF EditorialIsSound, ApprovingIsSound, Exists, TypeOK
<1>10. \A e \in Dates : calendar[e] # None =>
          /\ IsPublished(calendar[e]) /\ calendar[e] # v
          /\ version'[calendar[e]].problem = version[calendar[e]].problem
  BY <1>6, <1>7 DEF EditorialIsSound, CalendarIsSound, IsPublished
<1>11. CalendarIsSound'
  <2>1. ASSUME NEW e \in Dates, calendar'[e] # None
        PROVE  IsPublished(calendar[e])'
    <3>1. CASE e = d
      BY <1>4, <1>6, <3>1 DEF IsPublished, InState, Exists
    <3>2. CASE e # d
      <4>1. calendar'[e] = calendar[e] /\ IsPublished(calendar[e])
        BY <1>4, <1>10, <2>1, <3>2
      <4> QED BY <1>7, <4>1 DEF IsPublished, InState, Exists
    <3> QED BY <3>1, <3>2
  <2>2. ASSUME NEW e \in Dates, NEW f \in Dates, e # f,
               calendar'[e] # None, calendar'[f] # None
        PROVE  version'[calendar'[e]].problem # version'[calendar'[f]].problem
    <3>1. CASE e # d /\ f # d
      <4>1. version[calendar[e]].problem # version[calendar[f]].problem
        BY <1>4, <2>2, <3>1 DEF EditorialIsSound, CalendarIsSound
      <4> QED BY <1>4, <1>10, <2>2, <3>1, <4>1
    <3>2. CASE e = d
      BY <1>3, <1>4, <1>10, <2>2, <3>2 DEF CalendarAccepts
    <3>3. CASE f = d
      BY <1>3, <1>4, <1>10, <2>2, <3>3 DEF CalendarAccepts
    <3> QED BY <3>1, <3>2, <3>3
  <2> QED BY <2>1, <2>2 DEF CalendarIsSound
<1>12. Steady
  <2>1. ASSUME NEW e \in Dates, calendar[e] # None
        PROVE  /\ calendar'[e] # None
               /\ version'[calendar'[e]].problem = version[calendar[e]].problem
    BY <1>3, <1>4, <1>10, <2>1, PublicationAssumption DEF CalendarAccepts
  <2>2. ASSUME NEW e \in Dates, NEW u \in Versions,
               IsPublished(u), calendar[e] \notin {None, u}
        PROVE  calendar'[e] # u
    BY <1>4, <1>6, <2>2
  <2>3. today' \in Nat /\ today <= today'
    BY DEF TypeOK
  <2> QED BY <1>7, <2>1, <2>2, <2>3 DEF Steady
<1> QED BY <1>5, <1>8, <1>9, <1>11 , <1>12 DEF EditorialIsSound

LEMMA DayIsSound ==
    ASSUME IInv, DayComes
    PROVE  TypeOK' /\ EditorialIsSound' /\ Steady
<1> USE DEF IInv, DayComes, editorial
<1>1. TypeOK'
  BY PublicationAssumption DEF TypeOK, member
<1>2. EditorialIsSound' /\ Steady
  BY DEF EditorialIsSound, ValidatedContentIsSound, CalendarIsSound,
         ApprovingIsSound, Steady, IsPublished, InState, Exists, TypeOK
<1> QED BY <1>1, <1>2

-----------------------------------------------------------------------------
(* The member's steps.                                                     *)

\* A step of one member changes neither what the editors have done nor what
\* another member has seen.
LEMMA OtherMembersAreSound ==
    ASSUME IInv, UNCHANGED <<editorial, today, approving>>, NEW m \in Members,
           \A n \in Members \ {m} :
              /\ shown'[n] = shown[n]
              /\ reading'[n] = reading[n]
              /\ answer'[n] = answer[n],
           (PageIsSound(m) /\ ReadingIsSound(m) /\ AnswerIsSound(m))',
           \A s \in submissions' : s \in submissions \/ RowIsSound(s)
    PROVE  EditorialIsSound' /\ MemberIsSound'
<1> USE DEF editorial
<1>1. EditorialIsSound'
  BY DEF IInv, EditorialIsSound, ValidatedContentIsSound, CalendarIsSound,
         ApprovingIsSound, IsPublished, InState, Exists
<1>2. ASSUME NEW n \in Members
      PROVE  (PageIsSound(n) /\ ReadingIsSound(n) /\ AnswerIsSound(n))'
  <2>1. CASE n # m
    BY <2>1 DEF IInv, MemberIsSound, PageIsSound, ReadingIsSound, AnswerIsSound,
                IsPublished, InState, Exists, IsDue, Out, Superseded
  <2> QED BY <2>1
<1>3. \A s \in submissions' : RowIsSound(s)'
  BY DEF IInv, MemberIsSound, RowIsSound, IsPublished, InState, Exists
<1> QED BY <1>1, <1>2, <1>3 DEF MemberIsSound

\* What can be read is published and out.
LEMMA ReadableIsOut ==
    ASSUME IInv, NEW v, Readable(v), v \in Versions
    PROVE  IsPublished(v) /\ IsDue(version[v].problem)
  BY DEF Readable, IsPublished, IsDue

\* A page's version that cannot be read any more was superseded.
LEMMA UnreadableIsSuperseded ==
    ASSUME IInv, NEW v \in Versions, IsPublished(v), IsDue(version[v].problem),
           ~ Readable(v)
    PROVE  Superseded(v)
  BY DEF Readable, IsPublished, IsDue, Superseded, Out

LEMMA ShowIsSound ==
    ASSUME IInv, NEW m \in Members, NEW v \in Versions,
           reading[m] = Nothing, Show(m, v)
    PROVE  IInv'
<1> USE DEF Show
<1>1. IsPublished(v) /\ IsDue(version[v].problem)
  BY ReadableIsOut
<1>2. version[v] \in Rows
  BY <1>1 DEF IInv, TypeOK, IsPublished, InState, Exists
<1>3. TypeOK'
  BY <1>2 DEF IInv, TypeOK, editorial, Pages, Rows
<1>4. /\ shown'[m] = [version |-> v, content |-> version[v].content]
      /\ answer'[m] = None
      /\ reading'[m] = Nothing
  BY DEF IInv, TypeOK
<1>5. (PageIsSound(m) /\ ReadingIsSound(m) /\ AnswerIsSound(m))'
  BY <1>1, <1>4, PublicationAssumption
     DEF PageIsSound, ReadingIsSound, AnswerIsSound, Nothing, editorial, Answers,
         IsPublished, InState, Exists, IsDue, Out
<1>6. EditorialIsSound' /\ MemberIsSound'
  BY <1>5, OtherMembersAreSound DEF IInv, TypeOK
<1> QED BY <1>3, <1>6 DEF IInv

LEMMA ReadRubricIsSound ==
    ASSUME IInv, NEW m \in Members, ReadRubric(m)
    PROVE  IInv'
<1> USE DEF ReadRubric, Submitting
<1> DEFINE v == shown[m].version
<1>1. /\ PageIsSound(m) /\ AnswerIsSound(m) /\ shown[m] # None
      /\ v \in Versions /\ IsPublished(v) /\ IsDue(version[v].problem)
  BY DEF IInv, MemberIsSound, PageIsSound, IsPublished
<1>2. version[v] \in Rows /\ version[v].content \in Contents
  BY <1>1 DEF IInv, TypeOK, IsPublished, InState, Exists, Rows
<1>3. CASE Readable(v)
  <2>1. /\ reading'[m].rubric = version[v].content
        /\ reading'[m].problem = None
        /\ answer'[m] = answer[m]
    BY <1>3 DEF IInv, TypeOK, Nothing
  <2>2. TypeOK'
    BY <1>2, <1>3 DEF IInv, TypeOK, editorial
  <2>3. (PageIsSound(m) /\ ReadingIsSound(m) /\ AnswerIsSound(m))'
    BY <1>1, <2>1
       DEF PageIsSound, ReadingIsSound, AnswerIsSound, editorial, IsPublished,
           InState, Exists, IsDue, Out, Superseded
  <2>4. EditorialIsSound' /\ MemberIsSound'
    BY <1>3, <2>3, OtherMembersAreSound DEF IInv, TypeOK
  <2> QED BY <2>2, <2>4 DEF IInv
<1>4. CASE ~ Readable(v)
  <2>1. Superseded(v)
    BY <1>1, <1>4, UnreadableIsSuperseded
  <2>2. reading'[m] = Nothing /\ answer'[m] = "notFound"
    BY <1>4 DEF IInv, TypeOK
  <2>3. TypeOK'
    BY <1>4 DEF IInv, TypeOK, editorial, Answers
  <2>4. (PageIsSound(m) /\ ReadingIsSound(m) /\ AnswerIsSound(m))'
    BY <1>1, <2>1, <2>2
       DEF PageIsSound, ReadingIsSound, AnswerIsSound, editorial, IsPublished,
           InState, Exists, IsDue, Out, Superseded, Nothing
  <2>5. EditorialIsSound' /\ MemberIsSound'
    BY <1>4, <2>4, OtherMembersAreSound DEF IInv, TypeOK
  <2> QED BY <2>3, <2>5 DEF IInv
<1> QED BY <1>3, <1>4

LEMMA ReadProblemIsSound ==
    ASSUME IInv, NEW m \in Members, ReadProblem(m)
    PROVE  IInv'
<1> USE DEF ReadProblem
<1> DEFINE v == shown[m].version
<1>1. /\ PageIsSound(m) /\ ReadingIsSound(m) /\ AnswerIsSound(m)
      /\ shown[m] # None /\ reading[m].rubric = version[v].content
      /\ v \in Versions /\ IsPublished(v) /\ IsDue(version[v].problem)
  BY DEF IInv, MemberIsSound, PageIsSound, ReadingIsSound, IsPublished
<1>2. version[v] \in Rows /\ version[v].content \in Contents
  BY <1>1 DEF IInv, TypeOK, IsPublished, InState, Exists, Rows
<1>3. CASE Readable(v)
  <2>1. /\ reading'[m].rubric = version[v].content
        /\ reading'[m].problem = version[v].content
        /\ answer'[m] = answer[m]
    BY <1>1, <1>3 DEF IInv, TypeOK
  <2>2. TypeOK'
    BY <1>2, <1>3 DEF IInv, TypeOK, editorial
  <2>3. (PageIsSound(m) /\ ReadingIsSound(m) /\ AnswerIsSound(m))'
    BY <1>1, <2>1
       DEF PageIsSound, ReadingIsSound, AnswerIsSound, editorial, IsPublished,
           InState, Exists, IsDue, Out, Superseded
  <2>4. EditorialIsSound' /\ MemberIsSound'
    BY <1>3, <2>3, OtherMembersAreSound DEF IInv, TypeOK
  <2> QED BY <2>2, <2>4 DEF IInv
<1>4. CASE ~ Readable(v)
  <2>1. Superseded(v)
    BY <1>1, <1>4, UnreadableIsSuperseded
  <2>2. reading'[m] = Nothing /\ answer'[m] = "notFound"
    BY <1>4 DEF IInv, TypeOK
  <2>3. TypeOK'
    BY <1>4 DEF IInv, TypeOK, editorial, Answers, Nothing
  <2>4. (PageIsSound(m) /\ ReadingIsSound(m) /\ AnswerIsSound(m))'
    BY <1>1, <2>1, <2>2
       DEF PageIsSound, ReadingIsSound, AnswerIsSound, editorial, IsPublished,
           InState, Exists, IsDue, Out, Superseded, Nothing
  <2>5. EditorialIsSound' /\ MemberIsSound'
    BY <1>4, <2>4, OtherMembersAreSound DEF IInv, TypeOK
  <2> QED BY <2>3, <2>5 DEF IInv
<1> QED BY <1>3, <1>4

LEMMA InsertIsSound ==
    ASSUME IInv, NEW m \in Members, InsertSubmission(m)
    PROVE  IInv'
<1> USE DEF InsertSubmission, StoreRow
<1> DEFINE v == shown[m].version
<1>1. /\ PageIsSound(m) /\ shown[m] # None
      /\ shown[m].content = version[v].content
      /\ reading[m].rubric = version[v].content
      /\ reading[m].problem = version[v].content
      /\ v \in Versions /\ IsPublished(v) /\ IsDue(version[v].problem)
  BY DEF IInv, MemberIsSound, PageIsSound, ReadingIsSound, IsPublished
<1>2. Eligible(v)
  BY <1>1 DEF Eligible, IsPublished
<1>3. version[v] \in Rows /\ version[v].content \in Contents
  BY <1>1 DEF IInv, TypeOK, IsPublished, InState, Exists, Rows
<1>4. /\ reading'[m] = Nothing
      /\ answer'[m] = "stored"
  BY <1>2 DEF IInv, TypeOK
<1>5. PICK passed \in BOOLEAN : submissions' = submissions \cup {Row(m, passed)}
  BY <1>2
<1>6. TypeOK'
  BY <1>1, <1>2, <1>3, <1>5 DEF IInv, TypeOK, editorial, Answers, Nothing, Row
<1>7. RowIsSound(Row(m, passed))
  BY <1>1 DEF RowIsSound, Row
<1>8. (PageIsSound(m) /\ ReadingIsSound(m) /\ AnswerIsSound(m))'
  BY <1>1, <1>4
     DEF PageIsSound, ReadingIsSound, AnswerIsSound, editorial, IsPublished,
         InState, Exists, IsDue, Out, Nothing
<1>9. EditorialIsSound' /\ MemberIsSound'
  BY <1>5, <1>7, <1>8, OtherMembersAreSound DEF IInv, TypeOK
<1> QED BY <1>6, <1>9 DEF IInv

-----------------------------------------------------------------------------
(* The theorems.                                                           *)

\* What every step does: an editorial step or the coming of a day is steady
\* and leaves the member's variables alone.
LEMMA EditingIsSound ==
    ASSUME IInv, Editing \/ DayComes
    PROVE  IInv' /\ Steady /\ UNCHANGED member
<1>1. UNCHANGED member
  BY DEF Editing, DayComes, CreateVersion, ReplaceVersion, ReadTarget,
         PublishVersion, ValidateVersion, ApproveTarget
<1>2. TypeOK' /\ EditorialIsSound' /\ Steady
  BY CreateIsSound, ReplaceIsSound, ReadTargetIsSound, PublishIsSound,
     ValidateIsSound, ApproveIsSound, DayIsSound
     DEF Editing
<1>3. MemberIsSound'
  BY <1>1, <1>2, SteadyKeepsMembers
<1> QED BY <1>1, <1>2, <1>3 DEF IInv

LEMMA LearningIsSound ==
    ASSUME IInv, NEW m \in Members, Learning(m)
    PROVE  IInv'
<1>1. ASSUME NEW p \in Problems, OpenProblem(m, p) PROVE IInv'
  BY <1>1, ShowIsSound DEF OpenProblem, Out, IInv, TypeOK
<1>2. CASE OpenToday(m)
  BY <1>2, ShowIsSound DEF OpenToday, Out, IInv, TypeOK
<1> QED BY <1>1, <1>2, ReadRubricIsSound, ReadProblemIsSound, InsertIsSound
        DEF Learning

LEMMA StutterIsSound ==
    ASSUME IInv, UNCHANGED vars
    PROVE  IInv'
<1> USE DEF vars, editorial, member
<1>1. TypeOK' /\ EditorialIsSound' /\ Steady
  BY DEF IInv, TypeOK, EditorialIsSound, ValidatedContentIsSound, CalendarIsSound,
         ApprovingIsSound, Steady, IsPublished, InState, Exists, Dates
<1> QED BY <1>1, SteadyKeepsMembers DEF IInv

LEMMA NextIsSound == IInv /\ [Next]_vars => IInv'
  BY EditingIsSound, LearningIsSound, StutterIsSound DEF Next

\* The inductive invariant of publication: the editorial tables are sound, and
\* whatever a member was shown or has read is frozen, published content.
THEOREM Invariance == Spec => []IInv
  BY InitIsSound, NextIsSound, PTL DEF Spec

\* The types of the tables, the pages and the answers.
THEOREM PublicationTypeCorrect == Spec => []TypeOK
<1>1. IInv => TypeOK
  BY DEF IInv
<1> QED BY <1>1, Invariance, PTL

\* No edit slips in between the validation of a content and its approval or
\* publication (replace_version, validate_version, the freeze trigger).
THEOREM Soundness == Spec => []ValidatedContentIsSound
<1>1. IInv => ValidatedContentIsSound
  BY DEF IInv, EditorialIsSound
<1> QED BY <1>1, Invariance, PTL

\* Whatever the editors do, a stored submission was shown, read and graded as
\* one content, the one its version keeps for good (create_submission).
THEOREM OneContent == Spec => []SubmissionsKeepTheirVersion
<1>1. IInv => SubmissionsKeepTheirVersion
  BY DEF IInv, MemberIsSound, RowIsSound, SubmissionsKeepTheirVersion, IsPublished,
         InState
<1> QED BY <1>1, Invariance, PTL

\* A member's submission is refused only for a correction, and the insert never
\* turns away what the reads let through (validate_submission).
THEOREM RefusalsAreDue == Spec => []HonestRefusals
<1>1. IInv => HonestRefusals
  BY DEF IInv, MemberIsSound, AnswerIsSound, HonestRefusals
<1> QED BY <1>1, Invariance, PTL

-----------------------------------------------------------------------------
(* What a member can read and what counts as passed.                       *)

\* Every step is steady and keeps what has been submitted.
LEMMA EveryStepIsSteady ==
    ASSUME IInv, [Next]_vars
    PROVE  Steady /\ submissions \subseteq submissions'
<1>1. CASE Editing \/ DayComes
  BY <1>1, EditingIsSound DEF member
<1>2. CASE UNCHANGED <<editorial, today>> /\ submissions \subseteq submissions'
  BY <1>2 DEF editorial, IInv, TypeOK, Steady, IsPublished, InState, Exists
<1>3. ASSUME NEW m \in Members, Learning(m)
      PROVE  UNCHANGED <<editorial, today>> /\ submissions \subseteq submissions'
  <2>1. ASSUME NEW p \in Problems, OpenProblem(m, p)
        PROVE  UNCHANGED <<editorial, today>> /\ submissions \subseteq submissions'
    BY <2>1 DEF OpenProblem, Show
  <2>2. CASE OpenToday(m)
    BY <2>2 DEF OpenToday, Show
  <2>3. CASE ReadRubric(m)
    BY <2>3 DEF ReadRubric
  <2>4. CASE ReadProblem(m)
    BY <2>4 DEF ReadProblem
  <2>5. CASE InsertSubmission(m)
    BY <2>5 DEF InsertSubmission, StoreRow
  <2> QED BY <1>3, <2>1, <2>2, <2>3, <2>4, <2>5 DEF Learning
<1>4. CASE UNCHANGED vars
  BY <1>2, <1>4 DEF vars, member
<1> QED BY <1>1, <1>2, <1>3, <1>4 DEF Next

\* A date that is out stays out, with a readable version of the same problem.
LEMMA OutStaysOut ==
    ASSUME IInv, IInv', Steady, NEW d \in Dates, Out(d)
    PROVE  /\ Out(d)'
           /\ calendar'[d] \in Versions
           /\ Readable(calendar[d])'
           /\ version'[calendar'[d]].problem = version[calendar[d]].problem
<1>1. /\ d <= today'
      /\ calendar'[d] # None
      /\ version'[calendar'[d]].problem = version[calendar[d]].problem
  BY DEF Out, Steady, IInv, TypeOK, Dates
<1>2. IsPublished(calendar[d])'
  BY <1>1 DEF IInv, EditorialIsSound, CalendarIsSound
<1> QED BY <1>1, <1>2 DEF Out, Readable, IsPublished

LEMMA ReadablesGrow ==
    ASSUME IInv, IInv', Steady
    PROVE  Readables \subseteq Readables'
<1> SUFFICES ASSUME NEW v \in Versions, Readable(v)
             PROVE  version[v].problem \in Readables'
  BY DEF Readables
<1>1. PICK d \in Dates : Out(d) /\ calendar[d] = v
  BY DEF Readable
<1>2. /\ calendar'[d] \in Versions
      /\ Readable(calendar[d])'
      /\ version'[calendar'[d]].problem = version[v].problem
  BY <1>1, OutStaysOut
<1> QED BY <1>2 DEF Readables

LEMMA DashboardGrows ==
    ASSUME IInv, IInv', Steady, submissions \subseteq submissions',
           NEW m \in Members
    PROVE  Dashboard(m) \subseteq Dashboard(m)'
<1> SUFFICES ASSUME NEW p \in Dashboard(m) PROVE p \in Dashboard(m)'
  OBVIOUS
<1>1. PICK d \in Dates : Out(d) /\ version[calendar[d]].problem = p
  BY DEF Dashboard
<1>2. PICK s \in submissions : s.by = m /\ s.passed /\ version[s.version].problem = p
  BY DEF Dashboard
<1>3. s \in submissions' /\ version'[s.version] = version[s.version]
  BY DEF IInv, MemberIsSound, RowIsSound, Steady, IsPublished
<1>4. Out(d)' /\ Readable(calendar[d])' /\ version'[calendar'[d]].problem = p
  BY <1>1, OutStaysOut
<1> QED BY <1>2, <1>3, <1>4 DEF Dashboard

\* A correction takes no problem away from a member and no passed problem from
\* the dashboard (publish_version's upsert, publication_member_read, dashboard).
THEOREM NothingIsTakenAway == Spec => CorrectionsTakeNothingAway
<1>1. IInv /\ IInv' /\ [Next]_vars =>
         [/\ Readables \subseteq Readables'
          /\ \A m \in Members : Dashboard(m) \subseteq Dashboard(m)']_vars
  BY EveryStepIsSteady, ReadablesGrow, DashboardGrows
<1> QED BY <1>1, Invariance, PTL DEF Spec, CorrectionsTakeNothingAway
-----------------------------------------------------------------------------
(* The library: a list that is asked for page by page, under corrections.   *)

\* A finite set of dates can be listed from the newest to the oldest: a date
\* has its place by the number of those that are not older.
LEMMA DatesCanBeSorted ==
    ASSUME NEW S, S \subseteq Dates
    PROVE  /\ IsFiniteSet(S)
           /\ Cardinality(S) \in Nat
           /\ \E rows \in [1..Cardinality(S) -> S] :
                 \A i, j \in 1..Cardinality(S) : i < j => rows[i] > rows[j]
<1> DEFINE From(d) == { e \in S : e >= d }
           n == Cardinality(S)
           rank == [d \in S |-> Cardinality(From(d))]
<1>1. S \in SUBSET Nat /\ \A d \in S : d <= LastDay
  BY DEF Dates
<1>2. IsFiniteSet(S)
  BY <1>1, PublicationAssumption, FS_BoundedSetOfNaturals
<1>3. n \in Nat
  BY <1>2, FS_CardinalityType
<1>4. \A d \in S : From(d) \in SUBSET S /\ d \in From(d)
  BY <1>1
<1>5. ASSUME NEW d \in S
      PROVE  IsFiniteSet(From(d)) /\ rank[d] \in 1..n
  <2>1. From(d) \in SUBSET S /\ d \in From(d)
    BY <1>4
  <2>2. rank[d] = Cardinality(From(d))
    OBVIOUS
  <2> HIDE DEF From, rank
  <2>3. IsFiniteSet(From(d)) /\ Cardinality(From(d)) <= n
    BY <1>2, <2>1, FS_Subset
  <2>4. Cardinality(From(d)) \in Nat /\ Cardinality(From(d)) # 0
    BY <2>1, <2>3, FS_CardinalityType, FS_EmptySet
  <2> HIDE DEF n
  <2> QED BY <1>3, <2>2, <2>3, <2>4
<1>6. ASSUME NEW d \in S, NEW e \in S, d < e PROVE rank[d] > rank[e]
  <2>1. From(e) \cup {d} \in SUBSET From(d) /\ d \notin From(e)
    <3>1. d \in Nat /\ e \in Nat /\ \A x \in S : x \in Nat
      BY <1>1
    <3>2. \A x \in From(e) : x \in From(d)
      BY <1>6, <3>1
    <3>3. d \in From(d) /\ d \notin From(e)
      BY <1>6, <3>1
    <3> HIDE DEF From
    <3> QED BY <3>2, <3>3
  <2>2. rank[d] = Cardinality(From(d)) /\ rank[e] = Cardinality(From(e))
    OBVIOUS
  <2>3. IsFiniteSet(From(d)) /\ IsFiniteSet(From(e))
        /\ rank[d] \in 1..n /\ rank[e] \in 1..n
    BY <1>5
  <2> HIDE DEF From, rank, n
  <2>4. Cardinality(From(e) \cup {d}) = Cardinality(From(e)) + 1
    BY <2>1, <2>3, FS_AddElement
  <2>5. Cardinality(From(e) \cup {d}) <= Cardinality(From(d))
    BY <2>1, <2>3, FS_Subset
  <2> QED BY <2>2, <2>3, <2>4, <2>5
<1>7. ASSUME NEW d \in S, NEW e \in S, rank[d] = rank[e] PROVE d = e
  <2>1. rank[d] \in 1..n
    BY <1>5
  <2> HIDE DEF rank, n
  <2>2. ~ (d < e) /\ ~ (e < d)
    BY <1>3, <1>6, <1>7, <2>1
  <2> QED BY <1>1, <2>2
<1>8. rank \in [S -> 1..n]
  BY <1>5
<1>9. \A i \in 1..n : \E d \in S : rank[d] = i
  <2> HIDE DEF rank, n
  <2>1. rank \in Injection(S, 1..n)
    BY <1>7, <1>8 DEF Injection, IsInjective
  <2>2. IsFiniteSet(1..n) /\ Cardinality(1..n) = n
    <3>1. 1 \in Int /\ n \in Int /\ (IF 1 > n THEN 0 ELSE n - 1 + 1) = n
      BY <1>3
    <3> QED BY <3>1, FS_Interval
  <2>3. rank \in Surjection(S, 1..n)
    BY <2>1, <2>2, FS_Injection DEF n
  <2> QED BY <2>3 DEF Surjection
<1> DEFINE rows == [i \in 1..n |-> CHOOSE d \in S : rank[d] = i]
<1>10. \A i \in 1..n : rows[i] \in S /\ rank[rows[i]] = i
  <2> HIDE DEF rank, n
  <2> QED BY <1>9
<1>11. rows \in [1..n -> S]
  BY <1>10
<1>12. \A i, j \in 1..n : i < j => rows[i] > rows[j]
  <2> HIDE DEF rank, rows, n
  <2> SUFFICES ASSUME NEW i \in 1..n, NEW j \in 1..n, i < j PROVE rows[i] > rows[j]
    OBVIOUS
  <2>1. rows[i] \in S /\ rows[j] \in S /\ rank[rows[i]] = i /\ rank[rows[j]] = j
    BY <1>10
  <2>2. rows[i] # rows[j] /\ ~ (rows[i] < rows[j])
    BY <1>3, <1>6, <2>1
  <2>3. rows[i] \in Nat /\ rows[j] \in Nat
    BY <1>1, <2>1
  <2> QED BY <2>2, <2>3
<1> HIDE DEF rows
<1> QED BY <1>2, <1>3, <1>11, <1>12

LEMMA NewestFirstProperties ==
    ASSUME NEW S, S \subseteq Dates, NEW rows, rows = NewestFirst(S)
    PROVE  /\ rows \in Seq(S)
           /\ \A i, j \in 1..Len(rows) : i < j => rows[i] > rows[j]
           /\ \A d \in S : \E i \in 1..Len(rows) : rows[i] = d
<1>1. PICK n : n = Cardinality(S)
  OBVIOUS
<1>2. /\ IsFiniteSet(S)
      /\ n \in Nat
      /\ \E r \in [1..n -> S] : \A i, j \in 1..n : i < j => r[i] > r[j]
  BY <1>1, DatesCanBeSorted
<1>3. PICK r0 \in [1..n -> S] : \A i, j \in 1..n : i < j => r0[i] > r0[j]
  BY <1>2
<1>4. rows = CHOOSE r \in [1..n -> S] : \A i, j \in DOMAIN r : i < j => r[i] > r[j]
  BY <1>1 DEF NewestFirst
<1>5. DOMAIN r0 = 1..n
  OBVIOUS
<1>6. rows \in [1..n -> S] /\ \A i, j \in DOMAIN rows : i < j => rows[i] > rows[j]
  BY <1>3, <1>4, <1>5
<1>7. DOMAIN rows = 1..n
  BY <1>6
<1>8. \A i, j \in 1..n : i < j => rows[i] > rows[j]
  BY <1>6, <1>7
<1> S \subseteq Nat
  BY PublicationAssumption DEF Dates
<1>9. rows \in Injection(1..n, S)
  <2>1. ASSUME NEW i \in 1..n, NEW j \in 1..n, rows[i] = rows[j] PROVE i = j
    <3>1. rows[i] \in S /\ rows[j] \in S
      BY <1>6
    <3> rows[i] \in Nat /\ rows[j] \in Nat
      BY <3>1, S \subseteq Nat
    <3>2. ~ (i < j) /\ ~ (j < i)
      BY <1>8, <2>1, <3>1
    <3> QED BY <1>2, <3>2
  <2> QED BY <1>6, <1>7, <2>1 DEF Injection, IsInjective
<1>10. IsFiniteSet(1..n) /\ Cardinality(1..n) = n
  <2>1. 1 \in Int /\ n \in Int /\ (IF 1 > n THEN 0 ELSE n - 1 + 1) = n
    BY <1>2
  <2> QED BY <2>1, FS_Interval
<1>11. rows \in Surjection(1..n, S)
  BY <1>1, <1>2, <1>9, <1>10, FS_Injection
<1>12. \A d \in S : \E i \in 1..n : rows[i] = d
  BY <1>11 DEF Surjection
<1>13. rows \in Seq(S) /\ Len(rows) = n
  BY <1>2, <1>6
<1> QED BY <1>8, <1>12, <1>13

\* The problem the calendar has for a date.
ProblemOf(d) == version[calendar[d]].problem

\* What a page shows: the problems of its dates, each before the one asked for
\* and none before the cursor, once; and no cursor is beyond a row that is left.
PageOK(page, filter, before) ==
    /\ page.items \in Seq(Problems)
    /\ page.cursor \in Dates \cup {None}
    /\ page.cursor # None => page.cursor < before
    /\ IsInjective(page.items)
    /\ \A i \in 1..Len(page.items) :
          \E d \in Dates :
             /\ d < before
             /\ calendar[d] # None
             /\ ProblemOf(d) = page.items[i]
             /\ page.cursor # None => d >= page.cursor
    /\ \A d \in Listed(filter, before) :
          \/ \E i \in 1..Len(page.items) : page.items[i] = ProblemOf(d)
          \/ page.cursor # None /\ d < page.cursor

LEMMA PageIsOK ==
    ASSUME IInv, NEW filter, NEW before \in Nat
    PROVE  PageOK(Page(filter, before), filter, before)
<1>1. PICK S : S = Listed(filter, before)
  OBVIOUS
<1>2. /\ S \subseteq Dates
      /\ \A d \in S : /\ d < before
                      /\ calendar[d] # None
                      /\ version[calendar[d]] \in Rows
                      /\ ProblemOf(d) \in Problems
  <2>1. S \subseteq Dates /\ \A d \in S : d < before /\ calendar[d] # None
    BY <1>1 DEF Listed, Out
  <2>2. \A d \in S : version[calendar[d]] \in Rows
    BY <2>1 DEF IInv, TypeOK, EditorialIsSound, CalendarIsSound, IsPublished,
                InState, Exists
  <2> QED BY <2>1, <2>2 DEF Rows, ProblemOf
<1>3. \A d \in S : \A e \in S : d # e => ProblemOf(d) # ProblemOf(e)
  BY <1>2 DEF IInv, EditorialIsSound, CalendarIsSound, ProblemOf
<1>4. PICK rows : rows = NewestFirst(S)
  OBVIOUS
<1>5. /\ rows \in Seq(S)
      /\ \A i, j \in 1..Len(rows) : i < j => rows[i] > rows[j]
      /\ \A d \in S : \E i \in 1..Len(rows) : rows[i] = d
  BY <1>2, <1>4, NewestFirstProperties
<1>6. PICK n \in Nat : n = Len(rows)
  BY <1>5
<1>7. \A i \in 1..n : rows[i] \in S /\ rows[i] \in Nat
  <2>1. \A i \in 1..n : rows[i] \in S
    BY <1>5, <1>6, ElementOfSeq
  <2>2. S \subseteq Nat
    BY <1>2, PublicationAssumption DEF Dates
  <2> QED BY <2>1, <2>2
<1> PageSize \in Nat /\ PageSize >= 1
  BY LibraryAssumption
<1>8. PICK m \in Nat : /\ m = Min({n, PageSize})
                      /\ m = IF n <= PageSize THEN n ELSE PageSize
  <2>1. CASE n <= PageSize
    <3>1. Min({n, PageSize}) = n
      BY <2>1 DEF Min
    <3> QED BY <2>1, <3>1
  <2>2. CASE n > PageSize
    <3>1. Min({n, PageSize}) = PageSize
      BY <2>2 DEF Min
    <3> QED BY <2>2, <3>1
  <2> QED BY <2>1, <2>2
<1> m <= n /\ \A i \in 1..m : i \in 1..n
  BY <1>8
<1>9. PICK page : page = Page(filter, before)
  OBVIOUS
<1>10. /\ page.items = [i \in 1..m |-> ProblemOf(rows[i])]
       /\ page.cursor = IF n > PageSize THEN rows[PageSize] ELSE None
  <2>1. page = [items |-> [i \in 1..Min({Len(rows), PageSize}) |->
                             version[calendar[rows[i]]].problem],
                cursor |-> NextCursor(rows)]
    BY <1>1, <1>4, <1>9 DEF Page
  <2>2. page.items = [i \in 1..m |-> ProblemOf(rows[i])]
    BY <1>6, <1>8, <2>1 DEF ProblemOf
  <2> QED BY <1>6, <2>1, <2>2 DEF NextCursor
<1>11. PICK items : items = page.items
  OBVIOUS
<1>12. /\ items \in Seq(Problems)
       /\ Len(items) = m
       /\ DOMAIN items = 1..m
       /\ \A i \in 1..m : items[i] = ProblemOf(rows[i])
  <2>1. \A i \in 1..m : ProblemOf(rows[i]) \in Problems
    BY <1>2, <1>7
  <2>2. items = [i \in 1..m |-> ProblemOf(rows[i])]
    BY <1>10, <1>11
  <2>3. items \in [1..m -> Problems]
    BY <2>1, <2>2
  <2> QED BY <2>2, <2>3
<1>13. /\ page.cursor # None => /\ n > PageSize
                                /\ m \in 1..n
                                /\ page.cursor = rows[m]
       /\ page.cursor = None => m = n
  <2>1. CASE n > PageSize
    <3>1. m \in 1..n /\ rows[m] \in Dates
      BY <1>2, <1>7, <1>8, <2>1
    <3> QED BY <1>8, <1>10, <2>1, <3>1, LibraryAssumption
  <2>2. CASE ~ (n > PageSize)
    BY <1>8, <1>10, <2>2, LibraryAssumption
  <2> QED BY <2>1, <2>2
<1>14. /\ page.cursor \in Dates \cup {None}
       /\ page.cursor # None => page.cursor < before
  BY <1>2, <1>7, <1>13
<1>15. ASSUME NEW i \in 1..m, NEW j \in 1..m, items[i] = items[j] PROVE i = j
  <2>1. i \in 1..n /\ j \in 1..n
    OBVIOUS
  <2>2. rows[i] = rows[j]
    BY <1>3, <1>7, <1>12, <1>15, <2>1
  <2>3. ~ (rows[i] > rows[j]) /\ ~ (rows[j] > rows[i])
    BY <1>7, <2>1, <2>2
  <2>4. ~ (i < j) /\ ~ (j < i)
    BY <1>5, <1>6, <2>1, <2>3
  <2> QED BY <2>4
<1>16. ASSUME NEW i \in 1..m
       PROVE  \E d \in Dates : /\ d < before
                               /\ calendar[d] # None
                               /\ ProblemOf(d) = items[i]
                               /\ page.cursor # None => d >= page.cursor
  <2>1. i \in 1..n
    OBVIOUS
  <2>2. rows[i] \in S /\ rows[i] \in Dates
    BY <1>2, <1>7, <2>1
  <2>3. page.cursor # None => rows[i] >= page.cursor
    <3> SUFFICES ASSUME page.cursor # None PROVE rows[i] >= rows[m]
      BY <1>13
    <3>1. CASE i = m
      BY <1>7, <2>1, <3>1
    <3>2. CASE i < m
      <4>1. rows[i] > rows[m]
        BY <1>5, <1>6, <1>13, <2>1, <3>2
      <4> QED BY <1>7, <1>13, <2>1, <4>1
    <3> QED BY <3>1, <3>2
  <2> QED BY <1>2, <1>12, <2>2, <2>3
<1>17. ASSUME NEW d \in S
       PROVE  \/ \E i \in 1..m : items[i] = ProblemOf(d)
              \/ page.cursor # None /\ d < page.cursor
  <2>1. PICK i \in 1..n : rows[i] = d
    BY <1>5, <1>6
  <2>2. CASE i <= m
    <3>1. i \in 1..m
      BY <2>2
    <3> QED BY <1>12, <2>1, <3>1
  <2>3. CASE i > m
    <3>1. page.cursor # None /\ m \in 1..n /\ page.cursor = rows[m]
      BY <1>13, <2>3
    <3>2. rows[m] > rows[i]
      BY <1>5, <1>6, <2>3, <3>1
    <3> QED BY <1>7, <2>1, <3>1, <3>2
  <2> QED BY <2>2, <2>3
<1>18. IsInjective(items)
  BY <1>12, <1>15 DEF IsInjective
<1>19. PageOK(page, filter, before)
  BY <1>1, <1>11, <1>12, <1>14, <1>16, <1>17, <1>18 DEF PageOK
<1> QED BY <1>9, <1>19

-----------------------------------------------------------------------------
(* Lists.                                                                  *)

PageRecords == [items : Seq(Problems), cursor : Dates \cup {None}]

Requests == [filter : Filters, cursor : Cursors \cup {None},
             page : PageRecords \cup {None}]

Walks == [filter : Filters, state : {"loading", "ready", "error"},
          seen : Seq(Problems), cursor : Cursors \cup {None},
          out : SUBSET Versions, overlap : {"none", "more", "anew"}]

\* Each of the items is of a date in the interval.
ComeFrom(items, from, before) ==
    \A i \in 1..Len(items) :
       \E d \in Dates : /\ calendar[d] # None
                        /\ ProblemOf(d) = items[i]
                        /\ d >= from
                        /\ d < before

Shows(items, v) == \E i \in 1..Len(items) : items[i] = version[v].problem

\* What a list may lack before a date: what is still to come, and what was
\* superseded by a content that its filter leaves out.
MayLack(filter, v, date) ==
    \/ Superseded(v) /\ filter # Contents
    \/ \E d \in Dates : d < date /\ Out(d) /\ ProblemOf(d) = version[v].problem

IsOwed(w, v) == IsPublished(v) /\ version[v].content \in w.filter

\* The date from which a list is complete: all dates, without a further page.
Floor(date) == IF date = None THEN 0 ELSE date

Left(cursor) == IF cursor = None THEN 0 ELSE cursor.date

\* A further page is asked for from where the list was complete; with its page
\* it will be complete from the page's cursor on.
RequestIsSound(w, q) ==
    /\ q.filter = w.filter
    /\ q.cursor = None => w.state = "loading"
    /\ q.cursor # None => w.state = "ready" /\ q.cursor.filter = w.filter
    /\ \A v \in w.out : \/ q.cursor # None /\ Shows(w.seen, v)
                        \/ MayLack(w.filter, v, Before(q.cursor))
    /\ q.page # None =>
          /\ q.page.cursor # None => q.page.cursor < Before(q.cursor)
          /\ IsInjective(q.page.items)
          /\ ComeFrom(q.page.items, Floor(q.page.cursor), Before(q.cursor))
          /\ \A v \in w.out : \/ q.cursor # None /\ Shows(w.seen, v)
                              \/ Shows(q.page.items, v)
                              \/ MayLack(w.filter, v, Floor(q.page.cursor))

AtMostOne(A) == \A s, t \in Slots : A[s] # None /\ A[t] # None => s = t

\* A list, with the requests under way for it.
WalkIsSound(w, A) ==
    /\ \A v \in w.out : IsOwed(w, v)
    /\ w.overlap # "anew" =>
          /\ w.state = "ready" =>
                /\ w.cursor # None => w.cursor.filter = w.filter
                /\ \A v \in w.out : \/ Shows(w.seen, v)
                                    \/ MayLack(w.filter, v, Left(w.cursor))
          /\ \A s \in Slots : A[s] # None => RequestIsSound(w, A[s])
          /\ w.state = "loading" => AtMostOne(A)
    /\ w.overlap = "none" =>
          /\ AtMostOne(A)
          /\ w.state = "ready" =>
                IsInjective(w.seen) /\ ComeFrom(w.seen, Left(w.cursor), LastDay + 1)
          /\ \A s \in Slots :
                A[s] # None /\ A[s].cursor # None => A[s].cursor = w.cursor

WalksInv ==
    /\ walk \in [Members -> Walks \cup {None}]
    /\ asked \in [Members -> [Slots -> Requests \cup {None}]]
    /\ \A m \in Members :
          \/ walk[m] = None /\ \A s \in Slots : asked[m][s] = None
          \/ walk[m] \in Walks /\ WalkIsSound(walk[m], asked[m])

\* What a list is owed, shows and may lack decides whether it is sound.
LEMMA WalkCarriesOver ==
    ASSUME NEW w, NEW A, WalkIsSound(w, A),
           \A v : IsOwed(w, v) => IsOwed(w, v)',
           \A v, items : IsPublished(v) /\ Shows(items, v) => Shows(items, v)',
           \A items, from, before :
              ComeFrom(items, from, before) => ComeFrom(items, from, before)',
           \A filter, v, date :
              IsPublished(v) /\ MayLack(filter, v, date) => MayLack(filter, v, date)'
    PROVE  WalkIsSound(w, A)'
<1>1. \A v \in w.out : IsPublished(v) /\ IsOwed(w, v)'
  BY DEF WalkIsSound, IsOwed
<1>2. ASSUME NEW q, RequestIsSound(w, q) PROVE RequestIsSound(w, q)'
  <2>1. ASSUME NEW v \in w.out
        PROVE  \/ q.cursor # None /\ Shows(w.seen, v)'
               \/ MayLack(w.filter, v, Before(q.cursor))'
    <3>1. \/ q.cursor # None /\ Shows(w.seen, v)
          \/ MayLack(w.filter, v, Before(q.cursor))
      BY <1>2 DEF RequestIsSound
    <3>2. Before(q.cursor)' = Before(q.cursor)
      BY DEF Before
    <3> QED BY <1>1, <3>1, <3>2 DEF Before
  <2>2. ASSUME q.page # None, NEW v \in w.out
        PROVE  \/ q.cursor # None /\ Shows(w.seen, v)'
               \/ Shows(q.page.items, v)'
               \/ MayLack(w.filter, v, Floor(q.page.cursor))'
    <3>1. \/ q.cursor # None /\ Shows(w.seen, v)
          \/ Shows(q.page.items, v)
          \/ MayLack(w.filter, v, Floor(q.page.cursor))
      BY <1>2, <2>2 DEF RequestIsSound
    <3> QED BY <1>1, <3>1 DEF Floor
  <2>3. q.page # None =>
           ComeFrom(q.page.items, Floor(q.page.cursor), Before(q.cursor))'
    BY <1>2 DEF RequestIsSound, Before, Floor
  <2> QED BY <1>2, <2>1, <2>2, <2>3 DEF RequestIsSound, Before, Floor
<1>3. ASSUME w.overlap # "anew", w.state = "ready", NEW v \in w.out
      PROVE  Shows(w.seen, v)' \/ MayLack(w.filter, v, Left(w.cursor))'
  <2>1. Shows(w.seen, v) \/ MayLack(w.filter, v, Left(w.cursor))
    BY <1>3 DEF WalkIsSound
  <2> QED BY <1>1, <2>1 DEF Left
<1>4. w.overlap = "none" /\ w.state = "ready" =>
         ComeFrom(w.seen, Left(w.cursor), LastDay + 1)'
  BY DEF WalkIsSound, Left
<1> QED BY <1>1, <1>2, <1>3, <1>4 DEF WalkIsSound, AtMostOne, Left

\* The editors' steps leave a list as sound as it was.
LEMMA WalkSurvivesEditing ==
    ASSUME IInv, IInv', Steady, NEW w, NEW A, WalkIsSound(w, A)
    PROVE  WalkIsSound(w, A)'
<1>1. \A d \in Dates : calendar[d] # None =>
         calendar'[d] # None /\ ProblemOf(d)' = ProblemOf(d)
  BY DEF Steady, ProblemOf
<1>2. \A d \in Dates : Out(d) => Out(d)' /\ calendar[d] # None
  BY OutStaysOut DEF Out
<1>3. \A v \in Versions : IsPublished(v) =>
         /\ IsPublished(v)'
         /\ version'[v] = version[v]
         /\ Superseded(v) => Superseded(v)'
  BY DEF Steady, Superseded
<1>4. \A v : IsPublished(v) => v \in Versions
  BY DEF IsPublished
<1>5. \A v : IsOwed(w, v) => IsOwed(w, v)'
  BY <1>3, <1>4 DEF IsOwed
<1>6. \A v, items : IsPublished(v) /\ Shows(items, v) => Shows(items, v)'
  BY <1>3, <1>4 DEF Shows
<1>7. \A items, from, before :
         ComeFrom(items, from, before) => ComeFrom(items, from, before)'
  BY <1>1 DEF ComeFrom
<1>8. ASSUME NEW filter, NEW v, NEW date, IsPublished(v), MayLack(filter, v, date)
      PROVE  MayLack(filter, v, date)'
  <2>1. v \in Versions /\ version'[v] = version[v]
        /\ (Superseded(v) => Superseded(v)')
    BY <1>3, <1>4, <1>8
  <2>2. CASE Superseded(v) /\ filter # Contents
    BY <2>1, <2>2 DEF MayLack
  <2>3. CASE \E d \in Dates : d < date /\ Out(d) /\ ProblemOf(d) = version[v].problem
    <3>1. PICK d \in Dates : /\ d < date
                             /\ Out(d)
                             /\ ProblemOf(d) = version[v].problem
      BY <2>3
    <3>2. Out(d)' /\ ProblemOf(d)' = version'[v].problem
      BY <1>1, <1>2, <2>1, <3>1
    <3> QED BY <2>3, <3>1, <3>2 DEF MayLack
  <2> QED BY <1>8, <2>2, <2>3 DEF MayLack
<1> QED BY <1>5, <1>6, <1>7, <1>8, WalkCarriesOver

LEMMA SameTablesSameWalk ==
    ASSUME UNCHANGED vars, NEW w, NEW A, WalkIsSound(w, A)
    PROVE  WalkIsSound(w, A)'
<1>1. \A v : IsOwed(w, v) => IsOwed(w, v)'
  BY DEF vars, editorial, IsOwed, IsPublished, InState, Exists
<1>2. \A v, items : IsPublished(v) /\ Shows(items, v) => Shows(items, v)'
  BY DEF vars, editorial, Shows
<1>3. \A items, from, before :
         ComeFrom(items, from, before) => ComeFrom(items, from, before)'
  BY DEF vars, editorial, ComeFrom, ProblemOf
<1>4. \A filter, v, date :
         IsPublished(v) /\ MayLack(filter, v, date) => MayLack(filter, v, date)'
  BY DEF vars, editorial, MayLack, ProblemOf, IsPublished, InState, Exists, Superseded,
         Out
<1> QED BY <1>1, <1>2, <1>3, <1>4, WalkCarriesOver

\* A member's step touches the member's own list and requests.
LEMMA OneListSteps ==
    ASSUME WalksInv, UNCHANGED vars, NEW m \in Members,
           NEW w \in Walks, NEW A \in [Slots -> Requests \cup {None}],
           WalkIsSound(w, A),
           walk' = [walk EXCEPT ![m] = w], asked' = [asked EXCEPT ![m] = A]
    PROVE  WalksInv'
<1>1. /\ walk' \in [Members -> Walks \cup {None}]
      /\ asked' \in [Members -> [Slots -> Requests \cup {None}]]
  BY DEF WalksInv
<1>2. ASSUME NEW n \in Members
      PROVE  \/ walk'[n] = None /\ \A s \in Slots : asked'[n][s] = None
             \/ walk'[n] \in Walks /\ WalkIsSound(walk[n], asked[n])'
  <2>1. CASE n = m
    <3>1. walk'[n] = w /\ asked'[n] = A
      BY <2>1 DEF WalksInv
    <3>2. WalkIsSound(w, A)'
      BY SameTablesSameWalk
    <3> QED BY <3>1, <3>2
  <2>2. CASE n # m
    <3>1. PICK x, B : x = walk[n] /\ B = asked[n]
      OBVIOUS
    <3>2. walk'[n] = x /\ asked'[n] = B
      BY <2>2, <3>1 DEF WalksInv
    <3>3. CASE x = None /\ \A s \in Slots : B[s] = None
      BY <3>2, <3>3
    <3>4. CASE x \in Walks /\ WalkIsSound(x, B)
      BY <3>2, <3>4, SameTablesSameWalk
    <3> QED BY <3>1, <3>3, <3>4 DEF WalksInv
  <2> QED BY <2>1, <2>2
<1> QED BY <1>1, <1>2 DEF WalksInv

\* What a list may lack is on its next page, comes after that page, or was
\* superseded out of the filter.
LEMMA PageAdvances ==
    ASSUME IInv, NEW w, NEW v, IsOwed(w, v), NEW before, NEW page,
           PageOK(page, w.filter, before), MayLack(w.filter, v, before)
    PROVE  Shows(page.items, v) \/ MayLack(w.filter, v, Floor(page.cursor))
<1>1. CASE Superseded(v) /\ w.filter # Contents
  BY <1>1 DEF MayLack
<1>2. CASE \E d \in Dates : d < before /\ Out(d) /\ ProblemOf(d) = version[v].problem
  <2>1. PICK d \in Dates : d < before /\ Out(d) /\ ProblemOf(d) = version[v].problem
    BY <1>2
  <2>2. calendar[d] # None /\ IsPublished(calendar[d])
    BY <2>1 DEF Out, IInv, EditorialIsSound, CalendarIsSound
  <2>3. CASE version[calendar[d]].content \in w.filter
    <3>1. d \in Listed(w.filter, before)
      BY <2>1, <2>2, <2>3 DEF Listed, Readable, IsPublished
    <3>2. \/ \E i \in 1..Len(page.items) : page.items[i] = ProblemOf(d)
          \/ page.cursor # None /\ d < page.cursor
      BY <3>1 DEF PageOK
    <3> QED BY <2>1, <3>2 DEF Shows, MayLack, Floor
  <2>4. CASE ~ (version[calendar[d]].content \in w.filter)
    <3>1. calendar[d] # v
      BY <2>4 DEF IsOwed
    <3>2. Superseded(v)
      BY <2>1, <2>2, <3>1 DEF Superseded, ProblemOf
    <3>3. version[calendar[d]].content \in Contents
      BY <2>2 DEF IInv, TypeOK, Rows, IsPublished, InState, Exists
    <3> QED BY <2>4, <3>2, <3>3 DEF MayLack
  <2> QED BY <2>3, <2>4
<1> QED BY <1>1, <1>2 DEF MayLack

\* Both parts of a list are in what it shows with the page appended.
LEMMA AppendedParts ==
    ASSUME NEW old \in Seq(Problems), NEW new \in Seq(Problems),
           NEW n, n = Len(old), NEW k, k = Len(new), NEW all, all = old \o new
    PROVE  /\ n \in Nat /\ k \in Nat
           /\ all \in Seq(Problems) /\ Len(all) = n + k
           /\ \A i \in 1..n : i \in 1..(n + k) /\ all[i] = old[i]
           /\ \A i \in 1..k : n + i \in 1..(n + k) /\ all[n + i] = new[i]
           /\ \A i \in 1..(n + k) : i \in 1..n \/ (i - n \in 1..k /\ n + (i - n) = i)
<1>1. n \in Nat /\ k \in Nat /\ Len(all) = n + k /\ all \in Seq(Problems)
  OBVIOUS
<1>2. ASSUME NEW i \in 1..n PROVE i \in 1..(n + k) /\ all[i] = old[i]
  OBVIOUS
<1>3. ASSUME NEW i \in 1..k PROVE n + i \in 1..(n + k) /\ all[n + i] = new[i]
  OBVIOUS
<1>4. ASSUME NEW i \in 1..(n + k)
      PROVE  i \in 1..n \/ (i - n \in 1..k /\ n + (i - n) = i)
  OBVIOUS
<1> QED BY <1>1, <1>2, <1>3, <1>4

LEMMA AppendedShows ==
    ASSUME NEW old \in Seq(Problems), NEW new \in Seq(Problems), NEW v,
           Shows(old, v) \/ Shows(new, v)
    PROVE  Shows(old \o new, v)
<1>1. PICK n, k, all : n = Len(old) /\ k = Len(new) /\ all = old \o new
  OBVIOUS
<1>2. CASE Shows(old, v)
  BY <1>1, <1>2, AppendedParts DEF Shows
<1>3. CASE Shows(new, v)
  BY <1>1, <1>3, AppendedParts DEF Shows
<1> QED BY <1>2, <1>3

\* A page appended to a list comes from earlier dates, and with them from other
\* problems.
LEMMA AppendedIsExact ==
    ASSUME IInv, NEW old \in Seq(Problems), NEW new \in Seq(Problems),
           IsInjective(old), IsInjective(new), NEW cursor \in Dates,
           ComeFrom(old, cursor, LastDay + 1),
           NEW next \in Nat, next < cursor, ComeFrom(new, next, cursor)
    PROVE  /\ IsInjective(old \o new)
           /\ ComeFrom(old \o new, next, LastDay + 1)
<1>1. PICK n, k, all : n = Len(old) /\ k = Len(new) /\ all = old \o new
  OBVIOUS
<1>2. /\ n \in Nat /\ k \in Nat /\ Len(all) = n + k /\ DOMAIN all = 1..(n + k)
      /\ \A i \in 1..n : i \in 1..(n + k) /\ all[i] = old[i]
      /\ \A i \in 1..k : n + i \in 1..(n + k) /\ all[n + i] = new[i]
      /\ \A i \in 1..(n + k) : i \in 1..n \/ (i - n \in 1..k /\ n + (i - n) = i)
  BY <1>1, AppendedParts
<1> Dates \subseteq Nat /\ LastDay \in Nat /\ \A d \in Dates : d <= LastDay
  BY PublicationAssumption DEF Dates
<1> cursor \in Nat
  OBVIOUS
<1>3. \A i \in 1..n : \E d \in Dates : /\ calendar[d] # None
                                       /\ ProblemOf(d) = old[i]
                                       /\ d >= cursor
  BY <1>1 DEF ComeFrom
<1>4. \A i \in 1..k : \E d \in Dates : /\ calendar[d] # None
                                       /\ ProblemOf(d) = new[i]
                                       /\ d < cursor
                                       /\ d >= next
  BY <1>1 DEF ComeFrom
<1>5. ASSUME NEW i \in 1..n, NEW j \in 1..k PROVE old[i] # new[j]
  <2>1. PICK d \in Dates : calendar[d] # None /\ ProblemOf(d) = old[i] /\ d >= cursor
    BY <1>3
  <2>2. PICK e \in Dates : calendar[e] # None /\ ProblemOf(e) = new[j] /\ e < cursor
    BY <1>4
  <2>3. d \in Nat /\ e \in Nat
    OBVIOUS
  <2>4. d # e
    BY <2>1, <2>2, <2>3
  <2> QED BY <2>1, <2>2, <2>4 DEF IInv, EditorialIsSound, CalendarIsSound, ProblemOf
<1>6. /\ \A i, j \in 1..n : old[i] = old[j] => i = j
      /\ \A i, j \in 1..k : new[i] = new[j] => i = j
  <2>1. DOMAIN old = 1..n /\ DOMAIN new = 1..k
    BY <1>1
  <2> QED BY <2>1 DEF IsInjective
<1>7. ASSUME NEW i \in 1..(n + k), NEW j \in 1..(n + k), all[i] = all[j]
      PROVE  i = j
  <2>1. CASE i \in 1..n /\ j \in 1..n
    <3>1. all[i] = old[i] /\ all[j] = old[j]
      BY <1>2, <2>1
    <3> QED BY <1>6, <1>7, <2>1, <3>1
  <2>2. CASE i \in 1..n /\ ~ (j \in 1..n)
    <3>1. all[i] = old[i] /\ j - n \in 1..k /\ all[j] = new[j - n]
      BY <1>2, <2>2
    <3> QED BY <1>5, <1>7, <2>2, <3>1
  <2>3. CASE ~ (i \in 1..n) /\ j \in 1..n
    <3>1. all[j] = old[j] /\ i - n \in 1..k /\ all[i] = new[i - n]
      BY <1>2, <2>3
    <3> QED BY <1>5, <1>7, <2>3, <3>1
  <2>4. CASE ~ (i \in 1..n) /\ ~ (j \in 1..n)
    <3>1. i - n \in 1..k /\ j - n \in 1..k /\ new[i - n] = new[j - n]
      BY <1>2, <1>7, <2>4
    <3>2. i - n = j - n
      BY <1>6, <3>1
    <3> QED BY <1>2, <3>2
  <2> QED BY <2>1, <2>2, <2>3, <2>4
<1>8. ASSUME NEW i \in 1..(n + k)
      PROVE  \E d \in Dates : /\ calendar[d] # None
                              /\ ProblemOf(d) = all[i]
                              /\ d >= next
                              /\ d < LastDay + 1
  <2>1. CASE i \in 1..n
    <3>1. PICK d \in Dates : calendar[d] # None /\ ProblemOf(d) = old[i] /\ d >= cursor
      BY <1>3, <2>1
    <3>2. d \in Nat /\ d <= LastDay
      OBVIOUS
    <3>3. d >= next /\ d < LastDay + 1
      BY <3>1, <3>2
    <3> QED BY <1>2, <2>1, <3>1, <3>3
  <2>2. CASE ~ (i \in 1..n)
    <3>1. i - n \in 1..k /\ all[i] = new[i - n]
      BY <1>2, <2>2
    <3>2. PICK d \in Dates : /\ calendar[d] # None
                             /\ ProblemOf(d) = new[i - n]
                             /\ d < cursor
                             /\ d >= next
      BY <1>4, <3>1
    <3>3. d \in Nat /\ d <= LastDay
      OBVIOUS
    <3> QED BY <3>1, <3>2, <3>3
  <2> QED BY <2>1, <2>2
<1>9. IsInjective(all)
  BY <1>2, <1>7 DEF IsInjective
<1>10. ComeFrom(all, next, LastDay + 1)
  BY <1>2, <1>8 DEF ComeFrom
<1> QED BY <1>1, <1>9, <1>10

\* A list that is asked for with nothing under way may lack all that is out.
LEMMA OpenIsSound ==
    ASSUME IInv, WalksInv, NEW m \in Members, NEW filter \in Filters,
           OpenLibrary(m, filter)
    PROVE  WalksInv'
<1>1. PICK s \in Slots : Ask(m, s, filter, None)
  BY DEF OpenLibrary
<1>2. PICK S : S = Listed(filter, LastDay + 1)
  OBVIOUS
<1>3. PICK out : out = { calendar[d] : d \in S }
  OBVIOUS
<1>4. \A d \in S : /\ d \in Dates /\ d < LastDay + 1 /\ Out(d)
                   /\ IsPublished(calendar[d])
                   /\ version[calendar[d]].content \in filter
  BY <1>2 DEF Listed, Out, IInv, EditorialIsSound, CalendarIsSound
<1> DEFINE q == [filter |-> filter, cursor |-> None, page |-> None]
           A == [asked[m] EXCEPT ![s] = q]
           w == [filter |-> filter, state |-> "loading",
                 seen |-> IF walk[m] = None THEN <<>> ELSE walk[m].seen,
                 cursor |-> IF walk[m] = None THEN None ELSE walk[m].cursor,
                 out |-> out,
                 overlap |-> IF Busy(m) THEN "anew" ELSE "none"]
<1>5. walk' = [walk EXCEPT ![m] = w] /\ asked' = [asked EXCEPT ![m] = A]
      /\ UNCHANGED vars
  BY <1>1, <1>2, <1>3 DEF OpenLibrary, Ask, WalksInv
<1>6. w \in Walks
  <2>1. out \in SUBSET Versions
    BY <1>3, <1>4 DEF IsPublished
  <2>2. w.seen \in Seq(Problems) /\ w.cursor \in Cursors \cup {None}
    BY DEF WalksInv, Walks
  <2> QED BY <2>1, <2>2 DEF Walks
<1>7. A \in [Slots -> Requests \cup {None}]
  BY DEF WalksInv, Requests
<1>8. ASSUME NEW v \in out PROVE IsOwed(w, v) /\ MayLack(filter, v, LastDay + 1)
  <2>1. PICK d \in S : calendar[d] = v
    BY <1>3
  <2> QED BY <1>4, <2>1 DEF IsOwed, MayLack, ProblemOf
<1>9. w.overlap # "anew" => \A t \in Slots : A[t] # None => t = s
  BY DEF Busy, WalksInv
<1>10. RequestIsSound(w, q)
  BY <1>8 DEF RequestIsSound, Before
<1>11. A[s] = q
  BY DEF WalksInv
<1>12. WalkIsSound(w, A)
  <2>1. w.state = "loading" /\ q.cursor = None /\ w.out = out
        /\ w.overlap \in {"none", "anew"}
    OBVIOUS
  <2> HIDE DEF w, A, q
  <2> QED BY <1>8, <1>9, <1>10, <1>11, <2>1 DEF WalkIsSound, AtMostOne
<1> HIDE DEF w, A
<1> QED BY <1>5, <1>6, <1>7, <1>12, OneListSteps

\* A further page is asked for from where the list is complete.
LEMMA LoadMoreIsSound ==
    ASSUME IInv, WalksInv, NEW m \in Members, LoadMore(m)
    PROVE  WalksInv'
<1>1. PICK w \in Walks, B \in [Slots -> Requests \cup {None}] :
         w = walk[m] /\ B = asked[m] /\ WalkIsSound(w, B)
  BY DEF LoadMore, WalksInv
<1>2. w.state = "ready" /\ w.cursor # None /\ w.cursor \in Cursors
  BY <1>1 DEF LoadMore, Walks
<1>3. PICK s \in Slots : Ask(m, s, w.filter, w.cursor)
  BY <1>1 DEF LoadMore
<1> DEFINE q == [filter |-> w.filter, cursor |-> w.cursor, page |-> None]
           A == [B EXCEPT ![s] = q]
           w2 == [w EXCEPT !.overlap = IF @ = "none" /\ Busy(m) THEN "more" ELSE @]
<1>4. walk' = [walk EXCEPT ![m] = w2] /\ asked' = [asked EXCEPT ![m] = A]
      /\ UNCHANGED vars
  BY <1>1, <1>3 DEF LoadMore, Ask, WalksInv
<1>5. w2 \in Walks /\ A \in [Slots -> Requests \cup {None}]
  BY <1>2 DEF Walks, Requests
<1>6. /\ w2.filter = w.filter /\ w2.state = w.state /\ w2.seen = w.seen
      /\ w2.cursor = w.cursor /\ w2.out = w.out
      /\ w2.overlap = "anew" <=> w.overlap = "anew"
      /\ w2.overlap = "none" =>
            w.overlap = "none" /\ \A t \in Slots : B[t] = None
  BY <1>1 DEF Walks, Busy
<1>7. B[s] = None /\ A[s] = q /\ \A t \in Slots : t # s => A[t] = B[t]
  BY <1>1, <1>3 DEF Ask
<1>8. q.filter = w.filter /\ q.cursor = w.cursor /\ q.page = None
  OBVIOUS
<1> HIDE DEF q, A, w2
<1>9. ASSUME NEW x, RequestIsSound(w, x) PROVE RequestIsSound(w2, x)
  BY <1>6, <1>9 DEF RequestIsSound
<1>10. ASSUME w.overlap # "anew" PROVE RequestIsSound(w2, q)
  <2>1. \A v \in w.out : Shows(w.seen, v) \/ MayLack(w.filter, v, Before(w.cursor))
    BY <1>1, <1>2, <1>10 DEF WalkIsSound, Left, Before
  <2>2. w.cursor.filter = w.filter
    BY <1>1, <1>2, <1>10 DEF WalkIsSound
  <2>3. \A v \in w2.out : Shows(w2.seen, v) \/ MayLack(w2.filter, v, Before(q.cursor))
    BY <1>6, <1>8, <2>1
  <2>4. q.filter = w2.filter /\ w2.state = "ready" /\ q.cursor # None
        /\ q.cursor.filter = w2.filter
    BY <1>2, <1>6, <1>8, <2>2
  <2> QED BY <1>8, <2>3, <2>4 DEF RequestIsSound
<1>11. w2.overlap # "anew" => \A t \in Slots : A[t] # None => RequestIsSound(w2, A[t])
  <2>1. w.overlap # "anew" => \A t \in Slots : B[t] # None => RequestIsSound(w, B[t])
    BY <1>1 DEF WalkIsSound
  <2> QED BY <1>6, <1>7, <1>9, <1>10, <2>1
<1>12. w2.overlap = "none" => /\ AtMostOne(A)
                              /\ \A t \in Slots : A[t] # None => A[t].cursor = w2.cursor
  BY <1>6, <1>7, <1>8 DEF AtMostOne
<1>13. \A v : IsOwed(w, v) => IsOwed(w2, v)
  BY <1>6 DEF IsOwed
<1>14. WalkIsSound(w2, A)
  <2>1. \A v \in w2.out : IsOwed(w2, v)
    BY <1>1, <1>6, <1>13 DEF WalkIsSound
  <2>2. w2.overlap # "anew" =>
           /\ w2.cursor # None => w2.cursor.filter = w2.filter
           /\ \A v \in w2.out : \/ Shows(w2.seen, v)
                                \/ MayLack(w2.filter, v, Left(w2.cursor))
    <3>1. w.overlap # "anew" =>
             /\ w.cursor # None => w.cursor.filter = w.filter
             /\ \A v \in w.out : Shows(w.seen, v) \/ MayLack(w.filter, v, Left(w.cursor))
      BY <1>1, <1>2 DEF WalkIsSound
    <3> QED BY <1>6, <3>1
  <2>3. w2.overlap = "none" =>
           IsInjective(w2.seen) /\ ComeFrom(w2.seen, Left(w2.cursor), LastDay + 1)
    BY <1>1, <1>2, <1>6 DEF WalkIsSound
  <2> QED BY <1>2, <1>6, <1>11, <1>12, <2>1, <2>2, <2>3 DEF WalkIsSound
<1> QED BY <1>4, <1>5, <1>14, OneListSteps

\* A request's page shows what the list may lack, but for what is before its
\* cursor.
LEMMA ServeIsSound ==
    ASSUME IInv, WalksInv, NEW m \in Members, NEW s \in Slots, ServePage(m, s)
    PROVE  WalksInv'
<1>1. PICK w \in Walks, B \in [Slots -> Requests \cup {None}] :
         w = walk[m] /\ B = asked[m] /\ WalkIsSound(w, B)
  BY DEF ServePage, WalksInv
<1>2. PICK q \in Requests : q = B[s] /\ q # None /\ q.page = None
  BY <1>1 DEF ServePage
<1>3. PICK before : before = Before(q.cursor)
  OBVIOUS
<1>4. before \in Nat
  BY <1>3, PublicationAssumption DEF Before, Requests, Cursors, Dates
<1>5. PICK page : page = Page(q.filter, before)
  OBVIOUS
<1>6. PageOK(page, q.filter, before)
  BY <1>4, <1>5, PageIsOK
<1> DEFINE q2 == [q EXCEPT !.page = page]
           A == [B EXCEPT ![s] = q2]
<1>7. walk' = [walk EXCEPT ![m] = w] /\ asked' = [asked EXCEPT ![m] = A]
      /\ UNCHANGED vars
  BY <1>1, <1>2, <1>3, <1>5 DEF ServePage, WalksInv
<1>8. page \in PageRecords
  <2>1. page = [items |-> page.items, cursor |-> page.cursor]
    BY <1>5 DEF Page
  <2> QED BY <1>6, <2>1 DEF PageOK, PageRecords
<1>9. q2 \in Requests /\ q2.filter = q.filter /\ q2.cursor = q.cursor /\ q2.page = page
  BY <1>8 DEF Requests
<1>10. A \in [Slots -> Requests \cup {None}] /\ A[s] = q2
       /\ \A t \in Slots : t # s => A[t] = B[t]
  BY <1>9
<1> HIDE DEF q2, A
<1>11. ASSUME w.overlap # "anew" PROVE RequestIsSound(w, q2)
  <2>1. RequestIsSound(w, q) /\ \A v \in w.out : IsOwed(w, v)
    BY <1>1, <1>2, <1>11 DEF WalkIsSound
  <2>2. q.filter = w.filter
    BY <2>1 DEF RequestIsSound
  <2>3. ASSUME NEW v \in w.out
        PROVE  \/ q.cursor # None /\ Shows(w.seen, v)
               \/ Shows(page.items, v)
               \/ MayLack(w.filter, v, Floor(page.cursor))
    <3>1. \/ q.cursor # None /\ Shows(w.seen, v)
          \/ MayLack(w.filter, v, before)
      BY <1>3, <2>1 DEF RequestIsSound
    <3>2. MayLack(w.filter, v, before) =>
             Shows(page.items, v) \/ MayLack(w.filter, v, Floor(page.cursor))
      BY <1>6, <2>1, <2>2, PageAdvances
    <3> QED BY <3>1, <3>2
  <2>4. ComeFrom(page.items, Floor(page.cursor), before)
    BY <1>6, PublicationAssumption DEF PageOK, ComeFrom, Floor, Dates
  <2>5. IsInjective(page.items) /\ (page.cursor # None => page.cursor < before)
    BY <1>6 DEF PageOK
  <2>6. PICK x, y : x = q2 /\ y = q
    OBVIOUS
  <2>7. x.filter = y.filter /\ x.cursor = y.cursor /\ x.page = page
        /\ RequestIsSound(w, y) /\ before = Before(x.cursor)
    BY <1>3, <1>9, <2>1, <2>6
  <2>8. RequestIsSound(w, x)
    BY <2>3, <2>4, <2>5, <2>6, <2>7 DEF RequestIsSound
  <2> QED BY <2>6, <2>8
<1>12. ASSUME NEW t \in Slots, A[t] # None
       PROVE  B[t] # None /\ A[t].cursor = B[t].cursor
  BY <1>2, <1>9, <1>10, <1>12
<1>13. AtMostOne(B) => AtMostOne(A)
  BY <1>12 DEF AtMostOne
<1>14. w.overlap # "anew" => \A t \in Slots : A[t] # None => RequestIsSound(w, A[t])
  BY <1>1, <1>10, <1>11 DEF WalkIsSound
<1>15. WalkIsSound(w, A)
  BY <1>1, <1>12, <1>13, <1>14 DEF WalkIsSound
<1> QED BY <1>7, <1>10, <1>15, OneListSteps

\* A first page makes the list: what it lacks is before its cursor.
LEMMA FirstPageMakesTheList ==
    ASSUME NEW w \in Walks, NEW B, WalkIsSound(w, B), w.overlap # "anew",
           NEW s \in Slots, NEW q \in Requests, q = B[s], q # None,
           q.cursor = None, q.page # None,
           NEW w2 \in Walks, w2.filter = w.filter, w2.out = w.out,
           w2.overlap = w.overlap, w2.state = "ready", w2.seen = q.page.items,
           w2.cursor = Signed(q.filter, q.page.cursor),
           NEW A, A[s] = None, \A t \in Slots : t # s => A[t] = B[t]
    PROVE  WalkIsSound(w2, A)
<1>1. RequestIsSound(w, q) /\ w.state = "loading" /\ AtMostOne(B)
  BY DEF WalkIsSound, RequestIsSound
<1>2. \A t \in Slots : A[t] = None
  BY <1>1 DEF AtMostOne
<1>3. \A v \in w2.out : IsOwed(w2, v)
  BY DEF WalkIsSound, IsOwed
<1>4. /\ w2.cursor # None => w2.cursor.filter = w2.filter
      /\ Left(w2.cursor) = Floor(q.page.cursor)
  BY <1>1, LibraryAssumption DEF RequestIsSound, Signed, Left, Floor, Requests,
     PageRecords, Cursors
<1>5. \A v \in w2.out : \/ Shows(w2.seen, v)
                        \/ MayLack(w2.filter, v, Floor(q.page.cursor))
  BY <1>1 DEF RequestIsSound
<1>6. IsInjective(w2.seen) /\ ComeFrom(w2.seen, Floor(q.page.cursor), LastDay + 1)
  BY <1>1 DEF RequestIsSound, Before
<1> QED BY <1>2, <1>3, <1>4, <1>5, <1>6 DEF WalkIsSound, AtMostOne

Prolonged(seen, items) == seen \o items

\* A further page prolongs it: what was shown stays, and the list is complete
\* from the page's cursor on.
LEMMA FurtherPageProlongsTheList ==
    ASSUME IInv, NEW w \in Walks, NEW B, WalkIsSound(w, B), w.overlap # "anew",
           NEW s \in Slots, NEW q \in Requests, q = B[s], q # None,
           q.cursor # None, q.page # None,
           NEW w2 \in Walks, w2.filter = w.filter, w2.out = w.out,
           w2.overlap = w.overlap, w2.state = "ready",
           w2.seen = Prolonged(w.seen, q.page.items),
           w2.cursor = Signed(q.filter, q.page.cursor),
           NEW A, A[s] = None, \A t \in Slots : t # s => A[t] = B[t]
    PROVE  WalkIsSound(w2, A)
<1>1. RequestIsSound(w, q) /\ w.state = "ready"
  BY DEF WalkIsSound, RequestIsSound
<1>2. w.seen \in Seq(Problems) /\ q.page.items \in Seq(Problems)
      /\ q.page.cursor \in Dates \cup {None} /\ q.cursor \in Cursors
      /\ q.page \in PageRecords
  BY DEF Walks, Requests, PageRecords
<1>3. \A v \in w2.out : IsOwed(w2, v)
  BY DEF WalkIsSound, IsOwed
<1>4. /\ w2.cursor # None => w2.cursor.filter = w2.filter
      /\ Left(w2.cursor) = Floor(q.page.cursor)
  BY <1>1, <1>2, LibraryAssumption DEF RequestIsSound, Signed, Left, Floor, Cursors
<1>5. \A v : Shows(w.seen, v) \/ Shows(q.page.items, v) => Shows(w2.seen, v)
  BY <1>2, AppendedShows DEF Prolonged
<1>6. \A v \in w2.out : \/ Shows(w2.seen, v)
                        \/ MayLack(w2.filter, v, Floor(q.page.cursor))
  BY <1>1, <1>5 DEF RequestIsSound
<1>7. ASSUME NEW x, RequestIsSound(w, x) PROVE RequestIsSound(w2, x)
  <2>1. /\ x.filter = w2.filter
        /\ x.cursor # None /\ x.cursor.filter = w2.filter
    BY <1>1, <1>7 DEF RequestIsSound
  <2>2. \A v \in w2.out : \/ x.cursor # None /\ Shows(w2.seen, v)
                          \/ MayLack(w2.filter, v, Before(x.cursor))
    BY <1>5, <1>7 DEF RequestIsSound
  <2>3. x.page # None =>
           \A v \in w2.out : \/ x.cursor # None /\ Shows(w2.seen, v)
                             \/ Shows(x.page.items, v)
                             \/ MayLack(w2.filter, v, Floor(x.page.cursor))
    BY <1>5, <1>7 DEF RequestIsSound
  <2> QED BY <1>7, <2>1, <2>2, <2>3 DEF RequestIsSound
<1>8. \A t \in Slots : A[t] # None => t # s /\ A[t] = B[t] /\ RequestIsSound(w2, A[t])
  BY <1>7 DEF WalkIsSound
<1>9. ASSUME w.overlap = "none"
      PROVE  /\ \A t \in Slots : A[t] = None
             /\ IsInjective(w2.seen)
             /\ ComeFrom(w2.seen, Floor(q.page.cursor), LastDay + 1)
  <2>1. AtMostOne(B) /\ q.cursor = w.cursor
    BY <1>9 DEF WalkIsSound
  <2>2. \A t \in Slots : A[t] = None
    BY <1>8, <2>1 DEF AtMostOne
  <2>3. PICK old, new, cursor, next :
           /\ old = w.seen /\ new = q.page.items
           /\ cursor = q.cursor.date /\ next = Floor(q.page.cursor)
    OBVIOUS
  <2>4. cursor \in Dates /\ cursor = Left(w.cursor) /\ cursor = Before(q.cursor)
    BY <1>2, <2>1, <2>3 DEF Cursors, Left, Before
  <2>5. next \in Nat /\ next < cursor
    BY <1>1, <1>2, <2>3, <2>4, PublicationAssumption
    DEF RequestIsSound, Floor, Dates
  <2>6. IsInjective(old) /\ ComeFrom(old, cursor, LastDay + 1)
    BY <1>1, <1>9, <2>3, <2>4 DEF WalkIsSound
  <2>7. IsInjective(new) /\ ComeFrom(new, next, cursor)
    BY <1>1, <2>3, <2>4 DEF RequestIsSound
  <2>8. old \in Seq(Problems) /\ new \in Seq(Problems)
    BY <1>2, <2>3
  <2>9. IsInjective(old \o new) /\ ComeFrom(old \o new, next, LastDay + 1)
    BY <2>4, <2>5, <2>6, <2>7, <2>8, AppendedIsExact
  <2> QED BY <2>2, <2>3, <2>9 DEF Prolonged
<1>10. ASSUME w2.overlap = "none"
       PROVE  /\ \A t \in Slots : A[t] = None
              /\ IsInjective(w2.seen)
              /\ ComeFrom(w2.seen, Left(w2.cursor), LastDay + 1)
  BY <1>4, <1>9, <1>10
<1> QED BY <1>3, <1>4, <1>6, <1>8, <1>10 DEF WalkIsSound, AtMostOne

LEMMA ShowPageIsSound ==
    ASSUME IInv, WalksInv, NEW m \in Members, NEW s \in Slots, ShowPage(m, s)
    PROVE  WalksInv'
<1>1. PICK w \in Walks, B \in [Slots -> Requests \cup {None}] :
         w = walk[m] /\ B = asked[m] /\ WalkIsSound(w, B)
  <2>1. asked[m][s] # None
    BY DEF ShowPage
  <2>2. /\ walk[m] \in Walks /\ WalkIsSound(walk[m], asked[m])
        /\ asked[m] \in [Slots -> Requests \cup {None}]
    BY <2>1 DEF WalksInv
  <2> QED BY <2>2
<1>2. PICK q \in Requests : q = B[s] /\ q # None /\ q.page # None
  BY <1>1 DEF ShowPage
<1>3. q.filter \in Filters /\ q.page.items \in Seq(Problems)
      /\ q.page.cursor \in Dates \cup {None}
  BY <1>2 DEF Requests, PageRecords
<1>4. PICK seen \in Seq(Problems) :
         seen = IF q.cursor = None THEN q.page.items ELSE w.seen \o q.page.items
  <2>1. PICK old \in Seq(Problems), new \in Seq(Problems) :
           old = w.seen /\ new = q.page.items
    BY <1>3 DEF Walks
  <2>2. old \o new \in Seq(Problems)
    OBVIOUS
  <2> QED BY <2>1, <2>2
<1>5. PICK cursor \in Cursors \cup {None} : cursor = Signed(q.filter, q.page.cursor)
  BY <1>3 DEF Signed, Cursors
<1> DEFINE A == [B EXCEPT ![s] = None]
           w2 == [w EXCEPT !.state = "ready", !.seen = seen, !.cursor = cursor]
<1>6. walk' = [walk EXCEPT ![m] = w2] /\ asked' = [asked EXCEPT ![m] = A]
      /\ UNCHANGED vars
  BY <1>1, <1>2, <1>4, <1>5 DEF ShowPage, WalksInv
<1>7. /\ w2 \in Walks /\ A \in [Slots -> Requests \cup {None}]
      /\ A[s] = None /\ \A t \in Slots : t # s => A[t] = B[t]
      /\ w2.filter = w.filter /\ w2.out = w.out /\ w2.overlap = w.overlap
      /\ w2.state = "ready" /\ w2.seen = seen /\ w2.cursor = cursor
  BY DEF Walks
<1> HIDE DEF A, w2
<1>8. WalkIsSound(w2, A)
  <2>1. CASE w.overlap = "anew"
    BY <1>1, <1>7, <2>1 DEF WalkIsSound, IsOwed
  <2>2. CASE w.overlap # "anew" /\ q.cursor = None
    BY <1>1, <1>2, <1>4, <1>5, <1>7, <2>2, FirstPageMakesTheList
  <2>3. CASE w.overlap # "anew" /\ q.cursor # None
    <3>1. w2.seen = Prolonged(w.seen, q.page.items)
      BY <1>4, <1>7, <2>3 DEF Prolonged
    <3>2. w2.cursor = Signed(q.filter, q.page.cursor)
      BY <1>5, <1>7
    <3> QED BY <1>1, <1>2, <1>7, <2>3, <3>1, <3>2, FurtherPageProlongsTheList
  <2> QED BY <2>1, <2>2, <2>3
<1> QED BY <1>6, <1>7, <1>8, OneListSteps

LEMMA FailIsSound ==
    ASSUME WalksInv, NEW m \in Members, NEW s \in Slots, LoadFails(m, s)
    PROVE  WalksInv'
<1>1. PICK w \in Walks, B \in [Slots -> Requests \cup {None}] :
         w = walk[m] /\ B = asked[m] /\ WalkIsSound(w, B)
  BY DEF LoadFails, WalksInv
<1>2. PICK q \in Requests : q = B[s] /\ q # None
  BY <1>1 DEF LoadFails
<1> DEFINE A == [B EXCEPT ![s] = None]
           w2 == [w EXCEPT !.state = IF q.cursor = None THEN "error" ELSE @]
<1>3. walk' = [walk EXCEPT ![m] = w2] /\ asked' = [asked EXCEPT ![m] = A]
      /\ UNCHANGED vars
  BY <1>1, <1>2 DEF LoadFails, WalksInv
<1>4. /\ w2 \in Walks /\ A \in [Slots -> Requests \cup {None}]
      /\ A[s] = None /\ \A t \in Slots : t # s => A[t] = B[t]
      /\ w2.filter = w.filter /\ w2.out = w.out /\ w2.overlap = w.overlap
      /\ w2.seen = w.seen /\ w2.cursor = w.cursor
      /\ w2.state = IF q.cursor = None THEN "error" ELSE w.state
  BY DEF Walks
<1> HIDE DEF A, w2
<1>5. \A t \in Slots : A[t] # None => t # s /\ A[t] = B[t]
  BY <1>4
<1>6. ASSUME w.overlap # "anew"
      PROVE  /\ \A t \in Slots : A[t] # None => RequestIsSound(w2, A[t])
             /\ w2.state = "ready" => w.state = "ready"
             /\ w2.state = "loading" => AtMostOne(A)
  <2>1. /\ \A t \in Slots : B[t] # None => RequestIsSound(w, B[t])
        /\ w.state = "loading" => AtMostOne(B)
    BY <1>1, <1>6 DEF WalkIsSound
  <2>2. CASE q.cursor = None
    <3>1. w.state = "loading" /\ w2.state = "error"
      BY <1>2, <1>4, <2>1, <2>2 DEF RequestIsSound
    <3>2. \A t \in Slots : A[t] = None
      BY <1>2, <1>5, <2>1, <3>1 DEF AtMostOne
    <3> QED BY <3>1, <3>2
  <2>3. CASE q.cursor # None
    <3>1. w2.state = w.state
      BY <1>4, <2>3
    <3>2. \A x : RequestIsSound(w, x) => RequestIsSound(w2, x)
      BY <1>4, <3>1 DEF RequestIsSound
    <3>3. AtMostOne(B) => AtMostOne(A)
      BY <1>5 DEF AtMostOne
    <3> QED BY <1>5, <2>1, <3>1, <3>2, <3>3
  <2> QED BY <2>2, <2>3
<1>7. \A v \in w2.out : IsOwed(w2, v)
  BY <1>1, <1>4 DEF WalkIsSound, IsOwed
<1>8. AtMostOne(B) => AtMostOne(A)
  BY <1>5 DEF AtMostOne
<1>9. w2.overlap # "anew" =>
         /\ w2.state = "ready" =>
               /\ w2.cursor # None => w2.cursor.filter = w2.filter
               /\ \A v \in w2.out : \/ Shows(w2.seen, v)
                                    \/ MayLack(w2.filter, v, Left(w2.cursor))
         /\ \A t \in Slots : A[t] # None => RequestIsSound(w2, A[t])
         /\ w2.state = "loading" => AtMostOne(A)
  <2>1. w.overlap # "anew" /\ w.state = "ready" =>
           /\ w.cursor # None => w.cursor.filter = w.filter
           /\ \A v \in w.out : Shows(w.seen, v) \/ MayLack(w.filter, v, Left(w.cursor))
    BY <1>1 DEF WalkIsSound
  <2> QED BY <1>4, <1>6, <2>1
<1>10. w2.overlap = "none" =>
         /\ AtMostOne(A)
         /\ w2.state = "ready" =>
               IsInjective(w2.seen) /\ ComeFrom(w2.seen, Left(w2.cursor), LastDay + 1)
         /\ \A t \in Slots :
               A[t] # None /\ A[t].cursor # None => A[t].cursor = w2.cursor
  <2>1. w.overlap = "none" =>
           /\ AtMostOne(B)
           /\ w.state = "ready" =>
                 IsInjective(w.seen) /\ ComeFrom(w.seen, Left(w.cursor), LastDay + 1)
           /\ \A t \in Slots :
                 B[t] # None /\ B[t].cursor # None => B[t].cursor = w.cursor
    BY <1>1 DEF WalkIsSound
  <2> QED BY <1>4, <1>5, <1>6, <1>8, <2>1
<1>11. WalkIsSound(w2, A)
  BY <1>7, <1>9, <1>10 DEF WalkIsSound
<1> QED BY <1>3, <1>4, <1>11, OneListSteps

LEMMA PagingOnlyReads ==
    ASSUME NEW m \in Members, Paging(m)
    PROVE  UNCHANGED vars
<1>1. CASE \E filter \in Filters : OpenLibrary(m, filter)
  BY <1>1 DEF OpenLibrary
<1>2. CASE LoadMore(m)
  BY <1>2 DEF LoadMore
<1>3. CASE \E s \in Slots : ServePage(m, s) \/ ShowPage(m, s) \/ LoadFails(m, s)
  <2>1. PICK s \in Slots : ServePage(m, s) \/ ShowPage(m, s) \/ LoadFails(m, s)
    BY <1>3
  <2>2. CASE ServePage(m, s)
    BY <2>2 DEF ServePage
  <2>3. CASE ShowPage(m, s)
    BY <2>3 DEF ShowPage
  <2>4. CASE LoadFails(m, s)
    BY <2>4 DEF LoadFails
  <2> QED BY <2>1, <2>2, <2>3, <2>4
<1> QED BY <1>1, <1>2, <1>3 DEF Paging

LEMMA LibraryStepIsSound ==
    IInv /\ WalksInv /\ [LibraryNext]_libraryVars => IInv' /\ WalksInv'
<1> SUFFICES ASSUME IInv, WalksInv, [LibraryNext]_libraryVars
             PROVE  IInv' /\ WalksInv'
  OBVIOUS
<1>1. ASSUME [Next]_vars, UNCHANGED lists PROVE IInv' /\ WalksInv'
  <2>1. IInv' /\ Steady
    BY <1>1, NextIsSound, EveryStepIsSteady
  <2>2. walk' = walk /\ asked' = asked
    BY <1>1 DEF lists
  <2>3. ASSUME NEW m \in Members
        PROVE  \/ walk'[m] = None /\ \A s \in Slots : asked'[m][s] = None
               \/ walk'[m] \in Walks /\ WalkIsSound(walk[m], asked[m])'
    <3>1. PICK w, A : w = walk[m] /\ A = asked[m]
      OBVIOUS
    <3>2. CASE w = None /\ \A s \in Slots : A[s] = None
      BY <2>2, <3>1, <3>2
    <3>3. CASE w \in Walks /\ WalkIsSound(w, A)
      <4>1. WalkIsSound(w, A)'
        BY <2>1, <3>3, WalkSurvivesEditing
      <4> QED BY <2>2, <3>1, <3>3, <4>1
    <3> QED BY <3>1, <3>2, <3>3 DEF WalksInv
  <2> QED BY <2>1, <2>2, <2>3 DEF WalksInv
<1>2. ASSUME NEW m \in Members, Paging(m) PROVE IInv' /\ WalksInv'
  <2>1. UNCHANGED vars
    BY <1>2, PagingOnlyReads
  <2>2. IInv'
    BY <2>1, StutterIsSound
  <2>3. WalksInv'
    <3>1. \A filter \in Filters : OpenLibrary(m, filter) => WalksInv'
      BY OpenIsSound
    <3>2. LoadMore(m) => WalksInv'
      BY LoadMoreIsSound
    <3>3. \A s \in Slots : /\ (ServePage(m, s) => WalksInv')
                          /\ (ShowPage(m, s) => WalksInv')
                          /\ (LoadFails(m, s) => WalksInv')
      BY ServeIsSound, ShowPageIsSound, FailIsSound
    <3> QED BY <1>2, <3>1, <3>2, <3>3 DEF Paging
  <2> QED BY <2>2, <2>3
<1>3. \/ [Next]_vars /\ UNCHANGED lists
      \/ \E m \in Members : Paging(m)
  BY DEF LibraryNext, libraryVars
<1> QED BY <1>1, <1>2, <1>3

\* The inductive invariant of the library: the tables are sound, and so is every
\* list with the requests that are under way for it, until another list is asked
\* for while they are: what a list was to hold is shown by it, will be on a page
\* that was asked for, is before the list's cursor, or has left the filter.
THEOREM LibraryInvariance == LibrarySpec => [](IInv /\ WalksInv)
<1>1. LibraryInit => IInv /\ WalksInv
  <2>1. LibraryInit => IInv
    BY InitIsSound DEF LibraryInit
  <2>2. LibraryInit => WalksInv
    BY DEF LibraryInit, WalksInv
  <2> QED BY <2>1, <2>2
<1> QED BY <1>1, LibraryStepIsSound, PTL DEF LibrarySpec

\* However often "Load more" is pressed, and in whatever order its answers come,
\* while corrections move the calendar: a list without a further page misses no
\* problem that was out when it was asked for, unless a correction has left its
\* filter; and a list whose button waited for its answers shows no problem twice
\* (list_problems and its cursor, load of ProblemsPage).
THEOREM ListsAreExact == LibrarySpec => []ListIsExact
<1>1. IInv /\ WalksInv => ListIsExact
  <2> SUFFICES ASSUME WalksInv, NEW m \in Members, walk[m] # None,
                      walk[m].state = "ready"
               PROVE  /\ walk[m].overlap = "none" => IsInjective(walk[m].seen)
                      /\ walk[m].overlap # "anew" /\ walk[m].cursor = None =>
                            \A v \in walk[m].out :
                               \/ version[v].problem \in ToSet(walk[m].seen)
                               \/ Superseded(v) /\ walk[m].filter # Contents
    BY DEF ListIsExact
  <2>1. PICK w, A : w \in Walks /\ w = walk[m] /\ A = asked[m] /\ WalkIsSound(w, A)
    BY DEF WalksInv
  <2>2. ASSUME w.overlap # "anew", w.cursor = None, NEW v \in w.out
        PROVE  \/ version[v].problem \in ToSet(w.seen)
               \/ Superseded(v) /\ w.filter # Contents
    <3>1. Shows(w.seen, v) \/ MayLack(w.filter, v, 0)
      BY <2>1, <2>2 DEF WalkIsSound, Left
    <3>2. MayLack(w.filter, v, 0) => Superseded(v) /\ w.filter # Contents
      BY PublicationAssumption DEF MayLack, Dates
    <3>3. DOMAIN w.seen = 1..Len(w.seen)
      BY DEF Walks
    <3> QED BY <3>1, <3>2, <3>3 DEF ToSet, Shows
  <2>3. w.overlap = "none" => IsInjective(w.seen)
    BY <2>1 DEF WalkIsSound
  <2> QED BY <2>1, <2>2, <2>3
<1> QED BY <1>1, LibraryInvariance, PTL

\* The library only reads: what holds of the editors and the members' pages
\* under Spec holds with lists being loaded (list_problems writes nothing).
THEOREM LibraryOnlyReads == LibrarySpec => Spec
<1>1. LibraryInit => Init
  BY DEF LibraryInit
<1>2. [LibraryNext]_libraryVars => [Next]_vars
  BY PagingOnlyReads DEF LibraryNext, libraryVars
<1> QED BY <1>1, <1>2, PTL DEF LibrarySpec, Spec
=============================================================================
