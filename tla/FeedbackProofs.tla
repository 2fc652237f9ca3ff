---------------------------- MODULE FeedbackProofs ----------------------------
(* For any number of requests, submissions and keys, and all faults: job and *)
(* request agree, answers are truthful and version numbers do not collide.   *)
(*                                                                           *)
(* The argument: an operation key has one ticket for good, so every version  *)
(* stored under a key is its ticket's; a request without a version that has  *)
(* been answered "failed" never gets one.  And the versions of a submission  *)
(* are numbered without gaps, since the number is read and used under the    *)
(* lock of its row; so max + 1 is the first number that is free, and there   *)
(* are no more numbers than requests.                                        *)
EXTENDS Feedback, FiniteSetTheorems, TLAPS

\* Handlers at these points have reserved their ticket and job.
Reserved == {"queued", "unavailable", "generate", "lock", "finalize", "invalid",
             "internal", "failed", "succeeded"}

Numbers(s) == { v.version : v \in VersionsOf(s) }

StoredBy(r) == \E v \in versions : v.by = r

HandlerIsSound(r) ==
    /\ pc[r] \in Reserved => job[r] # None
    /\ pc[r] = "succeeded" => StoredBy(r)
    /\ pc[r] = "finalize" =>
          /\ locked[SubmissionOf[r]] = r
          /\ number[r] \in Nat \ {0}
          /\ Numbers(SubmissionOf[r]) = 1..(number[r] - 1)

\* A version comes from one request, which reserved it and is past storing it.
VersionsAreDue ==
    /\ \A v \in versions :
          /\ v.submission = SubmissionOf[v.by]
          /\ job[v.by] # None
          /\ pc[v.by] \in {"succeeded", "internal", "answered", "gone"}
    /\ \A v, w \in versions : v.by = w.by => v = w

VersionsAreDense == \A s \in Submissions : \E n \in Nat : Numbers(s) = 1..n

\* The operation of place p stored a version; it has ended without one.
Delivered(p) == \E v \in versions : v.submission = p[1] /\ KeyOf[v.by] = p[2]

Forfeited(p) ==
    /\ ticket[p[2]] # None
    /\ pc[ticket[p[2]].by] = "answered"
    /\ ~ StoredBy(ticket[p[2]].by)

Says(outcome, p) ==
    /\ outcome = "succeeded" => Delivered(p)
    /\ outcome = "failed" => Forfeited(p)

AnswersAreSound ==
    /\ \A p \in Submissions \X Keys : record[p] # None => Says(record[p].outcome, p)
    /\ \A r \in Requests : Says(reply[r], Place(r))

JobHasTicket == \A r \in Requests : job[r] # None => ticket[KeyOf[r]] # None

IInv ==
    /\ TypeOK
    /\ JobHasTicket
    /\ JobMatchesRequest
    /\ \A r \in Requests : HandlerIsSound(r)
    /\ VersionsAreDue
    /\ VersionsAreDense
    /\ AnswersAreSound

-----------------------------------------------------------------------------
(* Lemmas.                                                                   *)

LEMMA NoneIsNothing ==
    /\ None \notin JobStates /\ None \notin Codes /\ None \notin Claims
    /\ None \notin Tickets /\ None \notin Requests
    /\ None # "succeeded" /\ None # "failed"
    /\ \A c \in Codes : c # "succeeded" /\ c # "failed"
  BY FeedbackAssumption DEF JobStates, Codes

LEMMA MaxOfInterval == \A n \in Nat : Max(0..n) = n
<1> SUFFICES ASSUME NEW n \in Nat PROVE Max(0..n) = n
  OBVIOUS
<1>1. \E x \in 0..n : \A y \in 0..n : x >= y
  <2> WITNESS n \in 0..n
  <2> QED OBVIOUS
<1>2. Max(0..n) \in 0..n /\ \A y \in 0..n : Max(0..n) >= y
  BY <1>1 DEF Max
<1> QED BY <1>2

LEMMA Places ==
    \A r \in Requests : /\ Place(r) \in Submissions \X Keys
                        /\ Place(r)[1] = SubmissionOf[r]
                        /\ Place(r)[2] = KeyOf[r]
                        /\ SubmissionOf[r] \in Submissions
                        /\ KeyOf[r] \in Keys
  BY FeedbackAssumption DEF Place

\* A submission has no more versions than requests were made.
LEMMA VersionsAreFew ==
    ASSUME NEW V, V \subseteq [submission : Submissions, version : Nat, by : Requests],
           \A v, w \in V : v.by = w.by => v = w,
           NEW s \in Submissions, NEW n \in Nat,
           { v.version : v \in { w \in V : w.submission = s } } = 1..n
    PROVE  n <= Cardinality(Requests)
<1> DEFINE Made(i, r) == \E v \in V : v.submission = s /\ v.version = i /\ v.by = r
           f == [i \in 1..n |-> CHOOSE r \in Requests : Made(i, r)]
<1>1. \A i \in 1..n : \E r \in Requests : Made(i, r)
  OBVIOUS
<1>2. \A i \in 1..n : f[i] \in Requests /\ Made(i, f[i])
  BY <1>1
<1>3. \A i, j \in 1..n, r \in Requests : Made(i, r) /\ Made(j, r) => i = j
  OBVIOUS
<1>4. f \in [1..n -> Requests]
  BY <1>2
<1> HIDE DEF f, Made
<1>5. f \in Injection(1..n, Requests)
  BY <1>2, <1>3, <1>4 DEF Injection, IsInjective
<1>6. Cardinality(1..n) <= Cardinality(Requests)
  BY <1>5, FS_Injection, FeedbackAssumption
<1>7. Cardinality(1..n) = n
  BY FS_Interval
<1> QED BY <1>6, <1>7

LEMMA InitIsSound == Init => IInv
<1> SUFFICES ASSUME Init PROVE IInv
  OBVIOUS
<1>1. TypeOK
  BY NoneIsNothing DEF Init, TypeOK, Points
<1>2. JobMatchesRequest
  BY DEF Init, JobMatchesRequest
<1>3. \A r \in Requests : HandlerIsSound(r)
  BY DEF Init, HandlerIsSound, Reserved
<1>4. VersionsAreDue
  BY DEF Init, VersionsAreDue
<1>5. VersionsAreDense
  <2> SUFFICES ASSUME NEW s \in Submissions PROVE Numbers(s) = 1..0
    BY DEF VersionsAreDense
  <2> QED BY DEF Init, Numbers, VersionsOf
<1>6. AnswersAreSound
  BY NoneIsNothing, Places DEF Init, AnswersAreSound, Says
<1>7. JobHasTicket
  BY DEF Init, JobHasTicket
<1> QED BY <1>1, <1>2, <1>3, <1>4, <1>5, <1>6, <1>7 DEF IInv

\* What a step of handler r may do to the tickets and jobs: it takes none away.
TicketsStay ==
    /\ job' \in [Requests -> JobStates \cup {None}]
    /\ ticket' \in [Keys -> Tickets \cup {None}]
    /\ \A u \in Requests : job[u] # None => job'[u] # None
    /\ \A k \in Keys :
          ticket[k] # None => ticket'[k] # None /\ ticket'[k].by = ticket[k].by

LEMMA UnchangedTicketsStay ==
    ASSUME IInv, UNCHANGED <<ticket, job>>
    PROVE  TicketsStay /\ JobHasTicket' /\ JobMatchesRequest'
  BY DEF IInv, TypeOK, TicketsStay, JobHasTicket, JobMatchesRequest

LEMMA SettledTicketsStay ==
    ASSUME IInv, NEW r \in Requests, job[r] # None,
           NEW state \in JobStates, Settle(r, state)
    PROVE  TicketsStay /\ JobHasTicket' /\ JobMatchesRequest'
<1> DEFINE k == KeyOf[r]
           settled == [ticket[k] EXCEPT !.state = state]
<1>1. /\ k \in Keys /\ ticket[k] \in Tickets \cup {None}
      /\ ticket[k].by = r
  BY Places DEF IInv, TypeOK, JobMatchesRequest
<1>2. ticket' = [ticket EXCEPT ![k] = settled]
  BY DEF Settle
<1>3. CASE ticket[k] # None
  <2>1. settled \in Tickets /\ settled.by = r /\ settled.state = state
    BY <1>1, <1>3 DEF Tickets
  <2> HIDE DEF settled
  <2>2. settled # None
    BY <2>1, NoneIsNothing
  <2>3. ticket'[k] = settled /\ \A j \in Keys \ {k} : ticket'[j] = ticket[j]
    BY <1>1, <1>2 DEF IInv, TypeOK
  <2>4. /\ job'[r] = state /\ state # None
        /\ \A u \in Requests \ {r} : job'[u] = job[u]
    BY NoneIsNothing DEF Settle, IInv, TypeOK
  <2>5. TicketsStay /\ JobHasTicket'
    <3>1. ticket' \in [Keys -> Tickets \cup {None}]
      BY <1>2, <2>1 DEF IInv, TypeOK
    <3>2. job' \in [Requests -> JobStates \cup {None}]
      BY DEF Settle, IInv, TypeOK
    <3>3. \A j \in Keys :
             ticket[j] # None => ticket'[j] # None /\ ticket'[j].by = ticket[j].by
      BY <1>1, <2>1, <2>2, <2>3
    <3>4. \A u \in Requests : job[u] # None <=> job'[u] # None
      BY <2>4
    <3>5. JobHasTicket'
      BY <3>3, <3>4, Places DEF IInv, JobHasTicket
    <3> QED BY <3>1, <3>2, <3>3, <3>4, <3>5 DEF TicketsStay
  <2>6. JobMatchesRequest'
    <3> SUFFICES ASSUME NEW u \in Requests, job'[u] # None
                 PROVE  ticket'[KeyOf[u]].by = u /\ ticket'[KeyOf[u]].state = job'[u]
      BY DEF JobMatchesRequest
    <3>1. CASE u = r
      BY <2>1, <2>3, <2>4, <3>1
    <3>2. CASE u # r
      <4>1. job[u] # None /\ ticket[KeyOf[u]].by = u
        BY <2>4, <3>2 DEF IInv, JobMatchesRequest
      <4>2. KeyOf[u] # k /\ KeyOf[u] \in Keys
        BY <1>1, <3>2, <4>1, Places
      <4> QED BY <2>3, <2>4, <3>2, <4>1, <4>2 DEF IInv, JobMatchesRequest
    <3> QED BY <3>1, <3>2
  <2> QED BY <2>5, <2>6
<1>4. ticket[k] # None
  BY Places DEF IInv, JobHasTicket
<1> QED BY <1>3, <1>4

\* What handler r can vouch for when it goes to a point.
Justified(r, outcome, point) ==
    /\ outcome = "succeeded" => Delivered(Place(r))
    /\ outcome = "failed" =>
          \/ Forfeited(Place(r))
          \/ job[r] # None /\ ~ StoredBy(r) /\ point = "answered"

\* The steps of a handler that store no version and take no lock.
LEMMA HandlerMoves ==
    ASSUME IInv, NEW r \in Requests, NEW point \in Points \ {"finalize", "succeeded"},
           pc[r] \notin {"answered", "gone"},
           pc[r] \in {"succeeded", "internal"} => point \in {"answered", "gone"},
           pc' = [pc EXCEPT ![r] = point],
           TicketsStay, JobHasTicket', JobMatchesRequest',
           point \in Reserved => job'[r] # None,
           \/ UNCHANGED reply
           \/ \E outcome \in JobStates \cup Codes :
                 /\ reply' = [reply EXCEPT ![r] = outcome]
                 /\ Justified(r, outcome, point),
           \/ UNCHANGED record
           \/ \E c \in Claims \cup {None} :
                 /\ record' = [record EXCEPT ![Place(r)] = c]
                 /\ c # None => Justified(r, c.outcome, point),
           locked' \in {locked, Unlocked(r)},
           UNCHANGED <<versions, number>>
    PROVE  IInv'
<1>1. pc'[r] = point /\ \A u \in Requests \ {r} : pc'[u] = pc[u]
  BY DEF IInv, TypeOK
<1>2. /\ locked' \in [Submissions -> Requests \cup {None}]
      /\ \A s \in Submissions : locked[s] # r => locked'[s] = locked[s]
  BY DEF Unlocked, IInv, TypeOK
<1>3. TypeOK'
  <2>1. reply' \in [Requests -> JobStates \cup Codes \cup {None}]
    BY DEF IInv, TypeOK
  <2>2. record' \in [Submissions \X Keys -> Claims \cup {None}]
    BY Places DEF IInv, TypeOK
  <2> QED BY <1>2, <2>1, <2>2 DEF IInv, TypeOK, TicketsStay
<1>4. JobHasTicket' /\ JobMatchesRequest'
  OBVIOUS
<1>5. \A u \in Requests : HandlerIsSound(u)'
  <2> SUFFICES ASSUME NEW u \in Requests PROVE HandlerIsSound(u)'
    OBVIOUS
  <2>1. CASE u = r
    BY <1>1, <2>1 DEF HandlerIsSound
  <2>2. CASE u # r
    BY <1>1, <1>2, <2>2, Places DEF IInv, HandlerIsSound, TicketsStay, StoredBy,
       Numbers, VersionsOf
  <2> QED BY <2>1, <2>2
<1>6. VersionsAreDue'
  <2>1. \A v \in versions : v.by \in Requests
    BY DEF IInv, TypeOK
  <2> QED BY <1>1, <2>1 DEF IInv, VersionsAreDue, TicketsStay
<1>7. VersionsAreDense'
  BY DEF IInv, VersionsAreDense, Numbers, VersionsOf
<1>8. \A p \in Submissions \X Keys : Forfeited(p) => Forfeited(p)'
  <2> SUFFICES ASSUME NEW p \in Submissions \X Keys, Forfeited(p)
               PROVE  Forfeited(p)'
    OBVIOUS
  <2> DEFINE k == p[2]
  <2>1. k \in Keys /\ ticket[k] # None /\ ticket[k].by \in Requests
    BY DEF Forfeited, IInv, TypeOK, Tickets
  <2>2. ticket'[k] # None /\ ticket'[k].by = ticket[k].by
    BY <2>1 DEF TicketsStay
  <2> QED BY <1>1, <2>1, <2>2 DEF Forfeited, StoredBy
<1>9. \A outcome : Justified(r, outcome, point) => Says(outcome, Place(r))'
  <2> SUFFICES ASSUME NEW outcome, Justified(r, outcome, point)
               PROVE  Says(outcome, Place(r))'
    OBVIOUS
  <2>1. outcome = "succeeded" => Delivered(Place(r))'
    BY DEF Justified, Delivered, Place
  <2>2. ASSUME outcome = "failed" PROVE Forfeited(Place(r))'
    <3>1. CASE Forfeited(Place(r))
      BY <1>8, <3>1, Places DEF Forfeited, Place, StoredBy
    <3>2. CASE job[r] # None /\ ~ StoredBy(r) /\ point = "answered"
      <4>1. ticket'[KeyOf[r]].by = r /\ ticket'[KeyOf[r]] # None
        BY <1>4, <3>2 DEF TicketsStay, JobMatchesRequest, JobHasTicket
      <4> QED BY <1>1, <3>2, <4>1, Places DEF Forfeited, StoredBy, Place
    <3> QED BY <2>2, <3>1, <3>2 DEF Justified
  <2> QED BY <2>1, <2>2 DEF Says
<1>10. AnswersAreSound'
  <2>1. \A p \in Submissions \X Keys : \A outcome :
          Says(outcome, p) => Says(outcome, p)'
    BY <1>8 DEF Says, Delivered
  <2>2. ASSUME NEW p \in Submissions \X Keys, record'[p] # None,
               NEW outcome, outcome = record'[p].outcome
        PROVE  Says(outcome, p)'
    <3>1. CASE record'[p] = record[p]
      BY <2>1, <2>2, <3>1 DEF IInv, AnswersAreSound
    <3>2. CASE record'[p] # record[p]
      <4>1. p = Place(r) /\ Justified(r, outcome, point)
        BY <2>2, <3>2, Places DEF IInv, TypeOK
      <4> QED BY <1>9, <4>1
    <3> QED BY <3>1, <3>2
  <2>3. ASSUME NEW u \in Requests, NEW outcome, outcome = reply'[u]
        PROVE  Says(outcome, Place(u))'
    <3>1. CASE reply'[u] = reply[u]
      BY <2>1, <2>3, <3>1, Places DEF IInv, AnswersAreSound
    <3>2. CASE reply'[u] # reply[u]
      <4>1. u = r /\ Justified(r, outcome, point)
        BY <2>3, <3>2 DEF IInv, TypeOK
      <4> QED BY <1>9, <4>1
    <3> QED BY <3>1, <3>2
  <2> QED BY <2>2, <2>3 DEF AnswersAreSound, Says
<1> QED BY <1>3, <1>4, <1>5, <1>6, <1>7, <1>10 DEF IInv

LEMMA LockSubmissionStep ==
    ASSUME IInv, NEW r \in Requests, LockSubmission(r)
    PROVE  IInv'
<1> DEFINE s == SubmissionOf[r]
<1> USE Places
<1>1. /\ pc[r] = "lock" /\ pc' = [pc EXCEPT ![r] = "finalize"]
      /\ locked[s] = None /\ locked' = [locked EXCEPT ![s] = r]
      /\ UNCHANGED <<mode, premium, reply, tables, free>>
  BY DEF LockSubmission, Goto, TakeLock
<1>2. /\ pc'[r] = "finalize" /\ \A u \in Requests \ {r} : pc'[u] = pc[u]
      /\ locked'[s] = r /\ \A x \in Submissions \ {s} : locked'[x] = locked[x]
  BY <1>1 DEF IInv, TypeOK
<1>3. PICK n \in Nat : Numbers(s) = 1..n
  BY DEF IInv, VersionsAreDense
<1>4. number' = [number EXCEPT ![r] = n + 1]
  <2>1. {0} \cup Numbers(s) = 0..n
    BY <1>3
  <2>2. Max({0} \cup { v.version : v \in VersionsOf(s) }) = n
    BY <2>1, MaxOfInterval DEF Numbers
  <2> DEFINE max == Max({0} \cup { v.version : v \in VersionsOf(s) })
  <2>3. number' = [number EXCEPT ![r] = 1 + max]
    BY DEF LockSubmission
  <2>4. max = n /\ 1 + n = n + 1
    BY <2>2
  <2> HIDE DEF max
  <2> QED BY <2>3, <2>4
<1>5. number'[r] = n + 1 /\ \A u \in Requests \ {r} : number'[u] = number[u]
  BY <1>4 DEF IInv, TypeOK
<1>6. TypeOK'
  BY <1>1, <1>4 DEF IInv, TypeOK, Points, tables
<1>7. JobMatchesRequest' /\ JobHasTicket'
  BY <1>1 DEF IInv, JobMatchesRequest, JobHasTicket, tables
<1>8. \A u \in Requests : HandlerIsSound(u)'
  <2> SUFFICES ASSUME NEW u \in Requests PROVE HandlerIsSound(u)'
    OBVIOUS
  <2>1. CASE u = r
    <3>1. job'[r] # None
      BY <1>1 DEF IInv, HandlerIsSound, Reserved, tables
    <3>2. Numbers(s)' = 1..n
      BY <1>1, <1>3 DEF Numbers, VersionsOf, tables
    <3> QED BY <1>2, <1>5, <2>1, <3>1, <3>2 DEF HandlerIsSound
  <2>2. CASE u # r
    <3>1. pc[u] = "finalize" => SubmissionOf[u] # s
      BY <1>1, NoneIsNothing DEF IInv, HandlerIsSound
    <3> QED
      BY <1>1, <1>2, <1>5, <2>2, <3>1 DEF IInv, HandlerIsSound, Numbers,
         VersionsOf, StoredBy, tables
  <2> QED BY <2>1, <2>2
<1>9. VersionsAreDue'
  <2>1. \A v \in versions : v.by \in Requests
    BY DEF IInv, TypeOK
  <2> QED BY <1>1, <1>2, <2>1 DEF IInv, VersionsAreDue, tables
<1>10. VersionsAreDense'
  BY <1>1 DEF IInv, VersionsAreDense, Numbers, VersionsOf, tables
<1>11. AnswersAreSound'
  <2>1. \A p \in Submissions \X Keys : Forfeited(p) => Forfeited(p)'
    BY <1>1, <1>2 DEF Forfeited, StoredBy, tables, IInv, TypeOK, Tickets
  <2> QED
    BY <1>1, <2>1 DEF IInv, AnswersAreSound, Says, Delivered, tables, Place
<1> QED BY <1>6, <1>7, <1>8, <1>9, <1>10, <1>11 DEF IInv

\* The number read under the lock is the first that is free.
LEMMA NumberIsFree ==
    ASSUME IInv, NEW r \in Requests, pc[r] = "finalize"
    PROVE  ~ Collides(r)
  BY DEF IInv, HandlerIsSound, Collides, Numbers

\* The version is stored, whether or not its handler hears of it.
LEMMA VersionIsAdded ==
    ASSUME IInv, NEW r \in Requests, pc[r] = "finalize",
           NEW point \in {"succeeded", "internal"},
           pc' = [pc EXCEPT ![r] = point],
           AddVersion(r), Settle(r, "succeeded"), locked' = Unlocked(r),
           UNCHANGED <<reply, record, number>>
    PROVE  IInv'
<1> DEFINE s == SubmissionOf[r]
           n == number[r]
           new == [submission |-> s, version |-> n, by |-> r]
<1> USE Places
<1>1. /\ locked[s] = r /\ n \in Nat \ {0} /\ Numbers(s) = 1..(n - 1)
      /\ job[r] # None
  BY DEF IInv, HandlerIsSound, Reserved
<1>2. /\ TicketsStay /\ JobHasTicket' /\ JobMatchesRequest'
  BY <1>1, SettledTicketsStay DEF JobStates
<1>3. /\ pc'[r] = point /\ \A u \in Requests \ {r} : pc'[u] = pc[u]
      /\ locked' \in [Submissions -> Requests \cup {None}]
      /\ \A x \in Submissions \ {s} : locked'[x] = locked[x]
  BY DEF IInv, TypeOK, Unlocked
<1>4. /\ versions' = versions \cup {new}
      /\ new.submission = s /\ new.version = n /\ new.by = r
  BY DEF AddVersion
<1>5. \A v \in versions : v.by \in Requests /\ v.by # r
  BY DEF IInv, TypeOK, VersionsAreDue
<1>6. Numbers(s)' = 1..n
  <2> HIDE DEF new, s, n
  <2>1. Numbers(s)' = Numbers(s) \cup {n}
    BY <1>4 DEF Numbers, VersionsOf
  <2> QED BY <1>1, <2>1
<1>7. \A x \in Submissions \ {s} : Numbers(x)' = Numbers(x)
  BY <1>4 DEF Numbers, VersionsOf
<1>8. VersionsAreDense'
  BY <1>1, <1>6, <1>7 DEF IInv, VersionsAreDense
<1>9. VersionsAreDue'
  <2>1. new.by = r /\ new.submission = s
    OBVIOUS
  <2>2. job'[r] # None /\ \A u \in Requests : job[u] # None => job'[u] # None
    BY <1>1, <1>2 DEF TicketsStay
  <2> HIDE DEF new
  <2>3. \A v \in versions' :
           /\ v.submission = SubmissionOf[v.by]
           /\ job'[v.by] # None
           /\ pc'[v.by] \in {"succeeded", "internal", "answered", "gone"}
    BY <1>3, <1>4, <1>5, <2>1, <2>2 DEF IInv, VersionsAreDue
  <2>4. \A v, w \in versions' : v.by = w.by => v = w
    BY <1>4, <1>5, <2>1 DEF IInv, VersionsAreDue
  <2> QED BY <2>3, <2>4 DEF VersionsAreDue
<1>10. n <= Cardinality(Requests)
  <2>1. versions' \subseteq
          [submission : Submissions, version : Nat, by : Requests]
    BY <1>1, <1>4 DEF IInv, TypeOK
  <2>2. { v.version : v \in { w \in versions' : w.submission = s } } = 1..n
    BY <1>6 DEF Numbers, VersionsOf
  <2>3. \A v, w \in versions' : v.by = w.by => v = w
    BY <1>9 DEF VersionsAreDue
  <2> QED BY <1>1, <2>1, <2>2, <2>3, VersionsAreFew
<1>11. TypeOK'
  <2>1. Cardinality(Requests) \in Nat
    BY FS_CardinalityType, FeedbackAssumption
  <2>2. versions' \subseteq
          [submission : Submissions, version : 1..Cardinality(Requests), by : Requests]
    BY <1>1, <1>4, <1>10, <2>1 DEF IInv, TypeOK
  <2>3. pc' \in [Requests -> Points]
    BY DEF IInv, TypeOK, Points
  <2>4. TypeOK
    BY DEF IInv
  <2> QED BY <1>2, <1>3, <2>2, <2>3, <2>4 DEF TypeOK, TicketsStay
<1>12. \A u \in Requests : HandlerIsSound(u)'
  <2> SUFFICES ASSUME NEW u \in Requests PROVE HandlerIsSound(u)'
    OBVIOUS
  <2>1. StoredBy(r)' /\ (StoredBy(u) => StoredBy(u)')
    <3> HIDE DEF new
    <3> QED BY <1>4 DEF StoredBy
  <2>2. CASE u = r
    BY <1>1, <1>2, <1>3, <2>1, <2>2 DEF HandlerIsSound, TicketsStay
  <2>3. CASE u # r
    <3>1. pc[u] = "finalize" => SubmissionOf[u] # s
      BY <1>1, <2>3 DEF IInv, HandlerIsSound
    <3> QED
      BY <1>2, <1>3, <1>7, <2>1, <2>3, <3>1 DEF IInv, HandlerIsSound, TicketsStay
  <2> QED BY <2>2, <2>3
<1>13. AnswersAreSound'
  <2>1. \A p \in Submissions \X Keys : Delivered(p) => Delivered(p)'
    BY <1>4 DEF Delivered
  <2>2. \A p \in Submissions \X Keys : Forfeited(p) => Forfeited(p)'
    <3> SUFFICES ASSUME NEW p \in Submissions \X Keys, Forfeited(p)
                 PROVE  Forfeited(p)'
      OBVIOUS
    <3> DEFINE k == p[2]
    <3>1. /\ k \in Keys /\ ticket[k] # None /\ ticket[k].by \in Requests
          /\ ticket[k].by # r
      BY DEF Forfeited, IInv, TypeOK, Tickets
    <3>2. ticket'[k] # None /\ ticket'[k].by = ticket[k].by
      BY <1>2, <3>1 DEF TicketsStay
    <3> QED BY <1>3, <1>4, <3>1, <3>2 DEF Forfeited, StoredBy
  <2> QED BY <2>1, <2>2 DEF IInv, AnswersAreSound, Says, Place
<1> QED BY <1>2, <1>8, <1>9, <1>11, <1>12, <1>13 DEF IInv

-----------------------------------------------------------------------------
(* The steps.                                                                *)

\* Reserved handlers without a version, which may yet answer "failed".
LEMMA NotStoredYet ==
    ASSUME IInv, NEW r \in Requests,
           pc[r] \notin {"succeeded", "internal", "answered", "gone"}
    PROVE  ~ StoredBy(r)
  BY DEF IInv, VersionsAreDue, StoredBy

LEMMA StartStep ==
    ASSUME IInv, NEW r \in Requests, Start(r)
    PROVE  IInv'
<1>1. TicketsStay /\ JobHasTicket' /\ JobMatchesRequest'
  BY UnchangedTicketsStay DEF Start
<1>2. CASE record[Place(r)] = None
  <2>1. PICK c : c = [by |-> r, outcome |-> None]
    OBVIOUS
  <2>2. c \in Claims /\ Justified(r, c.outcome, "check")
    BY <2>1, NoneIsNothing DEF Claims, Justified
  <2>3. /\ pc' = [pc EXCEPT ![r] = "check"] /\ pc[r] = "start"
        /\ record' = [record EXCEPT ![Place(r)] = c]
        /\ UNCHANGED <<reply, locked, versions, number>>
    BY <1>2, <2>1 DEF Start, Goto
  <2> QED BY <1>1, <2>2, <2>3, HandlerMoves DEF Points, Reserved
<1>3. CASE record[Place(r)] # None
  <2>1. PICK outcome : outcome = IF record[Place(r)].outcome = None
                                 THEN "IDEMPOTENCY_IN_PROGRESS"
                                 ELSE record[Place(r)].outcome
    OBVIOUS
  <2>2. record[Place(r)] \in Claims
    BY <1>3, Places DEF IInv, TypeOK
  <2>3. outcome \in JobStates \cup Codes
    BY <2>1, <2>2 DEF Claims, Codes
  <2>4. Justified(r, outcome, "answered")
    BY <1>3, <2>1, Places DEF Justified, IInv, AnswersAreSound, Says
  <2>5. /\ pc' = [pc EXCEPT ![r] = "answered"] /\ pc[r] = "start"
        /\ reply' = [reply EXCEPT ![r] = outcome]
        /\ UNCHANGED <<record, locked, versions, number>>
    BY <1>3, <2>1 DEF Start, Respond, Goto
  <2> QED BY <1>1, <2>3, <2>4, <2>5, HandlerMoves DEF Points, Reserved
<1> QED BY <1>2, <1>3

\* A handler that raises answers a code and deletes its record.
LEMMA RaiseIsSound ==
    ASSUME IInv, NEW r \in Requests, pc[r] \notin {"answered", "gone"},
           NEW code \in Codes, Raise(r, code),
           TicketsStay, JobHasTicket', JobMatchesRequest',
           locked' \in {locked, Unlocked(r)},
           UNCHANGED <<versions, number>>
    PROVE  IInv'
<1>1. Justified(r, code, "answered")
  BY NoneIsNothing DEF Justified
<1>2. /\ pc' = [pc EXCEPT ![r] = "answered"]
      /\ reply' = [reply EXCEPT ![r] = code]
      /\ record' = [record EXCEPT ![Place(r)] = None]
  BY DEF Raise, Respond, Goto
<1> QED BY <1>1, <1>2, HandlerMoves DEF Points, Reserved

\* A handler that completes answers and stores a job state it can vouch for.
LEMMA CompleteIsSound ==
    ASSUME IInv, NEW r \in Requests, pc[r] \notin {"answered", "gone"},
           NEW state \in JobStates, Complete(r, state),
           Justified(r, state, "answered"),
           UNCHANGED <<ticket, job, versions, locked, number>>
    PROVE  IInv'
<1>1. TicketsStay /\ JobHasTicket' /\ JobMatchesRequest'
  BY UnchangedTicketsStay
<1>2. PICK c : c = [by |-> r, outcome |-> state]
  OBVIOUS
<1>3. c \in Claims /\ c.outcome = state
  BY <1>2 DEF Claims
<1>4. /\ pc' = [pc EXCEPT ![r] = "answered"]
      /\ reply' = [reply EXCEPT ![r] = state]
      /\ record' = [record EXCEPT ![Place(r)] = c]
  BY <1>2 DEF Complete, Respond, Goto
<1> QED BY <1>1, <1>3, <1>4, HandlerMoves DEF Points, Reserved

LEMMA CheckQuotaStep ==
    ASSUME IInv, NEW r \in Requests, CheckQuota(r)
    PROVE  IInv'
<1>1. TicketsStay /\ JobHasTicket' /\ JobMatchesRequest'
  BY UnchangedTicketsStay DEF CheckQuota
<1>2. pc[r] = "check" /\ UNCHANGED <<versions, locked, number>>
  BY DEF CheckQuota
<1>3. ASSUME NEW code \in {"SUBMISSION_NOT_ASSESSED", "FEEDBACK_IN_PROGRESS",
                           "REWARDED_ADS_DISABLED"}, Raise(r, code)
      PROVE  IInv'
  BY <1>1, <1>2, <1>3, RaiseIsSound DEF Codes
<1>4. ASSUME Goto(r, "reserve"), UNCHANGED <<reply, record>>
      PROVE  IInv'
  BY <1>1, <1>2, <1>4, HandlerMoves DEF Goto, Points, Reserved
<1> QED BY <1>3, <1>4 DEF CheckQuota

LEMMA ReserveStep ==
    ASSUME IInv, NEW r \in Requests, Reserve(r)
    PROVE  IInv'
<1>1. pc[r] = "reserve" /\ UNCHANGED <<versions, locked, number>>
  BY DEF Reserve
<1>2. CASE ticket[KeyOf[r]] # None
  <2>1. Raise(r, "INTERNAL_ERROR") /\ UNCHANGED <<ticket, job>>
    BY <1>2 DEF Reserve
  <2> QED BY <1>1, <2>1, UnchangedTicketsStay, RaiseIsSound DEF Codes
<1>3. CASE ticket[KeyOf[r]] = None
  <2>1. PICK new : new = [by |-> r, state |-> "pending"]
    OBVIOUS
  <2>2. /\ new \in Tickets /\ new # None
        /\ new.by = r /\ new.state = "pending"
    BY <2>1, NoneIsNothing DEF Tickets, JobStates
  <2>3. /\ ticket' = [ticket EXCEPT ![KeyOf[r]] = new]
        /\ job' = [job EXCEPT ![r] = "pending"]
        /\ UNCHANGED <<reply, record>>
    BY <1>3, <2>1 DEF Reserve
  <2>4. /\ ticket' \in [Keys -> Tickets \cup {None}]
        /\ job' \in [Requests -> JobStates \cup {None}]
        /\ ticket'[KeyOf[r]] = new
        /\ \A k \in Keys \ {KeyOf[r]} : ticket'[k] = ticket[k]
        /\ job'[r] = "pending" /\ job'[r] # None
        /\ \A u \in Requests \ {r} : job'[u] = job[u]
    BY <2>2, <2>3, Places, NoneIsNothing DEF IInv, TypeOK, JobStates
  <2>5. TicketsStay
    BY <1>3, <2>4 DEF TicketsStay
  <2>6. JobHasTicket' /\ JobMatchesRequest'
    <3> SUFFICES ASSUME NEW u \in Requests, job'[u] # None
                 PROVE  /\ ticket'[KeyOf[u]] # None
                        /\ ticket'[KeyOf[u]].by = u
                        /\ ticket'[KeyOf[u]].state = job'[u]
      BY DEF JobHasTicket, JobMatchesRequest
    <3>1. CASE u = r
      BY <2>2, <2>4, <3>1
    <3>2. CASE u # r
      <4>1. job[u] # None /\ ticket[KeyOf[u]] # None
        BY <2>4, <3>2 DEF IInv, JobHasTicket
      <4>2. KeyOf[u] # KeyOf[r]
        BY <1>3, <4>1
      <4> QED
        BY <2>4, <3>2, <4>1, <4>2, Places DEF IInv, JobMatchesRequest
    <3> QED BY <3>1, <3>2
  <2>7. PICK point \in {"queued", "unavailable", "generate"} :
           pc' = [pc EXCEPT ![r] = point]
    BY <1>3 DEF Reserve, Goto
  <2> QED BY <1>1, <2>3, <2>4, <2>5, <2>6, <2>7, HandlerMoves DEF Points
<1> QED BY <1>2, <1>3

LEMMA AnswerPendingStep ==
    ASSUME IInv, NEW r \in Requests, AnswerPending(r)
    PROVE  IInv'
<1>1. Justified(r, "pending", "answered")
  BY DEF Justified
<1> QED BY <1>1, CompleteIsSound DEF AnswerPending, JobStates

LEMMA AnswerJobStep ==
    ASSUME IInv, NEW r \in Requests, AnswerJob(r)
    PROVE  IInv'
<1>1. PICK state \in {"failed", "succeeded"} : pc[r] = state /\ Complete(r, state)
  BY DEF AnswerJob
<1>2. CASE state = "succeeded"
  <2>1. PICK v \in versions : v.by = r
    BY <1>1, <1>2 DEF IInv, HandlerIsSound, StoredBy
  <2>2. Delivered(Place(r))
    BY <2>1, Places DEF Delivered, IInv, VersionsAreDue
  <2>3. Justified(r, state, "answered")
    BY <1>2, <2>2 DEF Justified
  <2> QED BY <1>1, <2>3, CompleteIsSound DEF AnswerJob, JobStates
<1>3. CASE state = "failed"
  <2>1. Justified(r, state, "answered")
    BY <1>1, <1>3, NotStoredYet DEF Justified, IInv, HandlerIsSound, Reserved
  <2> QED BY <1>1, <2>1, CompleteIsSound DEF AnswerJob, JobStates
<1> QED BY <1>1, <1>2, <1>3

\* MarkUnavailable and MarkInvalid: a failed job, answered in the next step.
LEMMA MarkFailedStep ==
    ASSUME IInv, NEW r \in Requests, MarkUnavailable(r) \/ MarkInvalid(r)
    PROVE  IInv'
<1>1. /\ pc[r] \in {"unavailable", "invalid"}
      /\ Settle(r, "failed") /\ Goto(r, "failed")
      /\ UNCHANGED <<reply, record, versions, locked, number>>
  BY DEF MarkUnavailable, MarkInvalid
<1>2. job[r] # None
  BY <1>1 DEF IInv, HandlerIsSound, Reserved
<1>3. TicketsStay /\ JobHasTicket' /\ JobMatchesRequest'
  BY <1>1, <1>2, SettledTicketsStay DEF JobStates
<1>4. job'[r] # None
  BY <1>2, <1>3 DEF TicketsStay
<1> QED BY <1>1, <1>3, <1>4, HandlerMoves DEF Goto, Points

LEMMA MarkInternalStep ==
    ASSUME IInv, NEW r \in Requests, MarkInternal(r)
    PROVE  IInv'
<1>1. /\ pc[r] = "internal" /\ Settle(r, "failed")
      /\ Raise(r, "INTERNAL_ERROR")
      /\ UNCHANGED <<versions, locked, number>>
  BY DEF MarkInternal
<1>2. job[r] # None
  BY <1>1 DEF IInv, HandlerIsSound, Reserved
<1>3. TicketsStay /\ JobHasTicket' /\ JobMatchesRequest'
  BY <1>1, <1>2, SettledTicketsStay DEF JobStates
<1> QED BY <1>1, <1>3, RaiseIsSound DEF Codes

LEMMA GenerateStep ==
    ASSUME IInv, NEW r \in Requests, Generate(r)
    PROVE  IInv'
<1>1. PICK point \in {"lock", "invalid"} : pc' = [pc EXCEPT ![r] = point]
  BY DEF Generate, Goto
<1>2. /\ pc[r] = "generate"
      /\ UNCHANGED <<reply, record, ticket, job, versions, locked, number>>
  BY DEF Generate, tables
<1>3. TicketsStay /\ JobHasTicket' /\ JobMatchesRequest' /\ job'[r] # None
  BY <1>2, UnchangedTicketsStay DEF IInv, HandlerIsSound, Reserved
<1> QED BY <1>1, <1>2, <1>3, HandlerMoves DEF Points

LEMMA FinalizeStep ==
    ASSUME IInv, NEW r \in Requests, Finalize(r) \/ FinalizeUnacknowledged(r)
    PROVE  IInv'
<1>1. pc[r] = "finalize"
  BY DEF Finalize, FinalizeUnacknowledged
<1>2. ~ Collides(r)
  BY <1>1, NumberIsFree
<1>3. PICK point \in {"succeeded", "internal"} : pc' = [pc EXCEPT ![r] = point]
  BY DEF Finalize, FinalizeUnacknowledged, Goto
<1>4. /\ AddVersion(r) /\ Settle(r, "succeeded") /\ locked' = Unlocked(r)
      /\ UNCHANGED <<reply, record, number>>
  BY <1>2 DEF Finalize, FinalizeUnacknowledged
<1> QED BY <1>1, <1>3, <1>4, VersionIsAdded

LEMMA TransactionFailsStep ==
    ASSUME IInv, NEW r \in Requests, TransactionFails(r)
    PROVE  IInv'
<1>1. /\ TicketsStay /\ JobHasTicket' /\ JobMatchesRequest'
      /\ locked' = Unlocked(r) /\ UNCHANGED <<ticket, job, versions, number>>
  BY UnchangedTicketsStay DEF TransactionFails
<1>2. CASE /\ pc[r] \in {"lock", "finalize"} /\ Goto(r, "internal")
           /\ UNCHANGED <<reply, record>>
  <2>1. job'[r] # None
    BY <1>1, <1>2 DEF IInv, HandlerIsSound, Reserved
  <2> QED BY <1>1, <1>2, <2>1, HandlerMoves DEF Goto, Points
<1>3. CASE /\ pc[r] \in {"check", "reserve", "unavailable", "invalid", "internal"}
           /\ Raise(r, "INTERNAL_ERROR")
  BY <1>1, <1>3, RaiseIsSound DEF Codes
<1>4. CASE /\ pc[r] \in {"start", "queued", "failed", "succeeded"}
           /\ Respond(r, "INTERNAL_ERROR") /\ UNCHANGED record
  <2>1. Justified(r, "INTERNAL_ERROR", "answered")
    BY DEF Justified
  <2>2. "INTERNAL_ERROR" \in JobStates \cup Codes
    BY DEF Codes
  <2> QED
    BY <1>1, <1>4, <2>1, <2>2, HandlerMoves DEF Respond, Goto, Points, Reserved
<1> QED BY <1>2, <1>3, <1>4 DEF TransactionFails

LEMMA AbandonStep ==
    ASSUME IInv, NEW r \in Requests, Abandon(r)
    PROVE  IInv'
<1>1. /\ pc[r] \notin {"answered", "gone"} /\ pc' = [pc EXCEPT ![r] = "gone"]
      /\ locked' = Unlocked(r)
      /\ UNCHANGED <<reply, record, ticket, job, versions, number>>
  BY DEF Abandon, Goto, tables
<1>2. TicketsStay /\ JobHasTicket' /\ JobMatchesRequest'
  BY <1>1, UnchangedTicketsStay
<1> QED BY <1>1, <1>2, HandlerMoves DEF Points, Reserved

LEMMA NothingMoves ==
    ASSUME IInv, UNCHANGED <<pc, reply, tables, locked, number>>
    PROVE  IInv'
  BY DEF IInv, TypeOK, JobHasTicket, JobMatchesRequest, HandlerIsSound, StoredBy,
     Numbers, VersionsOf, VersionsAreDue, VersionsAreDense, AnswersAreSound, Says,
     Delivered, Forfeited, Place, tables

LEMMA StepPreserves == IInv /\ [Next]_vars => IInv'
<1> SUFFICES ASSUME IInv, [Next]_vars PROVE IInv'
  OBVIOUS
<1>1. ASSUME NEW r \in Requests, Step(r) PROVE IInv'
  BY <1>1, StartStep, CheckQuotaStep, ReserveStep, AnswerPendingStep, MarkFailedStep,
     GenerateStep, LockSubmissionStep, FinalizeStep, MarkInternalStep, AnswerJobStep
     DEF Step
<1>2. ASSUME NEW r \in Requests,
             \/ TransactionFails(r)
             \/ FinalizeUnacknowledged(r)
             \/ Abandon(r)
      PROVE  IInv'
  BY <1>2, TransactionFailsStep, FinalizeStep, AbandonStep
<1>3. CASE PremiumChanges
  BY <1>3, NothingMoves DEF PremiumChanges
<1>4. CASE UNCHANGED vars
  BY <1>4, NothingMoves DEF vars
<1> QED BY <1>1, <1>2, <1>3, <1>4 DEF Next

-----------------------------------------------------------------------------
\* One ticket per key for good, gapless version numbers, and no "failed" where a
\* version is or will be.
THEOREM Invariance == Spec => []IInv
  BY InitIsSound, StepPreserves, PTL DEF Spec

\* The tables and handlers keep their types, only jobs are stored as answers, and
\* a submission has at most as many versions as there were requests.
THEOREM FeedbackTypeCorrect == Spec => []TypeOK
<1>1. IInv => TypeOK
  BY DEF IInv
<1> QED BY <1>1, Invariance, PTL

\* The job the member polls and the request the quota reads always agree.
THEOREM JobsMatchRequests == Spec => []JobMatchesRequest
<1>1. IInv => JobMatchesRequest
  BY DEF IInv
<1> QED BY <1>1, Invariance, PTL

\* "succeeded" is answered where a version is stored, "failed" where none is,
\* now or later, also to a retry and after a lost acknowledgement.
THEOREM AnswersTellTheTruth == Spec => []AnswersAreTruthful
<1>1. IInv => AnswersAreTruthful
  <2> SUFFICES ASSUME IInv, NEW r \in Requests
               PROVE  LET stored == \E v \in versions : KeyOf[v.by] = KeyOf[r]
                                       /\ v.submission = SubmissionOf[r]
                      IN  /\ reply[r] = "succeeded" => stored
                          /\ reply[r] = "failed" => ~ stored
    BY DEF AnswersAreTruthful
  <2>1. Says(reply[r], Place(r))
    BY DEF IInv, AnswersAreSound
  <2>2. reply[r] = "succeeded" =>
           \E v \in versions : KeyOf[v.by] = KeyOf[r] /\ v.submission = SubmissionOf[r]
    BY <2>1, Places DEF Says, Delivered
  <2>3. reply[r] = "failed" => ~ \E v \in versions : KeyOf[v.by] = KeyOf[r]
    <3> SUFFICES ASSUME reply[r] = "failed", NEW v \in versions, KeyOf[v.by] = KeyOf[r]
                 PROVE  FALSE
      OBVIOUS
    <3>1. ~ StoredBy(ticket[KeyOf[r]].by)
      BY <2>1, Places DEF Says, Forfeited
    <3>2. v.by \in Requests /\ job[v.by] # None
      BY DEF IInv, TypeOK, VersionsAreDue
    <3>3. ticket[KeyOf[r]].by = v.by
      BY <3>2 DEF IInv, JobMatchesRequest
    <3> QED BY <3>1, <3>3 DEF StoredBy
  <2> QED BY <2>2, <2>3
<1> QED BY <1>1, Invariance, PTL

\* The number read under the row lock is free when it is used.
THEOREM NumbersAreFree == Spec => []VersionsNeverCollide
<1>1. IInv => VersionsNeverCollide
  BY NumberIsFree DEF VersionsNeverCollide
<1> QED BY <1>1, Invariance, PTL
-----------------------------------------------------------------------------
(* The parts of ReservationIsSettled that need no fairness: who may be behind *)
(* a reservation that refuses the member's next request, and that handlers do *)
(* not run for ever.                                                         *)

\* Handlers at these points still have to settle their reservation.
Settling == {"queued", "unavailable", "generate", "lock", "finalize", "invalid",
             "internal"}

\* r may have a pending job: it is at work, it died, it lost a transaction, or it
\* leaves its job to the external worker.
MayBePending(r) ==
    \/ pc[r] \in Settling \cup {"gone"}
    \/ pc[r] = "answered" /\ reply[r] = "INTERNAL_ERROR"
    \/ mode = "groq"

\* The handlers that jobs, tickets and row locks belong to.
HandlerIsKnown(r) ==
    /\ pc[r] = "queued" => mode = "groq"
    /\ job[r] = "pending" => MayBePending(r)
    /\ \A s \in Submissions :
          locked[s] = r => pc[r] = "finalize" /\ SubmissionOf[r] = s

TicketsHaveJobs ==
    \A k \in Keys :
       ticket[k] # None => KeyOf[ticket[k].by] = k /\ job[ticket[k].by] # None

HoldersInv == TicketsHaveJobs /\ \A r \in Requests : HandlerIsKnown(r)

\* What a step of r leaves alone.
OnlyMoves(r) ==
    /\ mode' = mode
    /\ \A u \in Requests \ {r} :
          /\ pc'[u] = pc[u] /\ reply'[u] = reply[u] /\ job'[u] = job[u]
          /\ \A s \in Submissions : locked'[s] = u => locked[s] = u

LEMMA MovesAlone ==
    ASSUME IInv, NEW r \in Requests,
           \/ Step(r)
           \/ TransactionFails(r)
           \/ FinalizeUnacknowledged(r)
           \/ Abandon(r)
    PROVE  OnlyMoves(r)
<1> USE Places, NoneIsNothing
<1>1. CASE Start(r) \/ CheckQuota(r) \/ Reserve(r) \/ AnswerPending(r) \/ AnswerJob(r)
           \/ Generate(r)
  BY <1>1
  DEF Start, CheckQuota, Reserve, AnswerPending, AnswerJob, Generate, Complete, Raise,
      Respond, Goto, OnlyMoves, IInv, TypeOK, tables
<1>2. CASE MarkUnavailable(r) \/ MarkInvalid(r) \/ MarkInternal(r)
  BY <1>2
  DEF MarkUnavailable, MarkInvalid, MarkInternal, Settle, Raise, Respond, Goto,
      OnlyMoves, IInv, TypeOK
<1>3. CASE LockSubmission(r) \/ Finalize(r) \/ FinalizeUnacknowledged(r)
  BY <1>3
  DEF LockSubmission, TakeLock, Finalize, FinalizeUnacknowledged, Settle, Unlocked,
      Goto, OnlyMoves, IInv, TypeOK, tables
<1>4. CASE TransactionFails(r) \/ Abandon(r)
  BY <1>4
  DEF TransactionFails, Abandon, Unlocked, Raise, Respond, Goto, OnlyMoves, IInv,
      TypeOK, tables
<1> QED BY <1>1, <1>2, <1>3, <1>4 DEF Step

\* r itself keeps a reason for its pending job, and no lock beyond its transaction.
LEMMA HandlerStaysKnown ==
    ASSUME IInv, NEW r \in Requests, HandlerIsKnown(r),
           \/ Step(r)
           \/ TransactionFails(r)
           \/ FinalizeUnacknowledged(r)
           \/ Abandon(r)
    PROVE  HandlerIsKnown(r)'
<1> USE Places, NoneIsNothing
<1>1. CASE Start(r) \/ CheckQuota(r)
  BY <1>1
  DEF Start, CheckQuota, Raise, Respond, Goto, HandlerIsKnown, MayBePending, Settling,
      IInv, TypeOK
<1>2. CASE Reserve(r)
  <2>1. /\ mode' = mode
        /\ \/ pc'[r] \in Settling /\ (pc'[r] = "queued" => mode = "groq")
           \/ pc'[r] = "answered" /\ reply'[r] = "INTERNAL_ERROR"
    BY <1>2 DEF Reserve, Raise, Respond, Goto, Settling, IInv, TypeOK
  <2>2. \A s \in Submissions : locked'[s] # r
    BY <1>2 DEF Reserve, HandlerIsKnown
  <2> QED BY <2>1, <2>2 DEF HandlerIsKnown, MayBePending
<1>3. CASE AnswerPending(r) \/ AnswerJob(r)
  BY <1>3
  DEF AnswerPending, AnswerJob, Complete, Respond, Goto, HandlerIsKnown, MayBePending,
      Settling, IInv, TypeOK
<1>4. CASE MarkUnavailable(r) \/ MarkInvalid(r) \/ MarkInternal(r)
  <2>1. job'[r] = "failed" /\ pc'[r] \in {"failed", "answered"}
    BY <1>4
    DEF MarkUnavailable, MarkInvalid, MarkInternal, Settle, Raise, Respond, Goto, IInv,
        TypeOK
  <2>2. \A s \in Submissions : locked'[s] # r
    BY <1>4 DEF MarkUnavailable, MarkInvalid, MarkInternal, HandlerIsKnown
  <2> QED BY <2>1, <2>2 DEF HandlerIsKnown
<1>5. CASE Generate(r)
  <2>1. pc'[r] \in {"lock", "invalid"}
    BY <1>5 DEF Generate, Goto, IInv, TypeOK
  <2>2. \A s \in Submissions : locked'[s] # r
    BY <1>5 DEF Generate, HandlerIsKnown
  <2> QED BY <2>1, <2>2 DEF HandlerIsKnown, MayBePending, Settling
<1>6. CASE LockSubmission(r)
  <2>1. pc'[r] = "finalize"
    BY <1>6 DEF LockSubmission, Goto, IInv, TypeOK
  <2>2. \A s \in Submissions : locked'[s] = r => SubmissionOf[r] = s
    BY <1>6 DEF LockSubmission, TakeLock, HandlerIsKnown, IInv, TypeOK
  <2> QED BY <2>1, <2>2 DEF HandlerIsKnown, MayBePending, Settling
<1>7. ASSUME locked' = Unlocked(r)
      PROVE  \A s \in Submissions : locked'[s] # r
  BY <1>7 DEF Unlocked, HandlerIsKnown, IInv, TypeOK
<1>8. CASE Finalize(r) \/ FinalizeUnacknowledged(r)
  <2>1. \/ job'[r] = "succeeded" /\ pc'[r] \in {"succeeded", "internal"}
        \/ pc'[r] = "internal"
    BY <1>8
    DEF Finalize, FinalizeUnacknowledged, Settle, Goto, IInv, TypeOK
  <2>2. \A s \in Submissions : locked'[s] # r
    BY <1>7, <1>8 DEF Finalize, FinalizeUnacknowledged
  <2> QED BY <2>1, <2>2 DEF HandlerIsKnown, MayBePending, Settling
<1>9. CASE TransactionFails(r) \/ Abandon(r)
  <2>1. \/ pc'[r] \in {"internal", "gone"}
        \/ pc'[r] = "answered" /\ reply'[r] = "INTERNAL_ERROR"
    BY <1>9
    DEF TransactionFails, Abandon, Raise, Respond, Goto, IInv, TypeOK
  <2>2. \A s \in Submissions : locked'[s] # r
    BY <1>7, <1>9 DEF TransactionFails, Abandon
  <2> QED BY <2>1, <2>2 DEF HandlerIsKnown, MayBePending, Settling
<1> QED BY <1>1, <1>2, <1>3, <1>4, <1>5, <1>6, <1>8, <1>9 DEF Step

LEMMA TicketsKeepJobs ==
    ASSUME IInv, TicketsHaveJobs, [Next]_vars
    PROVE  TicketsHaveJobs'
<1> USE Places, NoneIsNothing
<1>1. ASSUME UNCHANGED <<ticket, job>> PROVE TicketsHaveJobs'
  BY <1>1 DEF TicketsHaveJobs
<1>2. ASSUME NEW r \in Requests, NEW state \in JobStates, Settle(r, state),
             pc[r] \in Reserved
      PROVE  TicketsHaveJobs'
  <2>1. job[r] # None
    BY <1>2 DEF IInv, HandlerIsSound
  <2>2. TicketsStay
    BY <1>2, <2>1, SettledTicketsStay
  <2>3. \A k \in Keys : ticket'[k] # None => ticket[k] # None
    <3>1. ticket[KeyOf[r]] # None
      BY <2>1 DEF IInv, JobHasTicket
    <3> QED BY <1>2, <3>1 DEF Settle, IInv, TypeOK
  <2> QED BY <2>2, <2>3 DEF TicketsHaveJobs, TicketsStay, IInv, TypeOK, Tickets
<1>3. ASSUME NEW r \in Requests, Reserve(r) PROVE TicketsHaveJobs'
  <2>1. CASE UNCHANGED <<ticket, job>>
    BY <1>1, <2>1
  <2>2. CASE /\ ticket' = [ticket EXCEPT ![KeyOf[r]] = [by |-> r, state |-> "pending"]]
             /\ job' = [job EXCEPT ![r] = "pending"]
    <3> SUFFICES ASSUME NEW k \in Keys, ticket'[k] # None
                 PROVE  KeyOf[ticket'[k].by] = k /\ job'[ticket'[k].by] # None
      BY DEF TicketsHaveJobs
    <3>1. job'[r] # None /\ \A u \in Requests : job[u] # None => job'[u] # None
      BY <2>2 DEF IInv, TypeOK, JobStates
    <3>2. CASE k = KeyOf[r]
      BY <2>2, <3>1, <3>2 DEF IInv, TypeOK
    <3>3. CASE k # KeyOf[r]
      <4>1. ticket'[k] = ticket[k] /\ ticket[k].by \in Requests
        BY <2>2, <3>3 DEF IInv, TypeOK, Tickets
      <4> QED BY <3>1, <4>1 DEF TicketsHaveJobs
    <3> QED BY <3>2, <3>3
  <2> QED BY <1>3, <2>1, <2>2 DEF Reserve
<1>4. ASSUME NEW r \in Requests,
             MarkUnavailable(r) \/ MarkInvalid(r) \/ MarkInternal(r) \/ Finalize(r)
                \/ FinalizeUnacknowledged(r)
      PROVE  TicketsHaveJobs'
  BY <1>1, <1>2, <1>4
  DEF MarkUnavailable, MarkInvalid, MarkInternal, Finalize, FinalizeUnacknowledged,
      Reserved, JobStates
<1> QED BY <1>1, <1>3, <1>4
  DEF Next, Step, Start, CheckQuota, AnswerPending, AnswerJob, Generate,
      LockSubmission, TransactionFails, Abandon, PremiumChanges, tables, vars

LEMMA HoldersInvStep == IInv /\ HoldersInv /\ [Next]_vars => HoldersInv'
<1> SUFFICES ASSUME IInv, HoldersInv, [Next]_vars PROVE HoldersInv'
  OBVIOUS
<1>1. TicketsHaveJobs'
  BY TicketsKeepJobs DEF HoldersInv
<1>2. ASSUME NEW r \in Requests,
             \/ Step(r)
             \/ TransactionFails(r)
             \/ FinalizeUnacknowledged(r)
             \/ Abandon(r),
             NEW u \in Requests
      PROVE  HandlerIsKnown(u)'
  <2>1. CASE u = r
    BY <1>2, <2>1, HandlerStaysKnown DEF HoldersInv
  <2>2. CASE u # r
    BY <1>2, <2>2, MovesAlone DEF OnlyMoves, HoldersInv, HandlerIsKnown, MayBePending
  <2> QED BY <2>1, <2>2
<1>3. CASE PremiumChanges \/ UNCHANGED vars
  BY <1>1, <1>3
  DEF PremiumChanges, vars, tables, HoldersInv, HandlerIsKnown, MayBePending
<1> QED BY <1>1, <1>2, <1>3 DEF Next, HoldersInv

\* Who blocks a member's next request, and who holds the lock of a submission.
BlockersAreKnown ==
    /\ HasPending => \E r \in Requests : job[r] = "pending" /\ MayBePending(r)
    /\ \A s \in Submissions :
          locked[s] # None => pc[locked[s]] = "finalize" /\ SubmissionOf[locked[s]] = s

\* A pending reservation, which answers the member's requests with
\* FEEDBACK_IN_PROGRESS, has a handler that is still at work, died, lost a
\* transaction or left the job to the external worker: no failure of the generation
\* leaves one behind.  A row lock is held by who is storing a version.
THEOREM ReservationsHaveHandlers == Spec => []BlockersAreKnown
<1>1. Init => HoldersInv
  BY NoneIsNothing
  DEF Init, HoldersInv, HandlerIsKnown, TicketsHaveJobs, JobStates
<1>2. IInv /\ HoldersInv => BlockersAreKnown
  <2> SUFFICES ASSUME IInv, HoldersInv PROVE BlockersAreKnown
    OBVIOUS
  <2>1. ASSUME NEW k \in Keys, ticket[k] # None, ticket[k].state = "pending"
        PROVE  \E r \in Requests : job[r] = "pending" /\ MayBePending(r)
    <3>1. ticket[k].by \in Requests
      BY <2>1 DEF IInv, TypeOK, Tickets
    <3>2. job[ticket[k].by] = "pending"
      BY <2>1, <3>1 DEF HoldersInv, TicketsHaveJobs, IInv, JobMatchesRequest
    <3> QED BY <3>1, <3>2 DEF HoldersInv, HandlerIsKnown
  <2>2. \A s \in Submissions : locked[s] # None => locked[s] \in Requests
    BY DEF IInv, TypeOK
  <2> QED BY <2>1, <2>2 DEF BlockersAreKnown, HasPending, HoldersInv, HandlerIsKnown
<1> QED BY <1>1, <1>2, HoldersInvStep, Invariance, PTL DEF Spec

\* How many transactions a handler has before it at most.
Remaining(p) ==
    CASE p = "start"                                 -> 9
      [] p = "check"                                 -> 8
      [] p = "reserve"                               -> 7
      [] p = "generate"                              -> 6
      [] p = "lock"                                  -> 5
      [] p = "finalize"                              -> 4
      [] p = "internal"                              -> 3
      [] p \in {"unavailable", "invalid"}            -> 2
      [] p \in {"queued", "failed", "succeeded"}     -> 1
      [] p \in {"answered", "gone"}                  -> 0

\* r moves on, and nobody else.
MovesOn(r) ==
    /\ Remaining(pc'[r]) < Remaining(pc[r])
    /\ \A u \in Requests \ {r} : pc'[u] = pc[u]

LEMMA HandlerMovesOn ==
    ASSUME TypeOK, NEW r \in Requests,
           \/ Step(r)
           \/ TransactionFails(r)
           \/ FinalizeUnacknowledged(r)
           \/ Abandon(r)
    PROVE  MovesOn(r)
<1>1. ASSUME NEW p \in Points, Goto(r, p), Remaining(p) < Remaining(pc[r])
      PROVE  MovesOn(r)
  BY <1>1 DEF Goto, MovesOn, TypeOK
<1>2. CASE Start(r) \/ CheckQuota(r)
  BY <1>1, <1>2 DEF Start, CheckQuota, Raise, Respond, Remaining, Points
<1>3. CASE Reserve(r)
  <2>1. /\ pc[r] = "reserve"
        /\ \/ Goto(r, "queued") \/ Goto(r, "unavailable") \/ Goto(r, "generate")
           \/ Goto(r, "answered")
    BY <1>3 DEF Reserve, Raise, Respond
  <2> QED BY <1>1, <2>1 DEF Remaining, Points
<1>4. CASE AnswerPending(r) \/ AnswerJob(r)
  BY <1>1, <1>4 DEF AnswerPending, AnswerJob, Complete, Respond, Remaining, Points
<1>5. CASE MarkUnavailable(r) \/ MarkInvalid(r) \/ MarkInternal(r)
  BY <1>1, <1>5
  DEF MarkUnavailable, MarkInvalid, MarkInternal, Raise, Respond, Remaining, Points
<1>6. CASE Generate(r) \/ LockSubmission(r)
  BY <1>1, <1>6 DEF Generate, LockSubmission, Remaining, Points
<1>7. CASE Finalize(r) \/ FinalizeUnacknowledged(r)
  BY <1>1, <1>7 DEF Finalize, FinalizeUnacknowledged, Remaining, Points
<1>8. CASE TransactionFails(r)
  BY <1>1, <1>8 DEF TransactionFails, Raise, Respond, Remaining, Points
<1>9. CASE Abandon(r)
  BY <1>1, <1>9 DEF Abandon, TypeOK, Remaining, Points
<1> QED BY <1>2, <1>3, <1>4, <1>5, <1>6, <1>7, <1>8, <1>9 DEF Step

\* Every step but a change of the entitlement brings one handler nearer its end,
\* which is at most nine transactions away, whatever fails: request_feedback waits
\* for a row lock, but never retries or goes back.
THEOREM HandlersMoveOn ==
    Spec => /\ [](\A r \in Requests : Remaining(pc[r]) \in 0..9)
            /\ [][PremiumChanges \/ \E r \in Requests : MovesOn(r)]_vars
<1>1. TypeOK => \A r \in Requests : Remaining(pc[r]) \in 0..9
  <2>1. \A p \in Points : Remaining(p) \in 0..9
    BY DEF Remaining, Points
  <2> QED BY <2>1 DEF TypeOK
<1>2. TypeOK /\ [Next]_vars => [PremiumChanges \/ \E r \in Requests : MovesOn(r)]_vars
  BY HandlerMovesOn DEF Next
<1> QED BY <1>1, <1>2, FeedbackTypeCorrect, PTL DEF Spec
=============================================================================
