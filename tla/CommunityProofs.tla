-------------------------- MODULE CommunityProofs ---------------------------
(* Moderation is final for any number of moderators, posts and ids and any  *)
(* clock: a decision that waited for a row lock meets the trigger with the   *)
(* row as it is by then, not as the moderator saw it.  And the pages of the  *)
(* panel add up to the list, for any page size, any decisions and            *)
(* corrections between two pages and any order of their answers.             *)
EXTENDS Community, SequenceTheorems, FiniteSetTheorems, TLAPS

\* The rulings a post can have, by the state it is in; without a post, none.
Explained(s) ==
    \/ post[s] = None /\ rulings[s] = <<>>
    \/ InState(s, "held") /\ rulings[s] = <<>>
    \/ InState(s, "approved") /\ rulings[s] = <<"approved">>
    \/ InState(s, "rejected")
          /\ rulings[s] \in {<<"rejected">>, <<"approved", "rejected">>}

Verdicts == [post : Submissions, state : Decisions, at : 0..MaxTime]

\* A transaction that is under way decides a post that is there: posts are
\* never deleted.
Decidable(m) ==
    \/ deciding[m] = None
    \/ deciding[m] \in Verdicts /\ post[deciding[m].post] # None

IInv ==
    /\ clock \in 0..MaxTime
    /\ post \in [Submissions -> Posts \cup {None}]
    /\ rulings \in [Submissions -> Seq(Decisions)]
    /\ deciding \in [Moderators -> Verdicts \cup {None}]
    /\ \A s \in Submissions : Explained(s)
    /\ \A m \in Moderators : Decidable(m)

\* A decision changes a post into a post.
LEMMA RuledIsPost ==
    ASSUME NEW p \in Posts, NEW d \in Verdicts
    PROVE  /\ Ruled(p, d) \in Posts
           /\ Ruled(p, d).state = d.state
  BY DEF Verdicts, Ruled, Posts, States

\* Two values appended one after the other are the pair of them.
LEMMA AppendPair ==
    ASSUME NEW S, NEW a \in S, NEW b \in S
    PROVE  Append(<<a>>, b) = <<a, b>>
<1> DEFINE long == Append(<<a>>, b)
           pair == <<a, b>>
<1>1. <<a>> \in Seq(S) /\ Len(<<a>>) = 1 /\ <<a>>[1] = a
  OBVIOUS
<1>2. pair \in Seq(S) /\ Len(pair) = 2 /\ pair[1] = a /\ pair[2] = b
  OBVIOUS
<1>3. long \in Seq(S) /\ Len(long) = 2 /\ long[1] = a /\ long[2] = b
  BY <1>1, AppendProperties
<1> HIDE DEF long, pair
<1>4. \A i \in 1..Len(long) : long[i] = pair[i]
  BY <1>2, <1>3
<1>5. long = pair
  BY <1>2, <1>3, <1>4, SeqEqual
<1> QED BY <1>5 DEF long, pair

LEMMA InitIsExplained == Init => IInv
  BY CommunityAssumption
     DEF Init, IInv, Explained, Decidable, Decisions

LEMMA CreateIsExplained ==
    ASSUME IInv, NEW s \in Submissions, NEW i \in Ids, CreatePost(s, i)
    PROVE  IInv'
<1> DEFINE row == [id |-> i, state |-> "held", at |-> None]
<1>1. row \in Posts /\ row # None
  BY CommunityAssumption DEF Posts, States
<1>2. post' \in [Submissions -> Posts \cup {None}]
  BY <1>1 DEF IInv, CreatePost
<1>3. \A t \in Submissions : Explained(t)'
  BY <1>1 DEF IInv, CreatePost, Explained, InState
<1>4. \A m \in Moderators : Decidable(m)'
  BY <1>1 DEF IInv, CreatePost, Decidable
<1> QED BY <1>2, <1>3, <1>4 DEF IInv, CreatePost

LEMMA BeginIsExplained ==
    ASSUME IInv, NEW m \in Moderators, NEW s \in Submissions, NEW d \in Decisions,
           BeginDecision(m, s, d)
    PROVE  IInv'
<1>1. PICK new \in Verdicts : new = [post |-> s, state |-> d, at |-> clock]
  BY DEF IInv, Verdicts
<1>2. new.post = s
  BY <1>1
<1>3. deciding' = [deciding EXCEPT ![m] = new] /\ post[s] # None /\ post' = post
  BY <1>1 DEF BeginDecision
<1>4. \A n \in Moderators : Decidable(n)'
  BY <1>2, <1>3 DEF IInv, Decidable
<1>5. \A t \in Submissions : Explained(t)'
  BY DEF IInv, BeginDecision, Explained, InState
<1> QED BY <1>3, <1>4, <1>5 DEF IInv, BeginDecision

LEMMA DecideIsExplained ==
    ASSUME IInv, NEW m \in Moderators, Decide(m)
    PROVE  IInv'
<1> DEFINE d == deciding[m]
           s == d.post
<1>1. /\ d \in Verdicts
      /\ s \in Submissions /\ d.state \in Decisions
      /\ post[s] \in Posts
  BY DEF IInv, Decide, Decidable, Verdicts
<1>2. /\ post' = [post EXCEPT ![s] = Ruled(post[s], d)]
      /\ rulings' = [rulings EXCEPT ![s] = Append(rulings[s], d.state)]
      /\ Allows(post[s].state, d.state)
      /\ deciding' = [deciding EXCEPT ![m] = None]
      /\ clock' = clock
  BY DEF Decide
<1>3. /\ Ruled(post[s], d) \in Posts
      /\ Ruled(post[s], d).state = d.state
      /\ Ruled(post[s], d) # None
  BY <1>1, RuledIsPost, CommunityAssumption
<1>4. post' \in [Submissions -> Posts \cup {None}]
  BY <1>1, <1>2, <1>3 DEF IInv
<1>5. rulings' \in [Submissions -> Seq(Decisions)]
  BY <1>1, <1>2 DEF IInv
<1>6. \A n \in Moderators : Decidable(n)'
  BY <1>2, <1>3, <1>1 DEF IInv, Decidable
<1>7. ASSUME NEW t \in Submissions PROVE Explained(t)'
  <2>1. CASE t # s
    BY <2>1, <1>1, <1>2 DEF IInv, Explained, InState
  <2>2. CASE t = s
    <3>1. post'[s] = Ruled(post[s], d) /\ rulings'[s] = Append(rulings[s], d.state)
      BY <1>1, <1>2 DEF IInv
    <3>2. CASE post[s].state = "held"
      <4>1. rulings[s] = <<>>
        BY <3>2, <1>1, CommunityAssumption DEF IInv, Explained, InState
      <4>2. rulings'[s] = <<d.state>>
        BY <3>1, <4>1
      <4> QED BY <2>2, <3>1, <4>2, <1>1, <1>3 DEF Explained, InState, Decisions
    <3>3. CASE post[s].state = "approved" /\ d.state = "rejected"
      <4>1. rulings[s] = <<"approved">>
        BY <3>3, <1>1, CommunityAssumption DEF IInv, Explained, InState
      <4>2. rulings'[s] = Append(<<"approved">>, "rejected")
        BY <3>1, <3>3, <4>1
      <4>3. Append(<<"approved">>, "rejected") = <<"approved", "rejected">>
        <5>1. "approved" \in Decisions /\ "rejected" \in Decisions
          BY DEF Decisions
        <5> QED BY <5>1, AppendPair, Zenon
      <4> QED BY <2>2, <3>1, <3>3, <4>2, <4>3, <1>3 DEF Explained, InState
    <3> QED BY <3>2, <3>3, <1>2 DEF Allows
  <2> QED BY <2>1, <2>2
<1> QED BY <1>2, <1>4, <1>5, <1>6, <1>7 DEF IInv

\* Whatever leaves posts, rulings and the transactions alone, or only ends one.
LEMMA RestIsExplained ==
    ASSUME IInv, post' = post, rulings' = rulings, clock' \in 0..MaxTime,
           \/ deciding' = deciding
           \/ \E m \in Moderators : deciding' = [deciding EXCEPT ![m] = None]
    PROVE  IInv'
  BY DEF IInv, Explained, Decidable, InState

LEMMA ReadingOnlyReads ==
    ASSUME NEW r \in Readers, Reading(r)
    PROVE  UNCHANGED tables
<1>1. CASE OpenPanel(r)
  BY <1>1, Zenon DEF OpenPanel
<1>2. CASE LoadMore(r)
  BY <1>2 DEF LoadMore
<1>3. CASE \E s \in Slots : ListPosts(r, s) \/ ShowPosts(r, s) \/ LoadFails(r, s)
  <2>1. PICK s \in Slots : ListPosts(r, s) \/ ShowPosts(r, s) \/ LoadFails(r, s)
    BY <1>3
  <2>2. CASE ListPosts(r, s)
    BY <2>2 DEF ListPosts
  <2>3. CASE ShowPosts(r, s)
    BY <2>3 DEF ShowPosts
  <2>4. CASE LoadFails(r, s)
    BY <2>4 DEF LoadFails
  <2> QED BY <2>1, <2>2, <2>3, <2>4
<1>4. CASE LeavePanel(r)
  BY <1>4 DEF LeavePanel
<1> QED BY <1>1, <1>2, <1>3, <1>4 DEF Reading

\* The inductive invariant: the rulings on record explain the state of every
\* post, and every decision under way is about a post that exists.
THEOREM Invariance == Spec => []IInv
<1>1. IInv /\ [Next]_vars => IInv'
  <2> SUFFICES ASSUME IInv, [Next]_vars PROVE IInv'
    OBVIOUS
  <2>1. CASE Tick
    BY <2>1, RestIsExplained, CommunityAssumption DEF Tick, IInv
  <2>2. CASE \E s \in Submissions, i \in Ids : CreatePost(s, i)
    BY <2>2, CreateIsExplained
  <2>3. CASE \E m \in Moderators, s \in Submissions, d \in Decisions :
                BeginDecision(m, s, d)
    BY <2>3, BeginIsExplained
  <2>4. CASE \E m \in Moderators : Decide(m)
    BY <2>4, DecideIsExplained
  <2>5. CASE \E m \in Moderators : Refuse(m)
    BY <2>5, RestIsExplained DEF Refuse, IInv
  <2>6. CASE Correct
    BY <2>6, RestIsExplained DEF Correct, IInv
  <2>7. CASE UNCHANGED tables
    BY <2>7, RestIsExplained DEF tables, IInv
  <2>8. CASE \E r \in Readers : Reading(r)
    BY <2>7, <2>8, ReadingOnlyReads
  <2>9. CASE UNCHANGED vars
    BY <2>7, <2>9 DEF vars
  <2> QED BY <2>1, <2>2, <2>3, <2>4, <2>5, <2>6, <2>8, <2>9 DEF Next
<1> QED BY <1>1, InitIsExplained, PTL DEF Spec

\* However moderators race, a post is decided at most twice, published at most
\* once and never after its rejection, and is in the state of its last ruling.
THEOREM Finality == Spec => []RulingsAreFinal
<1>1. IInv => RulingsAreFinal
  <2> SUFFICES ASSUME IInv, NEW s \in Submissions
               PROVE  /\ rulings[s] \in {<<>>, <<"approved">>, <<"rejected">>,
                                         <<"approved", "rejected">>}
                      /\ post[s] # None =>
                            post[s].state = IF rulings[s] = <<>> THEN "held"
                                            ELSE rulings[s][Len(rulings[s])]
    BY DEF RulingsAreFinal
  <2>1. Explained(s)
    BY DEF IInv
  <2>2. CASE rulings[s] = <<>>
    BY <2>1, <2>2 DEF Explained, InState
  <2>3. CASE rulings[s] = <<"approved">>
    BY <2>1, <2>3 DEF Explained, InState
  <2>4. CASE rulings[s] = <<"rejected">>
    BY <2>1, <2>4 DEF Explained, InState
  <2>5. CASE rulings[s] = <<"approved", "rejected">>
    BY <2>1, <2>5 DEF Explained, InState
  <2> QED BY <2>1, <2>2, <2>3, <2>4, <2>5 DEF Explained
<1> QED BY <1>1, Invariance, PTL

-----------------------------------------------------------------------------
(* The panel: no page repeats a post, and none that stays approved is        *)
(* skipped.  A post keeps its key while it is approved and is never approved *)
(* again, so what is behind the cursor stays behind it, whatever is decided  *)
(* between two pages; what the row security hides stays hidden; and the last *)
(* row of a page is the oldest on it.                                        *)

\* What was approved once is approved or rejected.
IsRuled(s) == InState(s, "approved") \/ InState(s, "rejected")

PostsAreSound ==
    /\ current \in 1..LastVersion
    /\ \A s \in Submissions : post[s] # None =>
          /\ VersionOf[s] <= current
          /\ post[s].state = "approved" <=> post[s].at # None
          /\ post[s].at # None => post[s].at <= clock
    /\ \A s, t \in Submissions :
          post[s] # None /\ post[t] # None /\ post[s].id = post[t].id => s = t
    /\ \A m \in Moderators : deciding[m] # None => deciding[m].at <= clock

\* What a list is to show once it is whole.
Owed(r, w) == {s \in w.due \cap Visible(r) : InState(s, "approved")}

\* What is left for a further page.
Remains(s, cursor) == cursor # None /\ PastCursor(s, cursor)

\* An answer that has not been shown yet: nothing on it is beyond its cursor, and
\* what its list owes is shown, on this page or left for a further one.
PageIsSound(r, w, q) ==
    /\ \A s \in q.page.items :
          /\ IsRuled(s)
          /\ InState(s, "approved") /\ q.page.cursor # None =>
                ~ Older(Key(s), q.page.cursor)
    /\ q.page.cursor # None /\ q.cursor # None => Older(q.page.cursor, q.cursor)
    /\ \A s \in Owed(r, w) : \/ q.cursor # None /\ s \in w.seen
                             \/ s \in q.page.items
                             \/ Remains(s, q.page.cursor)

\* A page is asked for from where its list was complete.
RequestIsSound(r, w, q) ==
    /\ q.cursor = None => w.state = "loading"
    /\ q.cursor # None => w.state = "ready"
    /\ q.now <= clock
    /\ \A s \in w.due : InState(s, "approved") => post[s].at <= q.now
    /\ \A s \in Owed(r, w) : \/ q.cursor # None /\ s \in w.seen
                             \/ PastCursor(s, q.cursor)
    /\ q.page # None => PageIsSound(r, w, q)

AtMostOne(A) == \A s, t \in Slots : A[s] # None /\ A[t] # None => s = t

\* A list whose button waits for its answers.
ListIsSound(w, A) ==
    /\ AtMostOne(A)
    /\ w.state = "ready" =>
          /\ w.shown = Cardinality(w.seen)
          /\ \A s \in w.seen :
                /\ IsRuled(s)
                /\ InState(s, "approved") /\ w.cursor # None =>
                      ~ Older(Key(s), w.cursor)
    /\ \A s \in Slots : A[s] # None /\ A[s].cursor # None =>
          /\ A[s].cursor = w.cursor
          /\ A[s].page # None => A[s].page.items \cap w.seen = {}

\* What a panel shows, with the requests under way for it.
WalkIsSound(r, w, A) ==
    /\ \A s \in w.due : IsRuled(s)
    /\ w.overlap # "anew" =>
          /\ w.state = "ready" =>
                \A s \in Owed(r, w) : s \in w.seen \/ Remains(s, w.cursor)
          /\ \A s \in Slots : A[s] # None => RequestIsSound(r, w, A[s])
          /\ w.state = "loading" => AtMostOne(A)
    /\ w.overlap = "none" => ListIsSound(w, A)

WInv ==
    /\ PostsAreSound
    /\ walk \in [Readers -> Walks]
    /\ asked \in [Readers -> [Slots -> Requests \cup {None}]]
    /\ \A r \in Readers : WalkIsSound(r, walk[r], asked[r])

-----------------------------------------------------------------------------
(* Lemmas.                                                                   *)

LEMMA OlderIsAnOrder ==
    /\ \A k \in Nat \X Nat : ~ Older(k, k)
    /\ \A k, l \in Nat \X Nat : k = l \/ Older(k, l) \/ Older(l, k)
    /\ \A k, l \in Nat \X Nat : ~ (Older(k, l) /\ Older(l, k))
    /\ \A k, l, m \in Nat \X Nat : Older(k, l) /\ Older(l, m) => Older(k, m)
  BY DEF Older

\* In a finite set of rows with keys of their own, the number of newer rows is
\* a numbering from 0: there is a newest and an oldest row.
LEMMA Extremes ==
    ASSUME NEW S, IsFiniteSet(S), S # {}, NEW K \in [S -> Nat \X Nat],
           \A s, t \in S : K[s] = K[t] => s = t
    PROVE  /\ \E s \in S : { t \in S : Older(K[s], K[t]) } = {}
           /\ \E s \in S : \A t \in S \ {s} : Older(K[s], K[t])
<1> DEFINE Newer(s) == { t \in S : Older(K[s], K[t]) }
           n == Cardinality(S)
           rank == [s \in S |-> Cardinality(Newer(s))]
<1>1. n \in Nat /\ n >= 1
  BY FS_CardinalityType, FS_EmptySet
<1>2. \A s \in S : /\ IsFiniteSet(S \ {s}) /\ Cardinality(S \ {s}) = n - 1
  BY FS_RemoveElement
<1>3. \A s \in S : Newer(s) \subseteq S \ {s}
  BY OlderIsAnOrder
<1>4. \A s \in S : IsFiniteSet(Newer(s)) /\ rank[s] \in 0..(n - 1)
  <2> SUFFICES ASSUME NEW s \in S
               PROVE  IsFiniteSet(Newer(s)) /\ rank[s] \in 0..(n - 1)
    OBVIOUS
  <2>1. IsFiniteSet(Newer(s)) /\ Cardinality(Newer(s)) <= n - 1
    <3>1. Newer(s) \in SUBSET (S \ {s})
      BY <1>3
    <3> DEFINE rest == S \ {s}
    <3>2. IsFiniteSet(rest) /\ Cardinality(rest) = n - 1 /\ Newer(s) \in SUBSET rest
      BY <1>2, <3>1
    <3> HIDE DEF Newer, rest, n
    <3> QED BY <3>2, FS_Subset
  <2>2. Cardinality(Newer(s)) \in Nat
    BY <2>1, FS_CardinalityType
  <2> QED BY <1>1, <2>1, <2>2
<1>5. \A s, t \in S : Older(K[s], K[t]) => rank[s] > rank[t]
  <2> SUFFICES ASSUME NEW s \in S, NEW t \in S, Older(K[s], K[t])
               PROVE  rank[s] > rank[t]
    OBVIOUS
  <2>1. Newer(t) \cup {t} \subseteq Newer(s)
    BY OlderIsAnOrder
  <2>2. t \notin Newer(t)
    BY <1>3
  <2> HIDE DEF Newer
  <2>3. /\ IsFiniteSet(Newer(t) \cup {t})
        /\ Cardinality(Newer(t) \cup {t}) = Cardinality(Newer(t)) + 1
    BY <1>4, <2>2, FS_AddElement
  <2>4. Cardinality(Newer(t) \cup {t}) <= Cardinality(Newer(s))
    BY <1>4, <2>1, FS_Subset
  <2> QED BY <1>1, <1>4, <2>3, <2>4
<1>6. \A s, t \in S : rank[s] = rank[t] => s = t
  <2> SUFFICES ASSUME NEW s \in S, NEW t \in S, rank[s] = rank[t] PROVE s = t
    OBVIOUS
  <2>1. rank[s] \in 0..(n - 1) /\ rank[t] \in 0..(n - 1)
    BY <1>4
  <2> HIDE DEF rank
  <2>2. ~ Older(K[s], K[t]) /\ ~ Older(K[t], K[s])
    BY <1>1, <1>5, <2>1
  <2> QED BY <2>2, OlderIsAnOrder
<1>7. rank \in Surjection(S, 0..(n - 1))
  <2>1. rank \in [S -> 0..(n - 1)]
    BY <1>4
  <2> HIDE DEF rank, n
  <2>2. rank \in Injection(S, 0..(n - 1))
    BY <1>6, <2>1 DEF Injection, IsInjective
  <2>3. IsFiniteSet(0..(n - 1)) /\ Cardinality(0..(n - 1)) = n
    <3>1. 0 \in Int /\ n - 1 \in Int /\ ~ (0 > n - 1) /\ (n - 1) - 0 + 1 = n
      BY <1>1
    <3> QED BY <3>1, FS_Interval
  <2> QED BY <2>2, <2>3, FS_Injection DEF n
<1>8. \A i \in 0..(n - 1) : \E s \in S : Cardinality(Newer(s)) = i
  <2>1. \A i \in 0..(n - 1) : \E s \in S : rank[s] = i
    BY <1>7 DEF Surjection
  <2>2. \A s \in S : rank[s] = Cardinality(Newer(s))
    OBVIOUS
  <2> HIDE DEF rank, Newer, n
  <2> QED BY <2>1, <2>2
<1>9. \E s \in S : Newer(s) = {}
  <2> HIDE DEF n, Newer
  <2>1. PICK s \in S : Cardinality(Newer(s)) = 0
    BY <1>1, <1>8
  <2> QED BY <1>4, <2>1, FS_EmptySet
<1>10. \E s \in S : Newer(s) = S \ {s}
  <2> HIDE DEF n, Newer
  <2>1. PICK s \in S : Cardinality(Newer(s)) = n - 1
    BY <1>1, <1>8
  <2> QED BY <1>2, <1>3, <2>1, FS_Subset
<1>11. PICK s \in S : Newer(s) = S \ {s}
  BY <1>10
<1>12. \A t \in S \ {s} : Older(K[s], K[t])
  BY <1>11
<1> QED BY <1>9, <1>12

LEMMA NoneIsNoTime ==
    /\ None \notin 0..MaxTime
    /\ \A k \in Cursors : k # None /\ k \in Nat \X Nat
<1>1. None \notin 0..MaxTime /\ 0..MaxTime \subseteq Nat /\ Ids \subseteq Nat
  BY CommunityAssumption
<1>2. Cursors \subseteq Nat \X Nat
  BY <1>1 DEF Cursors
<1> QED BY <1>1, <1>2, CommunityAssumption

\* Approved posts have keys of their own.
LEMMA ApprovedKeys ==
    ASSUME IInv, PostsAreSound
    PROVE  /\ \A s \in Submissions : InState(s, "approved") =>
                  /\ post[s].at \in 0..MaxTime
                  /\ Key(s) \in Cursors
                  /\ Key(s) \in Nat \X Nat
           /\ \A s, t \in Submissions :
                  InState(s, "approved") /\ InState(t, "approved") /\ Key(s) = Key(t)
                     => s = t
<1>1. ASSUME NEW s \in Submissions, InState(s, "approved")
      PROVE  post[s].at \in 0..MaxTime /\ post[s].id \in Ids /\ post[s] # None
  BY <1>1 DEF IInv, PostsAreSound, InState, Posts
<1>2. ASSUME NEW s \in Submissions, InState(s, "approved")
      PROVE  Key(s) \in Cursors /\ Key(s) \in Nat \X Nat
  <2>1. Key(s) \in Cursors
    BY <1>1, <1>2 DEF Key, Cursors
  <2> QED BY <2>1, NoneIsNoTime
<1>3. ASSUME NEW s \in Submissions, NEW t \in Submissions,
             InState(s, "approved"), InState(t, "approved"), Key(s) = Key(t)
      PROVE  s = t
  BY <1>1, <1>3 DEF Key, PostsAreSound
<1> QED BY <1>1, <1>2, <1>3

\* A page is the newest of the rows, and its last row the oldest on it.
LEMMA PageIsNewest ==
    ASSUME IInv, PostsAreSound, NEW rows, rows \subseteq Submissions,
           \A s \in rows : InState(s, "approved")
    PROVE  /\ Newest(rows) \subseteq rows
           /\ IsFiniteSet(Newest(rows)) /\ Cardinality(Newest(rows)) \in Nat
           /\ rows # {} =>
                 LET last == Last(Newest(rows))
                 IN  /\ last \in Newest(rows)
                     /\ \A t \in Newest(rows) \ {last} : Older(Key(last), Key(t))
                     /\ \A t \in rows \ Newest(rows) : Older(Key(t), Key(last))
<1> DEFINE page == Newest(rows)
           Newer(s) == { t \in rows : Older(Key(s), Key(t)) }
           K == [s \in rows |-> Key(s)]
<1>1. page \subseteq rows /\ \A s \in rows : s \in page <=> Cardinality(Newer(s)) < Limit
  BY DEF Newest
<1>2. IsFiniteSet(rows)
  BY FS_Subset, CommunityAssumption
<1>3. IsFiniteSet(page) /\ Cardinality(page) \in Nat
  BY <1>1, <1>2, FS_Subset, FS_CardinalityType
<1>4. \A s \in rows : IsFiniteSet(Newer(s)) /\ Cardinality(Newer(s)) \in Nat
  <2> SUFFICES ASSUME NEW s \in rows
               PROVE  IsFiniteSet(Newer(s)) /\ Cardinality(Newer(s)) \in Nat
    OBVIOUS
  <2>1. Newer(s) \in SUBSET rows
    OBVIOUS
  <2> HIDE DEF Newer
  <2> QED BY <1>2, <2>1, FS_Subset, FS_CardinalityType
<1>5. /\ \A s \in rows : K[s] = Key(s)
      /\ K \in [rows -> Nat \X Nat]
      /\ \A s, t \in rows : K[s] = K[t] => s = t
  BY ApprovedKeys
<1>6. ASSUME rows # {} PROVE page # {}
  <2>1. PICK s \in rows : { t \in rows : Older(K[s], K[t]) } = {}
    <3> HIDE DEF K
    <3> QED BY <1>2, <1>5, <1>6, Extremes
  <2>2. Newer(s) = {}
    BY <1>5, <2>1
  <2>3. Cardinality(Newer(s)) = 0
    BY <2>2, FS_EmptySet
  <2> QED BY <1>1, <2>3, CommunityAssumption
<1>7. ASSUME rows # {}
      PROVE  /\ Last(page) \in page
             /\ \A t \in page \ {Last(page)} : Older(Key(Last(page)), Key(t))
  <2> DEFINE L == [s \in page |-> Key(s)]
  <2>1. /\ \A s \in page : L[s] = Key(s)
        /\ L \in [page -> Nat \X Nat]
        /\ \A s, t \in page : L[s] = L[t] => s = t
    BY <1>1, <1>5
  <2> HIDE DEF L, page, K
  <2>2. PICK s \in page : \A t \in page \ {s} : Older(L[s], L[t])
    BY <1>3, <1>6, <1>7, <2>1, Extremes
  <2>3. \A t \in page \ {s} : Older(Key(s), Key(t))
    BY <2>1, <2>2
  <2> QED BY <2>3 DEF Last
<1>8. ASSUME rows # {}, NEW t \in rows \ page
      PROVE  Older(Key(t), Key(Last(page)))
  <2> DEFINE last == Last(page)
  <2> HIDE DEF page
  <2>1. last \in page /\ last \in rows
    BY <1>1, <1>7, <1>8
  <2>2. Key(t) \in Nat \X Nat /\ Key(last) \in Nat \X Nat /\ Key(t) # Key(last)
    BY <1>5, <1>8, <2>1
  <2>3. ASSUME Older(Key(last), Key(t)) PROVE FALSE
    <3>1. Newer(t) \subseteq Newer(last)
      <4> SUFFICES ASSUME NEW u \in rows, Older(Key(t), Key(u))
                   PROVE  Older(Key(last), Key(u))
        OBVIOUS
      <4> HIDE DEF last
      <4> QED BY <1>5, <2>2, <2>3, OlderIsAnOrder
    <3> HIDE DEF Newer, last
    <3>2. Newer(t) \in SUBSET Newer(last)
      BY <3>1
    <3>3. Cardinality(Newer(t)) <= Cardinality(Newer(last))
      BY <1>4, <2>1, <3>2, FS_Subset
    <3> QED BY <1>1, <1>4, <1>8, <2>1, <3>3, CommunityAssumption
  <2> QED BY <2>2, <2>3, OlderIsAnOrder
<1> QED BY <1>1, <1>3, <1>7, <1>8

\* What may happen to posts: those that were ruled on are ruled on, those among
\* them that are approved have the key they had, and none comes into sight.
PostsKeep ==
    \A s \in Submissions : IsRuled(s) =>
       /\ IsRuled(s)'
       /\ InState(s, "approved")' =>
             InState(s, "approved") /\ post'[s].at = post[s].at /\ Key(s)' = Key(s)
       /\ \A r \in Readers : s \in Visible(r)' => s \in Visible(r)

LEMMA WalkRests ==
    ASSUME PostsKeep, clock \in Nat, clock' \in Nat, clock <= clock',
           NEW r \in Readers, NEW w \in Walks,
           NEW A \in [Slots -> Requests \cup {None}], WalkIsSound(r, w, A)
    PROVE  WalkIsSound(r, w, A)'
<1>1. w.due \in SUBSET Submissions /\ w.seen \in SUBSET Submissions
  BY DEF Walks
<1>2. \A s \in w.due : IsRuled(s)
  BY DEF WalkIsSound
<1>3. ASSUME NEW s \in Submissions, IsRuled(s), InState(s, "approved")'
      PROVE  /\ InState(s, "approved") /\ post'[s].at = post[s].at
             /\ Key(s)' = Key(s)
             /\ \A c : PastCursor(s, c) => PastCursor(s, c)'
             /\ \A c : Remains(s, c) => Remains(s, c)'
             /\ \A c : Older(Key(s), c)' => Older(Key(s), c)
  BY <1>3 DEF PostsKeep, PastCursor, Remains, Older
<1>4. \A s : s \in Owed(r, w)' =>
         /\ s \in Submissions /\ IsRuled(s) /\ InState(s, "approved")'
         /\ s \in Owed(r, w)
  BY <1>1, <1>2, <1>3 DEF Owed, PostsKeep
<1>5. ASSUME NEW q \in Requests, q.page # None, PageIsSound(r, w, q)
      PROVE  PageIsSound(r, w, q)'
  <2>1. q.page.items \in SUBSET Submissions
    BY <1>5 DEF Requests, Pages
  <2>2. \A s \in q.page.items :
           /\ IsRuled(s)'
           /\ InState(s, "approved")' /\ q.page.cursor # None =>
                 ~ Older(Key(s), q.page.cursor)'
    BY <1>3, <1>5, <2>1 DEF PageIsSound, PostsKeep
  <2>3. \A s \in Owed(r, w)' : \/ q.cursor # None /\ s \in w.seen
                               \/ s \in q.page.items
                               \/ Remains(s, q.page.cursor)'
    BY <1>3, <1>4, <1>5 DEF PageIsSound
  <2> QED BY <1>5, <2>2, <2>3 DEF PageIsSound, Older
<1>6. ASSUME NEW q \in Requests, RequestIsSound(r, w, q)
      PROVE  RequestIsSound(r, w, q)'
  <2>1. q.now <= clock'
    <3>1. q.now \in Nat /\ q.now <= clock
      BY <1>6, CommunityAssumption DEF Requests, RequestIsSound
    <3> QED BY <3>1
  <2>2. \A s \in w.due : InState(s, "approved")' => post'[s].at <= q.now
    BY <1>1, <1>2, <1>3, <1>6 DEF RequestIsSound
  <2>3. \A s \in Owed(r, w)' : \/ q.cursor # None /\ s \in w.seen
                               \/ PastCursor(s, q.cursor)'
    BY <1>3, <1>4, <1>6 DEF RequestIsSound
  <2>4. q.page # None => PageIsSound(r, w, q)'
    BY <1>5, <1>6 DEF RequestIsSound
  <2> QED BY <1>6, <2>1, <2>2, <2>3, <2>4 DEF RequestIsSound
<1>7. ASSUME w.state = "ready",
             \A s \in Owed(r, w) : s \in w.seen \/ Remains(s, w.cursor)
      PROVE  \A s \in Owed(r, w)' : s \in w.seen \/ Remains(s, w.cursor)'
  BY <1>3, <1>4, <1>7
<1>8. ASSUME ListIsSound(w, A) PROVE ListIsSound(w, A)'
  <2>1. \A s \in w.seen : IsRuled(s) => IsRuled(s)'
    BY <1>1 DEF PostsKeep
  <2>2. \A s \in w.seen : IsRuled(s) =>
           (/\ InState(s, "approved")' => InState(s, "approved")
            /\ InState(s, "approved")' /\ Older(Key(s), w.cursor)' =>
                  Older(Key(s), w.cursor))
    BY <1>1, <1>3
  <2> QED BY <1>8, <2>1, <2>2 DEF ListIsSound, AtMostOne
<1>9. \A s \in Slots : A[s] # None => A[s] \in Requests
  OBVIOUS
<1>10. \A s \in w.due : IsRuled(s)'
  BY <1>1, <1>2 DEF PostsKeep
<1>11. w.overlap # "anew" =>
          /\ w.state = "ready" =>
                \A s \in Owed(r, w)' : s \in w.seen \/ Remains(s, w.cursor)'
          /\ \A s \in Slots : A[s] # None => RequestIsSound(r, w, A[s])'
          /\ w.state = "loading" => AtMostOne(A)
  <2>1. w.overlap # "anew" =>
           /\ w.state = "ready" =>
                 \A s \in Owed(r, w) : s \in w.seen \/ Remains(s, w.cursor)
           /\ \A s \in Slots : A[s] # None => RequestIsSound(r, w, A[s])
           /\ w.state = "loading" => AtMostOne(A)
    BY DEF WalkIsSound
  <2> QED BY <1>6, <1>7, <1>9, <2>1
<1>12. w.overlap = "none" => ListIsSound(w, A)'
  BY <1>8 DEF WalkIsSound
<1>13. AtMostOne(A) => AtMostOne(A)'
  BY DEF AtMostOne
<1> QED BY <1>10, <1>11, <1>12, <1>13 DEF WalkIsSound

\* Steps that leave the panels alone.
LEMMA WalksRest ==
    ASSUME IInv, IInv', WInv, PostsKeep, clock <= clock', PostsAreSound',
           UNCHANGED reading
    PROVE  WInv'
<1>1. clock \in Nat /\ clock' \in Nat
  BY CommunityAssumption DEF IInv
<1>2. walk' = walk /\ asked' = asked
  BY DEF reading
<1>3. ASSUME NEW r \in Readers PROVE WalkIsSound(r, walk[r], asked[r])'
  <2>1. PICK w \in Walks, A \in [Slots -> Requests \cup {None}] :
           w = walk[r] /\ A = asked[r] /\ WalkIsSound(r, w, A)
    BY DEF WInv
  <2>2. WalkIsSound(r, w, A)'
    BY <1>1, <2>1, WalkRests
  <2>3. w = walk'[r] /\ A = asked'[r]
    BY <1>2, <2>1
  <2> QED BY <2>2, <2>3
<1> QED BY <1>2, <1>3 DEF WInv

LEMMA UnchangedPostsKeep ==
    ASSUME UNCHANGED <<post, current>>
    PROVE  PostsKeep
  BY DEF PostsKeep, IsRuled, InState, Key, Visible

LEMMA InitIsWalked == Init => WInv
<1> SUFFICES ASSUME Init PROVE WInv
  OBVIOUS
<1>1. AtRest \in Walks /\ NothingAsked \in [Slots -> Requests \cup {None}]
  BY DEF AtRest, Walks, NothingAsked
<1>2. \A r \in Readers : WalkIsSound(r, AtRest, NothingAsked)
  BY DEF WalkIsSound, ListIsSound, AtMostOne, AtRest, NothingAsked
<1>3. PostsAreSound
  BY CommunityAssumption DEF Init, PostsAreSound
<1> QED BY <1>1, <1>2, <1>3 DEF Init, WInv

LEMMA TickIsWalked ==
    ASSUME IInv, IInv', WInv, Tick
    PROVE  WInv'
<1>1. clock \in Nat /\ clock' = clock + 1
      /\ UNCHANGED <<post, rulings, deciding, current, reading>>
  BY CommunityAssumption DEF IInv, Tick
<1>2. PostsAreSound'
  <2>1. \A s \in Submissions : post[s] # None /\ post[s].at # None => post[s].at \in Nat
    BY CommunityAssumption DEF IInv, Posts
  <2>2. \A m \in Moderators : deciding[m] # None => deciding[m].at \in Nat
    BY CommunityAssumption DEF IInv, Decidable, Verdicts
  <2> QED BY <1>1, <2>1, <2>2 DEF WInv, PostsAreSound
<1>3. clock <= clock'
  BY <1>1
<1> QED BY <1>1, <1>2, <1>3, UnchangedPostsKeep, WalksRest

\* A correction hides posts and shows those of its own, of which there are none.
LEMMA CorrectIsWalked ==
    ASSUME IInv, IInv', WInv, Correct
    PROVE  WInv'
<1>1. current \in Nat /\ current' = current + 1 /\ current' <= LastVersion
      /\ UNCHANGED <<post, rulings, deciding, clock, reading>>
  BY CommunityAssumption DEF WInv, PostsAreSound, Correct
<1>2. \A s \in Submissions : VersionOf[s] \in Nat
  BY CommunityAssumption
<1>3. PostsAreSound'
  BY <1>1, <1>2, CommunityAssumption DEF WInv, PostsAreSound
<1>4. ASSUME NEW s \in Submissions, IsRuled(s), NEW r \in Readers, s \in Visible(r)'
      PROVE  s \in Visible(r)
  <2>1. VersionOf[s] = current + 1
    BY <1>1, <1>4 DEF Visible
  <2>2. VersionOf[s] <= current
    BY <1>4 DEF WInv, PostsAreSound, IsRuled, InState
  <2> QED BY <1>1, <1>2, <2>1, <2>2
<1>5. PostsKeep
  BY <1>1, <1>4 DEF PostsKeep, IsRuled, InState, Key
<1>6. clock <= clock'
  BY <1>1, CommunityAssumption DEF IInv
<1> QED BY <1>1, <1>3, <1>5, <1>6, WalksRest

LEMMA CreateIsWalked ==
    ASSUME IInv, IInv', WInv, NEW s \in Submissions, NEW i \in Ids, CreatePost(s, i)
    PROVE  WInv'
<1> DEFINE row == [id |-> i, state |-> "held", at |-> None]
<1>1. /\ post[s] = None /\ post'[s] = row /\ VersionOf[s] <= current
      /\ \A t \in Submissions \ {s} : post'[t] = post[t]
      /\ \A t \in Submissions : post[t] # None => post[t].id # i
      /\ UNCHANGED <<rulings, deciding, current, clock, reading>>
  BY DEF CreatePost, IInv
<1>2. row.id = i /\ row.state = "held" /\ row.at = None
  OBVIOUS
<1> HIDE DEF row
<1>3. PostsAreSound'
  BY <1>1, <1>2 DEF WInv, PostsAreSound
<1>4. PostsKeep
  BY <1>1 DEF PostsKeep, IsRuled, InState, Key, Visible
<1>5. clock <= clock'
  BY <1>1, CommunityAssumption DEF IInv
<1> QED BY <1>1, <1>3, <1>4, <1>5, WalksRest

LEMMA BeginIsWalked ==
    ASSUME IInv, IInv', WInv, NEW m \in Moderators, NEW s \in Submissions,
           NEW d \in Decisions, BeginDecision(m, s, d)
    PROVE  WInv'
<1> DEFINE new == [post |-> s, state |-> d, at |-> clock]
<1>1. /\ deciding'[m] = new /\ \A n \in Moderators \ {m} : deciding'[n] = deciding[n]
      /\ UNCHANGED <<post, rulings, current, clock, reading>>
  BY DEF BeginDecision, IInv
<1>2. new.at = clock /\ clock <= clock
  BY CommunityAssumption DEF IInv
<1> HIDE DEF new
<1>3. PostsAreSound'
  BY <1>1, <1>2 DEF WInv, PostsAreSound
<1> QED BY <1>1, <1>2, <1>3, UnchangedPostsKeep, WalksRest

LEMMA DecideIsWalked ==
    ASSUME IInv, IInv', WInv, NEW m \in Moderators, Decide(m)
    PROVE  WInv'
<1> DEFINE d == deciding[m]
           s == d.post
           new == Ruled(post[s], d)
<1>1. /\ d \in Verdicts
      /\ s \in Submissions /\ post[s] \in Posts /\ post[s] # None
      /\ d.at <= clock
  BY DEF IInv, WInv, Decide, Decidable, PostsAreSound, Verdicts
<1>2. /\ Allows(post[s].state, d.state)
      /\ post'[s] = new /\ \A t \in Submissions \ {s} : post'[t] = post[t]
      /\ deciding'[m] = None
      /\ \A n \in Moderators \ {m} : deciding'[n] = deciding[n]
      /\ UNCHANGED <<current, clock, reading>>
  BY <1>1 DEF Decide, IInv
<1>3. /\ new.id = post[s].id /\ new.state = d.state
      /\ new.at = IF d.state = "approved" THEN d.at ELSE None
      /\ d.at # None /\ d.state \in {"approved", "rejected"} /\ new # None
  <2>1. new \in Posts /\ None \notin Posts
    BY <1>1, RuledIsPost, CommunityAssumption
  <2>2. d.at \in 0..MaxTime /\ d.state \in {"approved", "rejected"}
    BY <1>1 DEF Verdicts, Decisions
  <2>3. /\ new.id = post[s].id /\ new.state = d.state
        /\ new.at = IF d.state = "approved" THEN d.at ELSE None
    BY <1>1 DEF Ruled, Posts
  <2> HIDE DEF new, d
  <2> QED BY <2>1, <2>2, <2>3, NoneIsNoTime
<1> HIDE DEF new, d
<1>4. PostsAreSound'
  BY <1>1, <1>2, <1>3 DEF WInv, PostsAreSound
<1>5. PostsKeep
  BY <1>1, <1>2, <1>3 DEF PostsKeep, IsRuled, InState, Key, Allows, Visible
<1>6. clock <= clock'
  BY <1>2, CommunityAssumption DEF IInv
<1> QED BY <1>2, <1>4, <1>5, <1>6, WalksRest

LEMMA RefuseIsWalked ==
    ASSUME IInv, IInv', WInv, NEW m \in Moderators, Refuse(m)
    PROVE  WInv'
<1>1. /\ deciding'[m] = None
      /\ \A n \in Moderators \ {m} : deciding'[n] = deciding[n]
      /\ UNCHANGED <<post, rulings, current, clock, reading>>
  BY DEF Refuse, IInv
<1>2. PostsAreSound'
  BY <1>1 DEF WInv, PostsAreSound
<1>3. clock <= clock'
  BY <1>1, CommunityAssumption DEF IInv
<1> QED BY <1>1, <1>2, <1>3, UnchangedPostsKeep, WalksRest

\* Steps of one reader's panel.
LEMMA OnePanelMoves ==
    ASSUME IInv, IInv', WInv, UNCHANGED tables, NEW r \in Readers, NEW w \in Walks,
           NEW A \in [Slots -> Requests \cup {None}], WalkIsSound(r, w, A),
           walk' = [walk EXCEPT ![r] = w], asked' = [asked EXCEPT ![r] = A]
    PROVE  WInv'
<1>1. UNCHANGED <<post, current, deciding, clock>>
  BY DEF tables
<1>2. clock \in Nat /\ clock' \in Nat /\ clock <= clock'
  BY <1>1, CommunityAssumption DEF IInv
<1>3. PostsKeep
  BY <1>1, UnchangedPostsKeep
<1>4. PostsAreSound'
  BY <1>1 DEF WInv, PostsAreSound
<1>5. /\ walk' \in [Readers -> Walks]
      /\ asked' \in [Readers -> [Slots -> Requests \cup {None}]]
  BY DEF WInv
<1>6. ASSUME NEW u \in Readers PROVE WalkIsSound(u, walk[u], asked[u])'
  <2>1. PICK v \in Walks, B \in [Slots -> Requests \cup {None}] :
           v = walk'[u] /\ B = asked'[u]
    BY <1>5
  <2>2. WalkIsSound(u, v, B)
    BY <2>1 DEF WInv
  <2>3. WalkIsSound(u, v, B)'
    BY <1>2, <1>3, <2>2, WalkRests
  <2> QED BY <2>1, <2>3
<1> QED BY <1>4, <1>5, <1>6 DEF WInv

LEMMA LeaveIsWalked ==
    ASSUME IInv, IInv', WInv, NEW r \in Readers, LeavePanel(r)
    PROVE  WInv'
<1>1. AtRest \in Walks /\ NothingAsked \in [Slots -> Requests \cup {None}]
  BY DEF AtRest, Walks, NothingAsked
<1>2. WalkIsSound(r, AtRest, NothingAsked)
  BY DEF WalkIsSound, ListIsSound, AtMostOne, AtRest, NothingAsked
<1> QED BY <1>1, <1>2, OnePanelMoves DEF LeavePanel

\* A list that is asked for with nothing under way owes what is approved.
LEMMA OpenIsWalked ==
    ASSUME IInv, IInv', WInv, NEW r \in Readers, OpenPanel(r)
    PROVE  WInv'
<1>1. PICK s \in Slots : Ask(r, s, None)
  BY Zenon DEF OpenPanel
<1>2. PICK old \in Walks, B \in [Slots -> Requests \cup {None}] :
         old = walk[r] /\ B = asked[r]
  BY DEF WInv
<1>3. PICK due \in SUBSET Submissions :
         due = {t \in Submissions : InState(t, "approved")}
  OBVIOUS
<1>4. PICK overlap \in {"anew", "none"} :
         overlap = IF Busy(r) THEN "anew" ELSE "none"
  BY Zenon
<1>5. clock \in 0..MaxTime /\ clock <= clock
  BY CommunityAssumption DEF IInv
<1> DEFINE q == [cursor |-> None, now |-> clock, page |-> None]
           A == [B EXCEPT ![s] = q]
           w == [old EXCEPT !.state = "loading", !.due = due, !.overlap = overlap]
<1>6. walk' = [walk EXCEPT ![r] = w] /\ asked' = [asked EXCEPT ![r] = A]
  <2>1. walk' = [walk EXCEPT ![r].state = "loading", ![r].due = due,
                             ![r].overlap = overlap]
    BY <1>3, <1>4, Zenon DEF OpenPanel
  <2>2. asked' = [asked EXCEPT ![r][s] = q]
    BY <1>1 DEF Ask
  <2> QED BY <1>2, <2>1, <2>2 DEF WInv
<1>7. UNCHANGED tables
  BY Zenon DEF OpenPanel
<1>8. w \in Walks /\ A \in [Slots -> Requests \cup {None}]
  BY <1>5 DEF Walks, Requests
<1>9. w.state = "loading" /\ w.due = due /\ w.overlap = overlap
      /\ q.cursor = None /\ q.now = clock /\ q.page = None
      /\ A[s] = q /\ \A t \in Slots : t # s => A[t] = B[t]
  BY DEF Walks
<1> HIDE DEF q, A, w
<1>10. \A t \in due : IsRuled(t) /\ post[t].at <= clock
  BY <1>3 DEF WInv, PostsAreSound, InState, IsRuled
<1>11. overlap # "anew" => \A t \in Slots : A[t] # None => t = s
  BY <1>2, <1>4, <1>9 DEF Busy
<1>12. RequestIsSound(r, w, q)
  BY <1>5, <1>9, <1>10 DEF RequestIsSound, PastCursor
<1>13. WalkIsSound(r, w, A)
  <2>1. overlap # "anew" => AtMostOne(A)
    BY <1>11 DEF AtMostOne
  <2>2. overlap # "anew" => \A t \in Slots : A[t] # None => RequestIsSound(r, w, A[t])
    BY <1>9, <1>11, <1>12
  <2>3. overlap = "none" => ListIsSound(w, A)
    BY <1>9, <1>11, <2>1 DEF ListIsSound
  <2> QED BY <1>9, <1>10, <2>1, <2>2, <2>3 DEF WalkIsSound
<1> QED BY <1>6, <1>7, <1>8, <1>13, OnePanelMoves

\* A further page is asked for from where the list is complete.
LEMMA LoadMoreIsWalked ==
    ASSUME IInv, IInv', WInv, NEW r \in Readers, LoadMore(r)
    PROVE  WInv'
<1>1. PICK old \in Walks, B \in [Slots -> Requests \cup {None}] :
         old = walk[r] /\ B = asked[r] /\ WalkIsSound(r, old, B)
  BY DEF WInv
<1>2. old.cursor # None /\ old.cursor \in Cursors
  BY <1>1 DEF LoadMore, Walks
<1>3. PICK s \in Slots : Ask(r, s, old.cursor)
  BY <1>1 DEF LoadMore
<1>4. PICK overlap \in {"none", "more", "anew"} :
         overlap = IF old.state # "ready" THEN "anew"
                   ELSE IF old.overlap = "none" /\ Busy(r) THEN "more"
                   ELSE old.overlap
  BY DEF Walks
<1>5. clock \in 0..MaxTime /\ clock <= clock
  BY CommunityAssumption DEF IInv
<1> DEFINE q == [cursor |-> old.cursor, now |-> clock, page |-> None]
           A == [B EXCEPT ![s] = q]
           w == [old EXCEPT !.overlap = overlap]
<1>6. walk' = [walk EXCEPT ![r] = w] /\ asked' = [asked EXCEPT ![r] = A]
      /\ UNCHANGED tables
  BY <1>1, <1>3, <1>4 DEF LoadMore, Ask, WInv
<1>7. w \in Walks /\ A \in [Slots -> Requests \cup {None}]
  BY <1>2, <1>5 DEF Walks, Requests
<1>8. /\ w.state = old.state /\ w.seen = old.seen /\ w.shown = old.shown
      /\ w.cursor = old.cursor /\ w.due = old.due /\ w.overlap = overlap
      /\ q.cursor = old.cursor /\ q.now = clock /\ q.page = None
      /\ A[s] = q /\ \A t \in Slots : t # s => A[t] = B[t]
  BY DEF Walks
<1> HIDE DEF q, A, w
<1>9. Owed(r, w) = Owed(r, old)
  BY <1>8 DEF Owed
<1>10. ASSUME NEW x, RequestIsSound(r, old, x) PROVE RequestIsSound(r, w, x)
  BY <1>8, <1>9, <1>10 DEF RequestIsSound, PageIsSound
<1>11. ASSUME overlap # "anew" PROVE old.state = "ready" /\ old.overlap # "anew"
  BY <1>4, <1>11
<1>12. ASSUME overlap # "anew" PROVE RequestIsSound(r, w, q)
  <2>1. \A t \in Owed(r, old) : t \in old.seen \/ Remains(t, old.cursor)
    BY <1>1, <1>11, <1>12 DEF WalkIsSound
  <2>2. \A t \in w.due : InState(t, "approved") => post[t].at <= clock
    BY <1>7 DEF WInv, PostsAreSound, InState, Walks
  <2>3. \A t \in Owed(r, w) : t \in w.seen \/ PastCursor(t, q.cursor)
    BY <1>8, <1>9, <2>1 DEF Remains
  <2>4. w.state = "ready" /\ q.cursor # None
    BY <1>2, <1>8, <1>11, <1>12
  <2> QED BY <1>5, <1>8, <2>2, <2>3, <2>4 DEF RequestIsSound
<1>13. overlap # "anew" => \A t \in Slots : A[t] # None => RequestIsSound(r, w, A[t])
  <2>1. overlap # "anew" => \A t \in Slots : B[t] # None => RequestIsSound(r, old, B[t])
    BY <1>1, <1>11 DEF WalkIsSound
  <2> QED BY <1>8, <1>10, <1>12, <2>1
<1>14. ASSUME overlap = "none" PROVE ListIsSound(w, A)
  <2>1. old.overlap = "none" /\ \A t \in Slots : B[t] = None
    BY <1>1, <1>4, <1>14 DEF Busy
  <2>2. ListIsSound(old, B)
    BY <1>1, <2>1 DEF WalkIsSound
  <2>3. \A t \in Slots : A[t] # None => t = s /\ A[t].cursor = w.cursor /\ A[t].page = None
    BY <1>8, <2>1
  <2>4. AtMostOne(A)
    BY <2>3 DEF AtMostOne
  <2> QED BY <1>8, <2>2, <2>3, <2>4 DEF ListIsSound
<1>15. WalkIsSound(r, w, A)
  <2>1. \A t \in w.due : IsRuled(t)
    BY <1>1, <1>8 DEF WalkIsSound
  <2>2. overlap # "anew" =>
           \A t \in Owed(r, w) : t \in w.seen \/ Remains(t, w.cursor)
    <3>1. old.overlap # "anew" /\ old.state = "ready" =>
             \A t \in Owed(r, old) : t \in old.seen \/ Remains(t, old.cursor)
      BY <1>1 DEF WalkIsSound
    <3> QED BY <1>8, <1>9, <1>11, <3>1
  <2> QED BY <1>8, <1>11, <1>13, <1>14, <2>1, <2>2 DEF WalkIsSound
<1> QED BY <1>6, <1>7, <1>15, OnePanelMoves

\* The query's page: what its list owes is shown, on this page or left for a
\* further one; nothing on it was shown before, and its cursor is its oldest row.
LEMMA QueryIsSound ==
    ASSUME IInv, WInv, NEW r \in Readers, NEW w \in Walks, NEW q \in Requests,
           RequestIsSound(r, w, q), q.page = None,
           NEW now \in q.now..clock, NEW rows, rows = Rows(r, q.cursor, now)
    PROVE  /\ Page(rows) \in Pages
           /\ \A q2 : q2.page = Page(rows) /\ q2.cursor = q.cursor =>
                         PageIsSound(r, w, q2)
           /\ \A s \in Page(rows).items : IsRuled(s) /\ PastCursor(s, q.cursor)
<1>1. \A s \in Submissions :
         s \in rows <=> /\ s \in Visible(r)
                       /\ InState(s, "approved")
                       /\ post[s].at <= now
                       /\ PastCursor(s, q.cursor)
  BY DEF Rows, Visible
<1>2. rows \in SUBSET Submissions
  BY DEF Rows, Visible
<1>3. PostsAreSound
  BY DEF WInv
<1>4. PICK page \in SUBSET rows : page = Newest(rows)
  BY DEF Newest
<1>5. PICK last : last = Last(page)
  OBVIOUS
<1>6. rows # {} =>
         /\ last \in page
         /\ \A t \in page \ {last} : Older(Key(last), Key(t))
         /\ \A t \in rows \ page : Older(Key(t), Key(last))
  BY <1>1, <1>2, <1>3, <1>4, <1>5, PageIsNewest
<1>7. \A s \in Submissions : InState(s, "approved") =>
         Key(s) \in Cursors /\ Key(s) \in Nat \X Nat /\ Key(s) # None
  BY <1>3, ApprovedKeys, NoneIsNoTime
<1>8. page # rows => last \in page /\ last \in Submissions /\ InState(last, "approved")
  BY <1>1, <1>2, <1>6
<1>9. PICK cursor \in Cursors \cup {None} :
         cursor = IF page # rows THEN Key(last) ELSE None
  BY <1>7, <1>8
<1>10. PICK p \in Pages : p = [items |-> page, cursor |-> cursor]
  BY <1>2 DEF Pages
<1>11. Page(rows) = p /\ p.items = page /\ p.cursor = cursor
  BY <1>4, <1>5, <1>9, <1>10 DEF Page
<1>12. ASSUME NEW s \in page, cursor # None PROVE ~ Older(Key(s), cursor)
  <2>1. page # rows /\ cursor = Key(last) /\ last \in page
    BY <1>8, <1>9, <1>12
  <2>2. s = last \/ Older(Key(last), Key(s))
    BY <1>6, <2>1
  <2>3. Key(s) \in Nat \X Nat /\ Key(last) \in Nat \X Nat
    BY <1>1, <1>2, <1>7, <2>1
  <2> QED BY <2>1, <2>2, <2>3, OlderIsAnOrder
<1>13. cursor # None /\ q.cursor # None => Older(cursor, q.cursor)
  BY <1>1, <1>8, <1>9 DEF PastCursor
<1>14. ASSUME NEW s \in Owed(r, w)
       PROVE  \/ q.cursor # None /\ s \in w.seen
              \/ s \in page
              \/ Remains(s, cursor)
  <2>1. s \in Submissions /\ s \in w.due /\ s \in Visible(r) /\ InState(s, "approved")
    BY DEF Owed, Visible
  <2>2. \/ q.cursor # None /\ s \in w.seen
        \/ PastCursor(s, q.cursor)
    BY DEF RequestIsSound
  <2>3. post[s].at <= now
    <3>1. post[s].at <= q.now /\ q.now \in Nat /\ now \in Nat /\ q.now <= now
      BY <2>1, CommunityAssumption DEF RequestIsSound, Requests, IInv
    <3>2. post[s].at \in Nat
      BY <1>3, <2>1, ApprovedKeys, CommunityAssumption
    <3> QED BY <3>1, <3>2
  <2>4. s \in rows \/ (q.cursor # None /\ s \in w.seen)
    BY <1>1, <2>1, <2>2, <2>3
  <2>5. ASSUME s \in rows, s \notin page PROVE Remains(s, cursor)
    <3>1. page # rows /\ cursor = Key(last) /\ cursor # None
      BY <1>7, <1>8, <1>9, <2>5
    <3>2. Older(Key(s), Key(last))
      BY <1>6, <2>5
    <3> QED BY <3>1, <3>2 DEF Remains, PastCursor
  <2> QED BY <2>4, <2>5
<1>15. \A s \in page : IsRuled(s) /\ PastCursor(s, q.cursor)
  BY <1>1, <1>2 DEF IsRuled
<1>16. ASSUME NEW q2, q2.page = p, q2.cursor = q.cursor
       PROVE  PageIsSound(r, w, q2)
  BY <1>11, <1>12, <1>13, <1>14, <1>15, <1>16 DEF PageIsSound
<1> QED BY <1>11, <1>15, <1>16

LEMMA ListIsWalked ==
    ASSUME IInv, IInv', WInv, NEW r \in Readers, NEW s \in Slots, ListPosts(r, s)
    PROVE  WInv'
<1>1. PICK w \in Walks, B \in [Slots -> Requests \cup {None}] :
         w = walk[r] /\ B = asked[r] /\ WalkIsSound(r, w, B)
  BY DEF WInv
<1>2. PICK q \in Requests : q = B[s] /\ q # None /\ q.page = None
  BY <1>1 DEF ListPosts
<1>3. PICK now \in q.now..clock :
         asked' = [asked EXCEPT ![r][s].page = Page(Rows(r, q.cursor, now))]
  BY <1>1, <1>2 DEF ListPosts
<1>4. PICK rows : rows = Rows(r, q.cursor, now)
  OBVIOUS
<1>5. PICK page : page = Page(rows)
  OBVIOUS
<1> DEFINE q2 == [q EXCEPT !.page = page]
           A == [B EXCEPT ![s] = q2]
<1>6. asked' = [asked EXCEPT ![r] = A]
  BY <1>1, <1>2, <1>3, <1>4, <1>5 DEF WInv
<1>7. walk' = [walk EXCEPT ![r] = w] /\ UNCHANGED tables
  BY <1>1 DEF ListPosts, WInv
<1>8. q2.cursor = q.cursor /\ q2.now = q.now /\ q2.page = page
      /\ A[s] = q2 /\ \A t \in Slots : t # s => A[t] = B[t]
  BY DEF Requests
<1>9. page \in Pages
  <2>1. page = [items |-> page.items, cursor |-> page.cursor]
    BY <1>5 DEF Page
  <2>2. rows \in SUBSET Submissions /\ \A t \in rows : InState(t, "approved")
    BY <1>4 DEF Rows, Visible
  <2>3. PICK items : items = Newest(rows)
    OBVIOUS
  <2>4. items \in SUBSET rows /\ (items # rows => Last(items) \in items)
    <3>1. items \in SUBSET rows
      BY <2>3 DEF Newest
    <3>2. rows # {} => Last(items) \in items
      BY <2>2, <2>3, PageIsNewest DEF WInv
    <3> QED BY <3>1, <3>2
  <2>5. items # rows => Key(Last(items)) \in Cursors
    BY <2>2, <2>4, ApprovedKeys DEF WInv
  <2>6. page.items = items /\ page.cursor \in Cursors \cup {None}
    BY <1>5, <2>3, <2>5 DEF Page
  <2> QED BY <2>1, <2>2, <2>4, <2>6 DEF Pages
<1>10. A \in [Slots -> Requests \cup {None}]
  BY <1>9 DEF Requests
<1> HIDE DEF A, q2
<1>11. ASSUME RequestIsSound(r, w, q)
       PROVE  /\ RequestIsSound(r, w, q2)
              /\ \A t \in page.items : IsRuled(t) /\ PastCursor(t, q.cursor)
  <2>1. /\ PageIsSound(r, w, q2)
        /\ \A t \in page.items : IsRuled(t) /\ PastCursor(t, q.cursor)
    BY <1>2, <1>4, <1>5, <1>8, <1>11, QueryIsSound
  <2> QED BY <1>8, <1>11, <2>1 DEF RequestIsSound
<1>12. w.overlap # "anew" => \A t \in Slots : A[t] # None => RequestIsSound(r, w, A[t])
  <2>1. w.overlap # "anew" => \A t \in Slots : B[t] # None => RequestIsSound(r, w, B[t])
    BY <1>1 DEF WalkIsSound
  <2> QED BY <1>2, <1>8, <1>11, <2>1
<1>13. ASSUME NEW t \in Slots, A[t] # None
       PROVE  B[t] # None /\ A[t].cursor = B[t].cursor
  BY <1>2, <1>8, <1>13
<1>14. AtMostOne(B) => AtMostOne(A)
  BY <1>13 DEF AtMostOne
<1>15. ASSUME w.overlap = "none" PROVE ListIsSound(w, A)
  <2>1. ListIsSound(w, B) /\ AtMostOne(B) /\ RequestIsSound(r, w, q)
    BY <1>1, <1>2, <1>15 DEF WalkIsSound, ListIsSound
  <2>2. ASSUME q.cursor # None PROVE page.items \cap w.seen = {}
    <3>1. q.cursor = w.cursor /\ w.state = "ready"
      BY <1>2, <2>1, <2>2 DEF ListIsSound, RequestIsSound
    <3>2. \A t \in w.seen : InState(t, "approved") => ~ Older(Key(t), w.cursor)
      BY <2>1, <2>2, <3>1 DEF ListIsSound
    <3>3. \A t \in page.items : InState(t, "approved") /\ Older(Key(t), w.cursor)
      <4>1. page.items \in SUBSET rows
        BY <1>5 DEF Page, Newest
      <4> QED BY <1>4, <2>2, <3>1, <4>1 DEF Rows, PastCursor
    <3> QED BY <3>2, <3>3
  <2>3. \A t \in Slots : A[t] # None /\ A[t].cursor # None =>
           /\ A[t].cursor = w.cursor
           /\ A[t].page # None => A[t].page.items \cap w.seen = {}
    <3>1. \A t \in Slots : B[t] # None /\ B[t].cursor # None =>
             /\ B[t].cursor = w.cursor
             /\ B[t].page # None => B[t].page.items \cap w.seen = {}
      BY <2>1 DEF ListIsSound
    <3> QED BY <1>2, <1>8, <2>2, <3>1
  <2> QED BY <1>14, <2>1, <2>3 DEF ListIsSound
<1>16. WalkIsSound(r, w, A)
  <2>1. /\ \A t \in w.due : IsRuled(t)
        /\ w.overlap # "anew" =>
              /\ w.state = "ready" =>
                    \A t \in Owed(r, w) : t \in w.seen \/ Remains(t, w.cursor)
              /\ w.state = "loading" => AtMostOne(B)
    BY <1>1 DEF WalkIsSound
  <2> QED BY <1>12, <1>14, <1>15, <2>1 DEF WalkIsSound
<1> QED BY <1>6, <1>7, <1>10, <1>16, OnePanelMoves

\* Nothing is under way any more once the one request that was is settled.
LEMMA SettledIsNone ==
    ASSUME NEW B, AtMostOne(B), NEW s \in Slots, B[s] # None,
           NEW A, A[s] = None, \A t \in Slots : t # s => A[t] = B[t]
    PROVE  \A t \in Slots : A[t] = None
  BY DEF AtMostOne

\* The answer to the only first page under way: the list is what it holds.
LEMMA FirstPageIsSound ==
    ASSUME NEW r \in Readers, NEW w \in Walks, NEW w2 \in Walks, NEW q \in Requests,
           NEW A, NEW B, NEW s \in Slots, q = B[s], q # None, q.page # None,
           q.cursor = None, WalkIsSound(r, w, B),
           A[s] = None, \A t \in Slots : t # s => A[t] = B[t],
           w2.state = "ready", w2.cursor = q.page.cursor, w2.seen = q.page.items,
           w2.shown = Cardinality(q.page.items), w2.due = w.due,
           w2.overlap = w.overlap
    PROVE  WalkIsSound(r, w2, A)
<1>1. \A t \in w2.due : IsRuled(t)
  BY DEF WalkIsSound
<1>2. ASSUME w.overlap # "anew"
      PROVE  /\ \A t \in Slots : A[t] = None
             /\ PageIsSound(r, w, q)
  <2>1. RequestIsSound(r, w, q)
    BY <1>2 DEF WalkIsSound
  <2>2. w.state = "loading" /\ PageIsSound(r, w, q)
    BY <2>1 DEF RequestIsSound
  <2>3. AtMostOne(B)
    BY <1>2, <2>2 DEF WalkIsSound
  <2> QED BY <2>2, <2>3, SettledIsNone
<1>3. Owed(r, w2) = Owed(r, w)
  BY DEF Owed
<1>4. ASSUME w.overlap # "anew"
      PROVE  \A t \in Owed(r, w2) : t \in w2.seen \/ Remains(t, w2.cursor)
  BY <1>2, <1>3, <1>4 DEF PageIsSound
<1>5. ASSUME w.overlap # "anew" PROVE ListIsSound(w2, A)
  <2>1. AtMostOne(A)
    BY <1>2, <1>5 DEF AtMostOne
  <2>2. \A t \in w2.seen :
           /\ IsRuled(t)
           /\ InState(t, "approved") /\ w2.cursor # None => ~ Older(Key(t), w2.cursor)
    BY <1>2, <1>5 DEF PageIsSound
  <2> QED BY <1>2, <1>5, <2>1, <2>2 DEF ListIsSound
<1> QED BY <1>1, <1>2, <1>4, <1>5 DEF WalkIsSound

\* The answer to a request for a further page: what it holds is added.
LEMMA FurtherPageIsSound ==
    ASSUME IInv, PostsAreSound,
           NEW r \in Readers, NEW w \in Walks, NEW w2 \in Walks, NEW q \in Requests,
           NEW A, NEW B, NEW s \in Slots, q = B[s], q # None, q.page # None,
           q.cursor # None, WalkIsSound(r, w, B),
           A[s] = None, \A t \in Slots : t # s => A[t] = B[t],
           w2.state = w.state, w2.cursor = q.page.cursor,
           w2.seen = w.seen \cup q.page.items,
           w2.shown = w.shown + Cardinality(q.page.items), w2.due = w.due,
           w2.overlap = w.overlap
    PROVE  WalkIsSound(r, w2, A)
<1>1. \A t \in w2.due : IsRuled(t)
  BY DEF WalkIsSound
<1>2. Owed(r, w2) = Owed(r, w)
  BY DEF Owed
<1>3. \A t \in Slots : A[t] # None => A[t] = B[t]
  OBVIOUS
<1>4. ASSUME w.overlap # "anew"
      PROVE  /\ w.state = "ready"
             /\ PageIsSound(r, w, q)
  <2>1. RequestIsSound(r, w, q)
    BY <1>4 DEF WalkIsSound
  <2> QED BY <2>1 DEF RequestIsSound
<1>5. ASSUME w.overlap # "anew"
      PROVE  \A t \in Owed(r, w2) : t \in w2.seen \/ Remains(t, w2.cursor)
  BY <1>2, <1>4, <1>5 DEF PageIsSound
<1>6. ASSUME NEW x, RequestIsSound(r, w, x) PROVE RequestIsSound(r, w2, x)
  <2>1. PageIsSound(r, w, x) => PageIsSound(r, w2, x)
    BY <1>2 DEF PageIsSound
  <2>2. \A t \in Owed(r, w2) : \/ x.cursor # None /\ t \in w2.seen
                               \/ PastCursor(t, x.cursor)
    BY <1>2, <1>6 DEF RequestIsSound
  <2> QED BY <1>6, <2>1, <2>2 DEF RequestIsSound
<1>7. ASSUME w.overlap # "anew"
      PROVE  \A t \in Slots : A[t] # None => RequestIsSound(r, w2, A[t])
  <2>1. \A t \in Slots : B[t] # None => RequestIsSound(r, w, B[t])
    BY <1>7 DEF WalkIsSound
  <2> QED BY <1>3, <1>6, <2>1
<1>8. ASSUME w.overlap = "none" PROVE ListIsSound(w2, A)
  <2>1. ListIsSound(w, B)
    BY <1>8 DEF WalkIsSound
  <2>2. \A t \in Slots : A[t] = None
    BY <2>1, SettledIsNone DEF ListIsSound
  <2>3. /\ w.state = "ready"
        /\ w.shown = Cardinality(w.seen)
        /\ q.cursor = w.cursor
        /\ q.page.items \cap w.seen = {}
    BY <1>4, <1>8, <2>1 DEF ListIsSound
  <2>4. q.page.items \in SUBSET Submissions /\ w.seen \in SUBSET Submissions
    BY DEF Requests, Pages, Walks
  <2>5. w2.shown = Cardinality(w2.seen)
    <3> DEFINE items == q.page.items
               seen == w.seen
    <3>1. w2.shown = Cardinality(seen) + Cardinality(items) /\ w2.seen = seen \cup items
      BY <2>3
    <3>2. seen \cap items = {} /\ items \in SUBSET Submissions /\ seen \in SUBSET Submissions
      BY <2>3, <2>4
    <3> HIDE DEF items, seen
    <3>3. IsFiniteSet(seen) /\ IsFiniteSet(items)
      BY <3>2, FS_Subset, CommunityAssumption
    <3>4. Cardinality(seen \cap items) = 0
      BY <3>2, FS_EmptySet
    <3>5. Cardinality(seen \cup items)
             = Cardinality(seen) + Cardinality(items) - Cardinality(seen \cap items)
      BY <3>3, FS_Union
    <3>6. Cardinality(seen) \in Nat /\ Cardinality(items) \in Nat
      BY <3>3, FS_CardinalityType
    <3>7. Cardinality(w2.seen) = Cardinality(seen \cup items)
      BY <3>1
    <3>8. Cardinality(seen \cup items) = Cardinality(seen) + Cardinality(items)
      BY <3>4, <3>5, <3>6
    <3> QED BY <3>1, <3>7, <3>8
  <2>6. ASSUME NEW t \in w2.seen
        PROVE  /\ IsRuled(t)
               /\ InState(t, "approved") /\ w2.cursor # None =>
                     ~ Older(Key(t), w2.cursor)
    <3>1. CASE t \in q.page.items
      BY <1>4, <1>8, <3>1 DEF PageIsSound
    <3>2. CASE t \in w.seen
      <4>1. /\ IsRuled(t)
            /\ InState(t, "approved") => ~ Older(Key(t), q.cursor)
        BY <2>1, <2>3, <3>2 DEF ListIsSound
      <4>2. ASSUME InState(t, "approved"), w2.cursor # None
            PROVE  ~ Older(Key(t), w2.cursor)
        <5>1. Older(w2.cursor, q.cursor)
          BY <1>4, <1>8, <4>2 DEF PageIsSound
        <5>2. w2.cursor \in Cursors /\ q.cursor \in Cursors
          BY <4>2 DEF Walks, Requests
        <5>3. w2.cursor \in Nat \X Nat /\ q.cursor \in Nat \X Nat
          BY <5>2, NoneIsNoTime
        <5>4. Key(t) \in Nat \X Nat
          BY <2>4, <3>2, <4>2, ApprovedKeys
        <5> QED BY <4>1, <4>2, <5>1, <5>3, <5>4, OlderIsAnOrder
      <4> QED BY <4>1, <4>2
    <3> QED BY <3>1, <3>2
  <2>7. AtMostOne(A)
    BY <2>2 DEF AtMostOne
  <2> QED BY <2>2, <2>5, <2>6, <2>7 DEF ListIsSound
<1> QED BY <1>1, <1>4, <1>5, <1>7, <1>8 DEF WalkIsSound

LEMMA ShowIsWalked ==
    ASSUME IInv, IInv', WInv, NEW r \in Readers, NEW s \in Slots, ShowPosts(r, s)
    PROVE  WInv'
<1>1. PICK w \in Walks, B \in [Slots -> Requests \cup {None}] :
         w = walk[r] /\ B = asked[r] /\ WalkIsSound(r, w, B)
  BY DEF WInv
<1>2. PICK q \in Requests : q = B[s] /\ q # None /\ q.page # None
  BY <1>1 DEF ShowPosts
<1>3. PICK page \in Pages : page = q.page
  BY <1>2 DEF Requests
<1>4. PICK number \in Nat : number = Cardinality(page.items)
  <2>1. page.items \in SUBSET Submissions
    BY DEF Pages
  <2>2. IsFiniteSet(page.items)
    BY <2>1, FS_Subset, CommunityAssumption
  <2> QED BY <2>2, FS_CardinalityType
<1> DEFINE first == q.cursor = None
           w2 == [w EXCEPT
                    !.state = IF first THEN "ready" ELSE @,
                    !.cursor = page.cursor,
                    !.seen = IF first THEN page.items ELSE @ \cup page.items,
                    !.shown = IF first THEN number ELSE @ + number]
           A == [B EXCEPT ![s] = None]
<1>5. walk' = [walk EXCEPT ![r] = w2]
  <2>1. walk' = [walk EXCEPT
                    ![r].state = IF first THEN "ready" ELSE @,
                    ![r].cursor = page.cursor,
                    ![r].seen = IF first THEN page.items ELSE @ \cup page.items,
                    ![r].shown = IF first THEN number ELSE @ + number]
    BY <1>1, <1>2, <1>3, <1>4 DEF ShowPosts
  <2> QED BY <1>1, <2>1 DEF WInv
<1>6. asked' = [asked EXCEPT ![r] = A] /\ UNCHANGED tables
  BY <1>1 DEF ShowPosts, WInv
<1>7. w2 \in Walks
  <2>1. page.items \in SUBSET Submissions /\ page.cursor \in Cursors \cup {None}
    BY DEF Pages
  <2>2. PICK state \in {"idle", "loading", "ready", "failed"} :
           state = IF first THEN "ready" ELSE w.state
    BY DEF Walks
  <2>3. PICK seen \in SUBSET Submissions :
           seen = IF first THEN page.items ELSE w.seen \cup page.items
    BY <2>1 DEF Walks
  <2>4. PICK shown \in Nat : shown = IF first THEN number ELSE w.shown + number
    BY DEF Walks
  <2>5. w2 = [w EXCEPT !.state = state, !.cursor = page.cursor,
                       !.seen = seen, !.shown = shown]
    BY <2>2, <2>3, <2>4
  <2> HIDE DEF w2, first
  <2> QED BY <2>1, <2>5 DEF Walks
<1>8. A \in [Slots -> Requests \cup {None}] /\ A[s] = None
      /\ \A t \in Slots : t # s => A[t] = B[t]
  OBVIOUS
<1>9. /\ w2.state = IF first THEN "ready" ELSE w.state
      /\ w2.cursor = q.page.cursor
      /\ w2.seen = IF first THEN q.page.items ELSE w.seen \cup q.page.items
      /\ w2.shown = IF first THEN Cardinality(q.page.items)
                    ELSE w.shown + Cardinality(q.page.items)
      /\ w2.due = w.due /\ w2.overlap = w.overlap
  BY <1>3, <1>4 DEF Walks
<1> HIDE DEF w2, A
<1>10. PostsAreSound
  BY DEF WInv
<1>11. WalkIsSound(r, w2, A)
  <2>1. CASE q.cursor = None
    BY <2>1, <1>1, <1>2, <1>7, <1>8, <1>9, FirstPageIsSound
  <2>2. CASE q.cursor # None
    BY <2>2, <1>1, <1>2, <1>7, <1>8, <1>9, <1>10, FurtherPageIsSound
  <2> QED BY <2>1, <2>2
<1> QED BY <1>5, <1>6, <1>7, <1>8, <1>11, OnePanelMoves

LEMMA FailIsWalked ==
    ASSUME IInv, IInv', WInv, NEW r \in Readers, NEW s \in Slots, LoadFails(r, s)
    PROVE  WInv'
<1>1. PICK w \in Walks, B \in [Slots -> Requests \cup {None}] :
         w = walk[r] /\ B = asked[r] /\ WalkIsSound(r, w, B)
  BY DEF WInv
<1>2. PICK q \in Requests : q = B[s] /\ q # None
  BY <1>1 DEF LoadFails
<1> DEFINE w2 == [w EXCEPT !.state = IF q.cursor = None THEN "failed" ELSE @]
           A == [B EXCEPT ![s] = None]
<1>3. /\ walk' = [walk EXCEPT ![r] = w2]
      /\ asked' = [asked EXCEPT ![r] = A] /\ UNCHANGED tables
  BY <1>1, <1>2 DEF LoadFails, WInv
<1>4. w2 \in Walks /\ A \in [Slots -> Requests \cup {None}] /\ A[s] = None
      /\ \A t \in Slots : t # s => A[t] = B[t]
  BY DEF Walks
<1>5. /\ w2.state = IF q.cursor = None THEN "failed" ELSE w.state
      /\ w2.cursor = w.cursor /\ w2.seen = w.seen /\ w2.shown = w.shown
      /\ w2.due = w.due /\ w2.overlap = w.overlap
  BY DEF Walks
<1> HIDE DEF w2, A
<1>6. Owed(r, w2) = Owed(r, w)
  BY <1>5 DEF Owed
<1>7. \A t \in Slots : A[t] # None => A[t] = B[t]
  BY <1>4
<1>8. ASSUME w.overlap # "anew", q.cursor = None
      PROVE  \A t \in Slots : A[t] = None
  <2>1. RequestIsSound(r, w, q)
    BY <1>1, <1>2, <1>8 DEF WalkIsSound
  <2>2. w.state = "loading"
    BY <1>8, <2>1 DEF RequestIsSound
  <2>3. AtMostOne(B)
    BY <1>1, <1>8, <2>2 DEF WalkIsSound
  <2> QED BY <1>2, <1>4, <2>3, SettledIsNone
<1>9. ASSUME w.overlap # "anew"
      PROVE  \A t \in Slots : A[t] # None => RequestIsSound(r, w2, A[t])
  <2>1. \A t \in Slots : B[t] # None => RequestIsSound(r, w, B[t])
    BY <1>1, <1>9 DEF WalkIsSound
  <2>2. ASSUME NEW x, RequestIsSound(r, w, x), q.cursor # None
        PROVE  RequestIsSound(r, w2, x)
    BY <1>5, <1>6, <2>2 DEF RequestIsSound, PageIsSound
  <2> QED BY <1>7, <1>8, <1>9, <2>1, <2>2
<1>10. AtMostOne(B) => AtMostOne(A)
  BY <1>7 DEF AtMostOne
<1>11. ASSUME w.overlap = "none" PROVE ListIsSound(w2, A)
  <2>1. ListIsSound(w, B)
    BY <1>1, <1>11 DEF WalkIsSound
  <2> QED BY <1>5, <1>7, <1>10, <2>1 DEF ListIsSound
<1>12. WalkIsSound(r, w2, A)
  <2>1. /\ \A t \in w.due : IsRuled(t)
        /\ w.overlap # "anew" =>
              /\ w.state = "ready" =>
                    \A t \in Owed(r, w) : t \in w.seen \/ Remains(t, w.cursor)
              /\ w.state = "loading" => AtMostOne(B)
    BY <1>1 DEF WalkIsSound
  <2> QED BY <1>5, <1>6, <1>9, <1>10, <1>11, <2>1 DEF WalkIsSound
<1> QED BY <1>3, <1>4, <1>12, OnePanelMoves

\* The inductive invariant of the panels, for any reader, page size and number
\* of requests under way: every list that no other overlaps shows what it owes
\* or can still load it, and holds no post twice while the button is pressed
\* only for an answer that was there.
THEOREM WalkInvariance == Spec => []WInv
<1>1. IInv /\ IInv' /\ WInv /\ [Next]_vars => WInv'
  <2> SUFFICES ASSUME IInv, IInv', WInv, [Next]_vars PROVE WInv'
    OBVIOUS
  <2>1. CASE Tick
    BY <2>1, TickIsWalked
  <2>2. CASE Correct
    BY <2>2, CorrectIsWalked
  <2>3. CASE \E s \in Submissions, i \in Ids : CreatePost(s, i)
    BY <2>3, CreateIsWalked
  <2>4. CASE \E m \in Moderators, s \in Submissions, d \in Decisions :
                BeginDecision(m, s, d)
    BY <2>4, BeginIsWalked
  <2>5. CASE \E m \in Moderators : Decide(m) \/ Refuse(m)
    BY <2>5, DecideIsWalked, RefuseIsWalked
  <2>6. CASE \E r \in Readers : Reading(r)
    <3>1. PICK r \in Readers : Reading(r)
      BY <2>6
    <3>2. CASE OpenPanel(r)
      BY <3>2, OpenIsWalked
    <3>3. CASE LoadMore(r)
      BY <3>3, LoadMoreIsWalked
    <3>4. CASE \E s \in Slots : ListPosts(r, s) \/ ShowPosts(r, s) \/ LoadFails(r, s)
      BY <3>4, ListIsWalked, ShowIsWalked, FailIsWalked
    <3>5. CASE LeavePanel(r)
      BY <3>5, LeaveIsWalked
    <3> QED BY <3>1, <3>2, <3>3, <3>4, <3>5 DEF Reading
  <2>7. CASE UNCHANGED vars
    <3>1. UNCHANGED <<post, current>> /\ UNCHANGED reading /\ clock' = clock
          /\ deciding' = deciding
      BY <2>7 DEF vars, tables
    <3>2. PostsAreSound'
      BY <3>1 DEF WInv, PostsAreSound
    <3>3. clock <= clock'
      BY <3>1, CommunityAssumption DEF IInv
    <3> QED BY <3>1, <3>2, <3>3, UnchangedPostsKeep, WalksRest
  <2> QED BY <2>1, <2>2, <2>3, <2>4, <2>5, <2>6, <2>7 DEF Next
<1> QED BY <1>1, InitIsWalked, Invariance, PTL DEF Spec

\* For any reader, page size, decisions, corrections and order of the answers, a
\* list that is whole shows what it owes, and no post twice unless the button was
\* pressed for an answer that was still under way.
THEOREM PagesAreExact == Spec => []WalkIsExact
<1>1. WInv => WalkIsExact
  <2> SUFFICES ASSUME WInv, NEW r \in Readers, walk[r].state = "ready"
               PROVE
                  /\ walk[r].overlap = "none" =>
                        walk[r].shown = Cardinality(walk[r].seen)
                  /\ walk[r].overlap # "anew" /\ walk[r].cursor = None =>
                        {s \in walk[r].due \cap Visible(r) : InState(s, "approved")}
                            \subseteq walk[r].seen
    BY DEF WalkIsExact
  <2>1. WalkIsSound(r, walk[r], asked[r])
    BY DEF WInv
  <2>2. walk[r].overlap = "none" => walk[r].shown = Cardinality(walk[r].seen)
    BY <2>1 DEF WalkIsSound, ListIsSound
  <2>3. walk[r].overlap # "anew" =>
           \A s \in Owed(r, walk[r]) : s \in walk[r].seen \/ Remains(s, walk[r].cursor)
    BY <2>1 DEF WalkIsSound
  <2> QED BY <2>2, <2>3 DEF Owed, Remains
<1> QED BY <1>1, WalkInvariance, PTL

\* Type correctness, with the CHECK of public.posts.
THEOREM CommunityTypeCorrect == Spec => []TypeOK
<1>1. IInv /\ WInv => TypeOK
  BY DEF IInv, WInv, PostsAreSound, TypeOK, Verdicts
<1> QED BY <1>1, Invariance, WalkInvariance, PTL
=============================================================================
