----------------------------- MODULE Community -----------------------------
(****************************************************************************)
(* The posts of a problem: create_post, AdminRepository.decide_post under   *)
(* the trigger protect_post, and list_posts page by page, as CommunityPanel *)
(* asks for them, while editors publish corrections of the problem.         *)
(*                                                                          *)
(* A transaction stamps what it writes with now(), the time it BEGAN, and   *)
(* may commit much later, after waiting for the row lock of decide_post.    *)
(* A decision is therefore two steps, its beginning and the rest.  The      *)
(* clock is coarse: several transactions share a time.  Asking for a page,  *)
(* its query and the arrival of the answer are steps of their own, and      *)
(* nothing on the panel waits for an answer.                                *)
(*                                                                          *)
(* A submission stands for one that is passed and exact_full; create_post   *)
(* refuses every other with 422 and changes nothing.                        *)
(****************************************************************************)
EXTENDS Integers, Sequences, FiniteSets

CONSTANTS
    Submissions,   \* the exact-full submissions of one problem
    Owner,         \* Owner[s]: the member who made s
    VersionOf,     \* VersionOf[s]: the version s was made for, by its number
    Ids,           \* the ids a post may draw
    Moderators,
    Readers,
    Limit,         \* the page size
    Slots,         \* bound: the requests a reader has under way at once
    MaxTime,       \* bound on the clock
    LastVersion,   \* bound on the versions of the problem that are published
    None

\* public.moderation_state, and what a decision can make of it
Decisions == {"approved", "rejected"}
States == {"held"} \cup Decisions

Posts == [id : Ids, state : States, at : 0..MaxTime \cup {None}]

Cursors == (0..MaxTime) \X Ids

Pages == [items : SUBSET Submissions, cursor : Cursors \cup {None}]

Requests == [cursor : Cursors \cup {None}, now : 0..MaxTime,
             page : Pages \cup {None}]

Walks == [state : {"idle", "loading", "ready", "failed"},
          cursor : Cursors \cup {None},
          seen : SUBSET Submissions, shown : Nat,
          due : SUBSET Submissions, overlap : {"none", "more", "anew"}]

ASSUME CommunityAssumption ==
    /\ IsFiniteSet(Submissions)
    /\ Ids \subseteq Nat
    /\ Limit \in Nat \ {0}
    /\ MaxTime \in Nat
    /\ None \notin Nat
    /\ None \notin Posts
    /\ None \notin Cursors
    /\ VersionOf \in [Submissions -> 1..LastVersion]
    /\ LastVersion \in Nat \ {0}

VARIABLES
    post,       \* public.posts by submission (UNIQUE): a record or None
    rulings,    \* public.moderation_decisions of a post, oldest first
    deciding,   \* deciding[m]: the decision m's transaction is about to make
    walk,       \* walk[r]: what the panel of r shows
    asked,      \* asked[r][s]: a request of the panel that is under way, with
                \* its page once it is answered, or None
    current,    \* the version the calendar points at
    clock

\* Of a walk, `seen` and `shown` are the posts on the panel and their number;
\* `due`, what was approved when the list was asked for, and `overlap` are not in
\* the code: of the requests under way at once since then, "more" tells that one
\* was for a further page, "anew" that one was for the pages of another list.
reading == <<walk, asked>>

tables == <<post, rulings, deciding, current, clock>>

vars == <<tables, reading>>

AtRest == [state |-> "idle", cursor |-> None, seen |-> {}, shown |-> 0,
           due |-> {}, overlap |-> "none"]

NothingAsked == [s \in Slots |-> None]

Init ==
    /\ post = [s \in Submissions |-> None]
    /\ rulings = [s \in Submissions |-> <<>>]
    /\ deciding = [m \in Moderators |-> None]
    /\ walk = [r \in Readers |-> AtRest]
    /\ asked = [r \in Readers |-> NothingAsked]
    /\ current = 1
    /\ clock = 0

Tick ==
    /\ clock < MaxTime
    /\ clock' = clock + 1
    /\ UNCHANGED <<post, rulings, deciding, current, reading>>

\* The calendar's upsert: a correction takes the problem's place.
Correct ==
    /\ current < LastVersion
    /\ current' = current + 1
    /\ UNCHANGED <<post, rulings, deciding, clock, reading>>

InState(s, state) == post[s] # None /\ post[s].state = state

-----------------------------------------------------------------------------
(* Writing and deciding.                                                   *)

\* Of a submission to any version that was published.  A second post of the
\* submission violates UNIQUE (submission_id).
CreatePost(s, i) ==
    /\ VersionOf[s] <= current
    /\ post[s] = None
    /\ \A t \in Submissions : post[t] # None => post[t].id # i
    /\ post' = [post EXCEPT ![s] = [id |-> i, state |-> "held", at |-> None]]
    /\ UNCHANGED <<rulings, deciding, current, clock, reading>>

\* Of whatever the moderator's listing showed, however long ago.
BeginDecision(m, s, d) ==
    /\ deciding[m] = None
    /\ post[s] # None
    /\ deciding' = [deciding EXCEPT ![m] = [post |-> s, state |-> d,
                                            at |-> clock]]
    /\ UNCHANGED <<post, rulings, current, clock, reading>>

\* Mutant: a rejected post can be reinstated.
AllowsReinstating(old, new) ==
    \/ old = "held"
    \/ old = "approved" /\ new = "rejected"
    \/ old = "rejected" /\ new = "approved"

\* protect_post
Allows(old, new) ==
    \/ old = "held"
    \/ old = "approved" /\ new = "rejected"

\* Mutant: the time of publication survives a rejection.
RuledKeepingTime(p, d) == [p EXCEPT !.state = d.state,
                                    !.at = IF @ = None THEN d.at ELSE @]

\* published_at = CASE WHEN 'approved' THEN now() ELSE NULL END
Ruled(p, d) == [p EXCEPT !.state = d.state,
                         !.at = IF d.state = "approved" THEN d.at ELSE None]

\* From SELECT ... FOR UPDATE to the commit.
Decide(m) ==
    /\ deciding[m] # None
    /\ LET d == deciding[m]
           s == d.post
       IN  /\ Allows(post[s].state, d.state)
           /\ post' = [post EXCEPT ![s] = Ruled(@, d)]
           /\ rulings' = [rulings EXCEPT ![s] = Append(@, d.state)]
    /\ deciding' = [deciding EXCEPT ![m] = None]
    /\ UNCHANGED <<current, clock, reading>>

\* The trigger raises and the transaction is rolled back (HTTP 500).
Refuse(m) ==
    /\ deciding[m] # None
    /\ ~ Allows(post[deciding[m].post].state, deciding[m].state)
    /\ deciding' = [deciding EXCEPT ![m] = None]
    /\ UNCHANGED <<post, rulings, current, clock, reading>>

-----------------------------------------------------------------------------
(* Reading.                                                                *)

\* (published_at, id), newest first
Key(s) == <<post[s].at, post[s].id>>

Older(k, l) == k[1] < l[1] \/ (k[1] = l[1] /\ k[2] < l[2])

\* The query joins submissions, users and problem_versions, whose row security
\* shows a member the member's own rows alone, and of the versions of a problem
\* only the one the calendar points at (none is ever retired).
Visible(r) == {s \in Submissions : Owner[s] = r /\ VersionOf[s] = current}

\* Mutant: the cursor compares the time alone.
PastCursorByTime(s, cursor) == cursor # None => Key(s)[1] < cursor[1]

\* (p.published_at, p.id) < (%s, %s)
PastCursor(s, cursor) == cursor # None => Older(Key(s), cursor)

Rows(r, cursor, now) ==
    {s \in Visible(r) :
        /\ InState(s, "approved")
        /\ post[s].at <= now
        /\ PastCursor(s, cursor)}

\* ORDER BY published_at DESC, id DESC LIMIT ...
Newest(rows) ==
    {s \in rows : Cardinality({t \in rows : Older(Key(s), Key(t))}) < Limit}

Last(page) == CHOOSE s \in page : \A t \in page \ {s} : Older(Key(s), Key(t))

\* limit + 1 rows tell whether there are more.
Page(rows) ==
    LET page == Newest(rows)
    IN  [items |-> page,
         cursor |-> IF page # rows THEN Key(Last(page)) ELSE None]

Busy(r) == \E s \in Slots : asked[r][s] # None

Ask(r, s, cursor) ==
    /\ asked[r][s] = None
    /\ asked' = [asked EXCEPT ![r][s] =
                    [cursor |-> cursor, now |-> clock, page |-> None]]

\* The effect of the panel, which runs again when the session or the language
\* changes; what is shown stays until the first page comes.
OpenPanel(r) ==
    /\ \E s \in Slots : Ask(r, s, None)
    /\ walk' = [walk EXCEPT
                  ![r].state = "loading",
                  ![r].due = {s \in Submissions : InState(s, "approved")},
                  ![r].overlap = IF Busy(r) THEN "anew" ELSE "none"]
    /\ UNCHANGED tables

\* The button, which is there and enabled as long as there is a cursor.
LoadMore(r) ==
    /\ walk[r].cursor # None
    /\ \E s \in Slots : Ask(r, s, walk[r].cursor)
    /\ walk' = [walk EXCEPT ![r].overlap =
                  IF walk[r].state # "ready" THEN "anew"
                  ELSE IF @ = "none" /\ Busy(r) THEN "more" ELSE @]
    /\ UNCHANGED tables

\* The query, in a transaction that began at some time since it was asked for.
ListPosts(r, s) ==
    /\ asked[r][s] # None
    /\ asked[r][s].page = None
    /\ \E now \in asked[r][s].now..clock :
          asked' = [asked EXCEPT ![r][s].page =
                       Page(Rows(r, asked[r][s].cursor, now))]
    /\ UNCHANGED <<tables, walk>>

\* setPosts and setCursor: the first page replaces the list, a further one is
\* appended to it.
ShowPosts(r, s) ==
    /\ asked[r][s] # None
    /\ asked[r][s].page # None
    /\ LET page == asked[r][s].page
           first == asked[r][s].cursor = None
           number == Cardinality(page.items)
       IN  walk' = [walk EXCEPT
                      ![r].state = IF first THEN "ready" ELSE @,
                      ![r].cursor = page.cursor,
                      ![r].seen = IF first THEN page.items ELSE @ \cup page.items,
                      ![r].shown = IF first THEN number ELSE @ + number]
    /\ asked' = [asked EXCEPT ![r][s] = None]
    /\ UNCHANGED tables

\* The request or the answer is lost; the panel says so and keeps its list.
LoadFails(r, s) ==
    /\ asked[r][s] # None
    /\ walk' = [walk EXCEPT ![r].state =
                  IF asked[r][s].cursor = None THEN "failed" ELSE @]
    /\ asked' = [asked EXCEPT ![r][s] = None]
    /\ UNCHANGED tables

LeavePanel(r) ==
    /\ walk[r].state # "idle"
    /\ walk' = [walk EXCEPT ![r] = AtRest]
    /\ asked' = [asked EXCEPT ![r] = NothingAsked]
    /\ UNCHANGED tables

Reading(r) ==
    \/ OpenPanel(r)
    \/ LoadMore(r)
    \/ \E s \in Slots : ListPosts(r, s) \/ ShowPosts(r, s) \/ LoadFails(r, s)
    \/ LeavePanel(r)

Next ==
    \/ Tick
    \/ Correct
    \/ \E s \in Submissions, i \in Ids : CreatePost(s, i)
    \/ \E m \in Moderators, s \in Submissions, d \in Decisions :
          BeginDecision(m, s, d)
    \/ \E m \in Moderators : Decide(m) \/ Refuse(m)
    \/ \E r \in Readers : Reading(r)

Spec == Init /\ [][Next]_vars

-----------------------------------------------------------------------------
(* Properties.                                                             *)

\* Every variable has its type; a post has a time of publication exactly while
\* it is approved (the CHECK of public.posts).
TypeOK ==
    /\ clock \in 0..MaxTime
    /\ post \in [Submissions -> Posts \cup {None}]
    /\ \A s \in Submissions :
          post[s] # None => (post[s].state = "approved" <=> post[s].at # None)
    /\ rulings \in [Submissions -> Seq(Decisions)]
    /\ deciding \in [Moderators ->
          [post : Submissions, state : Decisions, at : 0..MaxTime] \cup {None}]
    /\ current \in 1..LastVersion
    /\ walk \in [Readers -> Walks]
    /\ asked \in [Readers -> [Slots -> Requests \cup {None}]]

\* However moderators race, a post is decided at most twice, published at most
\* once and never after its rejection, and it is in the state of the last
\* ruling on record (protect_post, decide_post).
RulingsAreFinal ==
    \A s \in Submissions :
        /\ rulings[s] \in {<<>>, <<"approved">>, <<"rejected">>,
                           <<"approved", "rejected">>}
        /\ post[s] # None =>
              post[s].state = IF rulings[s] = <<>> THEN "held"
                              ELSE rulings[s][Len(rulings[s])]

\* A panel without a further page shows every post of the reader's on the
\* problem's present version that was approved when its list was asked for and
\* still is, however often "Load more" was pressed and in whatever order the
\* answers came (the tie-break of the cursor, the extra row of the limit,
\* decide_post's now(), which may be older than a page that does not show the
\* post).  And it shows no post twice as long as the button was pressed only for
\* an answer that was there (pressed twice, it shows a page twice).  Of a list that
\* overlaps another nothing is said.  What is on a corrected version the query
\* does not find any more: the reader's own post of it vanishes.
WalkIsExact ==
    \A r \in Readers :
       walk[r].state = "ready" =>
          /\ walk[r].overlap = "none" => walk[r].shown = Cardinality(walk[r].seen)
          /\ walk[r].overlap # "anew" /\ walk[r].cursor = None =>
                {s \in walk[r].due \cap Visible(r) : InState(s, "approved")}
                    \subseteq walk[r].seen
=============================================================================
