------------------------------ MODULE Library ------------------------------
(****************************************************************************)
(* The problem library: the pages of list_problems, newest date first, as   *)
(* ProblemsPage asks for them with "Load more", while days pass and the     *)
(* editors of Publication publish problems and corrections.                 *)
(*                                                                          *)
(* A page is one query, and asking for it, the query and the arrival of the *)
(* answer are steps of their own.  Nothing on the page waits for an answer: *)
(* "Load more" stays enabled while one is under way, the filter can be      *)
(* changed at any time, no request is ever cancelled, and each answer       *)
(* replaces or prolongs the list that is there when it comes.               *)
(*                                                                          *)
(* A filter is a set of contents (the search text, difficulty, genre and    *)
(* format of a version).  The cursor is signed together with the digest of  *)
(* its filter.  The filters by status and date are left out.                *)
(****************************************************************************)
EXTENDS Publication, SequencesExt

CONSTANTS
    PageSize,
    Filters,
    Slots       \* bound: the requests a member has under way at once

Cursors == [filter : Filters, date : Dates]

ASSUME LibraryAssumption ==
    /\ PageSize \in Nat \ {0}
    /\ Filters \subseteq SUBSET Contents
    /\ None \notin Dates \cup Cursors

VARIABLES
    walk,   \* walk[m]: the list m is looking at, or None
    asked   \* asked[m][s]: a request under way, with its page once it is
            \* answered, or None

\* Of a list, `out`, the versions a whole list would have held when it was asked
\* for, and `overlap` are not in the code: of the requests under way at once
\* since then, "more" tells that one was for a further page, "anew" that one was
\* for another list.
lists == <<walk, asked>>

libraryVars == <<vars, lists>>

LibraryInit ==
    /\ Init
    /\ walk = [m \in Members |-> None]
    /\ asked = [m \in Members |-> [s \in Slots |-> None]]

\* The calendar rows of a query that joins their versions, before a date.
Listed(filter, before) ==
    { d \in Dates : /\ d < before
                    /\ Out(d) /\ Readable(calendar[d])
                    /\ version[calendar[d]].content \in filter }

\* ORDER BY publication_date DESC
NewestFirst(dates) ==
    CHOOSE rows \in [1..Cardinality(dates) -> dates] :
        \A i, j \in DOMAIN rows : i < j => rows[i] > rows[j]

\* Mutant: the cursor is the extra row.
NextCursorOfExtra(rows) ==
    IF Len(rows) > PageSize THEN rows[PageSize + 1] ELSE None

\* The last row of the page, if there is a row beyond it.  The date is unique,
\* so that the problem's id breaks no tie.
NextCursor(rows) == IF Len(rows) > PageSize THEN rows[PageSize] ELSE None

Page(filter, before) ==
    LET rows == NewestFirst(Listed(filter, before))
        problemOf(d) == version[calendar[d]].problem
    IN  [items |-> [i \in 1..Min({Len(rows), PageSize}) |-> problemOf(rows[i])],
         cursor |-> NextCursor(rows)]

\* The cursor of a page, as it is signed with the digest of the filter.
Signed(filter, date) ==
    IF date = None THEN None ELSE [filter |-> filter, date |-> date]

-----------------------------------------------------------------------------
(* ProblemsPage.                                                           *)

Busy(m) == \E s \in Slots : asked[m][s] # None

\* load() for the filter and the cursor, which is None for the first page
Ask(m, s, filter, cursor) ==
    /\ asked[m][s] = None
    /\ asked' = [asked EXCEPT ![m][s] =
                    [filter |-> filter, cursor |-> cursor, page |-> None]]

\* The page is opened, a filter is changed or a failed load is tried again: the
\* list is hidden until an answer comes.
OpenLibrary(m, filter) ==
    /\ \E s \in Slots : Ask(m, s, filter, None)
    /\ walk' = [walk EXCEPT ![m] =
                  [filter |-> filter, state |-> "loading",
                   seen |-> IF @ = None THEN <<>> ELSE @.seen,
                   cursor |-> IF @ = None THEN None ELSE @.cursor,
                   out |-> { calendar[d] : d \in Listed(filter, LastDay + 1) },
                   overlap |-> IF Busy(m) THEN "anew" ELSE "none"]]
    /\ UNCHANGED vars

\* The button, below a list that is shown and has a further page.
LoadMore(m) ==
    /\ walk[m] # None
    /\ walk[m].state = "ready"
    /\ walk[m].cursor # None
    /\ \E s \in Slots : Ask(m, s, walk[m].filter, walk[m].cursor)
    /\ walk' = [walk EXCEPT ![m].overlap =
                  IF @ = "none" /\ Busy(m) THEN "more" ELSE @]
    /\ UNCHANGED vars

\* Every date is before no cursor.
Before(cursor) == IF cursor = None THEN LastDay + 1 ELSE cursor.date

\* The query.  The cursor of another filter is refused.
ServePage(m, s) ==
    /\ asked[m][s] # None
    /\ asked[m][s].page = None
    /\ LET q == asked[m][s]
       IN  /\ q.cursor # None => q.cursor.filter = q.filter
           /\ asked' = [asked EXCEPT ![m][s].page =
                            Page(q.filter, Before(q.cursor))]
    /\ UNCHANGED <<vars, walk>>

\* setItems, setNextCursor, setState('ready')
ShowPage(m, s) ==
    /\ asked[m][s] # None
    /\ asked[m][s].page # None
    /\ LET q == asked[m][s] IN
       walk' = [walk EXCEPT
                  ![m].state = "ready",
                  ![m].seen = IF q.cursor = None THEN q.page.items
                              ELSE @ \o q.page.items,
                  ![m].cursor = Signed(q.filter, q.page.cursor)]
    /\ asked' = [asked EXCEPT ![m][s] = None]
    /\ UNCHANGED vars

\* The request or the answer is lost, or refused: without its first page a list
\* is in error, without a further one it only says so.
LoadFails(m, s) ==
    /\ asked[m][s] # None
    /\ walk' = [walk EXCEPT ![m].state =
                  IF asked[m][s].cursor = None THEN "error" ELSE @]
    /\ asked' = [asked EXCEPT ![m][s] = None]
    /\ UNCHANGED vars

Paging(m) ==
    \/ \E filter \in Filters : OpenLibrary(m, filter)
    \/ LoadMore(m)
    \/ \E s \in Slots : ServePage(m, s) \/ ShowPage(m, s) \/ LoadFails(m, s)

LibraryNext ==
    \/ Next /\ UNCHANGED lists
    \/ \E m \in Members : Paging(m)

LibrarySpec == LibraryInit /\ [][LibraryNext]_libraryVars

-----------------------------------------------------------------------------
(* Properties.                                                             *)

\* A list without a further page shows every problem that was out when it was
\* asked for, however often "Load more" was pressed and in whatever order the
\* answers came: corrections move the calendar's pointers under a member's list,
\* but never a problem across its cursor.  Only a correction that leaves the
\* filter may drop out of it.  And it shows no problem twice as long as the
\* button was pressed only for an answer that was there (pressed twice, it shows
\* a page twice).  Of a list that was asked for while another was under way
\* nothing is said: the last answer makes the list, whichever filter it is of.
ListIsExact ==
    \A m \in Members :
       walk[m] # None /\ walk[m].state = "ready" =>
          /\ walk[m].overlap = "none" => IsInjective(walk[m].seen)
          /\ walk[m].overlap # "anew" /\ walk[m].cursor = None =>
                \A v \in walk[m].out :
                   \/ version[v].problem \in ToSet(walk[m].seen)
                   \/ Superseded(v) /\ walk[m].filter # Contents
=============================================================================
