------------------------------- MODULE Drafts -------------------------------
(***************************************************************************)
(* The draft of one member for one problem, edited in several tabs: the    *)
(* load effect and the save function of WorkspacePage.tsx with the browser *)
(* store, and the compare-and-swap of put_draft and delete_draft on        *)
(* public.workspaces.                                                      *)
(*                                                                         *)
(* A load reads, and shows later what it read; it runs again whenever the  *)
(* session or the language changes, under an editor that keeps its text.   *)
(* The session comes and goes, and the premium entitlement with it: whether*)
(* a step finds them is a choice of that step.                             *)
(*                                                                         *)
(* A save is a sequence of steps that interleave with those of the other   *)
(* tabs: the browser store, the transaction on the server, the handling of *)
(* the answer and, after a 409, the reading of the server's copy.  The     *)
(* Save button is disabled meanwhile.                                      *)
(*                                                                         *)
(* A tab is one mount of the page; the tabs of one browser share its store.*)
(* A page that is left for another of the application ends its save all    *)
(* the same, like a tab that is not looked at; one that is closed does not,*)
(* but its request may still reach the server.  The Reset button, which    *)
(* puts the draft into the editor, is taken for editing.  Signing out, which*)
(* empties the store on purpose, is left out.                              *)
(*                                                                         *)
(* Texts are numbered in the order they are first saved.  The life of a    *)
(* row tells it from the rows that were deleted before it; a draft's base  *)
(* is the text its revision was that of.  life, base, basis, lives and     *)
(* writer are history, read by the properties only.                        *)
(***************************************************************************)
EXTENDS Integers

CONSTANTS
    Tabs,
    Browsers,
    MaxTexts,    \* bound: how many texts are saved in a behaviour
    MaxLives,    \* bound: how often the row is created
    None

Texts  == 1..MaxTexts
Lives  == 1..MaxLives
Rows   == [revision : Nat \ {0}, text : Texts, life : Lives]
Drafts == [revision : Nat \ {0}, text : Texts, life : Lives \cup {None},
           base : Texts \cup {None}]

ASSUME DraftsAssumption ==
    /\ MaxTexts \in Nat \ {0}
    /\ MaxLives \in Nat
    /\ None \notin Int /\ None \notin Rows \cup Drafts

VARIABLES
    row,        \* public.workspaces: the row of (user_id, problem_id), or None
    home,       \* home[t]: the browser of tab t
    local,      \* local[b]: cache.putDraft, the browser's own copy
    conflict,   \* conflict[b]: cache.putConflict, the preserved server copy
    loading,    \* loading[t]: what a load under way has read, or None
    draft,      \* draft[t]: the React state of the page
    editor,     \* editor[t]: the text the editor was opened with or saved last
    stage,      \* stage[t]: where tab t is
    requests,   \* the PUT requests that have not reached the server
    answer,     \* answer[t]: the row the server returned, while t handles it
    lives,      \* how many rows were created so far
    basis,      \* basis[x]: the texts that text x was edited from
    writer      \* writer[b]: the tab that wrote b's copy last

store == <<local, conflict, writer>>
page  == <<loading, draft, editor>>
vars  == <<row, home, store, page, stage, requests, answer, lives, basis>>

\* The Save button is enabled: no save was begun, or the last one stored nothing
\* ("open"), or it ended after it had stored the draft, whatever it says of the
\* server: 'local', 'server', 'conflict' or 'error' ("kept").
Resting == {"open", "kept"}
Stages  == Resting \cup {"closed", "sending", "saved", "refused"}

\* The texts saved so far.
Saved == DOMAIN basis

Init ==
    /\ row = None
    /\ home \in [Tabs -> Browsers]
    /\ local = [b \in Browsers |-> None]
    /\ conflict = [b \in Browsers |-> None]
    /\ loading = [t \in Tabs |-> None]
    /\ draft = [t \in Tabs |-> None]
    /\ editor = [t \in Tabs |-> None]
    /\ stage = [t \in Tabs |-> "closed"]
    /\ requests = {}
    /\ answer = [t \in Tabs |-> None]
    /\ lives = 0
    /\ basis = [x \in {} |-> {}]
    /\ writer = [b \in Browsers |-> None]

Move(t, s) == stage' = [stage EXCEPT ![t] = s]
Keep(t, d) == draft' = [draft EXCEPT ![t] = d]

\* cache.putDraft: one draft for the account and the problem.
Store(t, d) ==
    /\ local' = [local EXCEPT ![home[t]] = d]
    /\ writer' = [writer EXCEPT ![home[t]] = t]
    /\ UNCHANGED conflict

\* The server's row as the browser keeps it.
Copy(r) == [revision |-> r.revision, text |-> r.text, life |-> r.life,
            base |-> r.text]

-----------------------------------------------------------------------------
(* Loading the page.                                                       *)

\* serverDraft ?? localDraft, where a server that is not asked or does not answer
\* counts as one that has no draft.  Without an account nothing is read.  A new
\* load drops the one under way, as if it had not begun.
ReadDraft(t) ==
    /\ loading[t] = None
    /\ \E read \in {local[home[t]]} \cup (IF row = None THEN {} ELSE {Copy(row)}) :
          loading' = [loading EXCEPT ![t] = read]
    /\ UNCHANGED <<row, home, store, draft, editor, stage, requests, answer, lives,
                   basis>>

\* What was read, or no draft.  The editor is mounted with it; once it is, it
\* keeps its own text (useState(initialSchema)), whatever a later load brings.
ShowDraft(t) ==
    /\ \E d \in {None, loading[t]} :
          /\ Keep(t, d)
          /\ \/ /\ stage[t] = "closed"
                /\ editor' = [editor EXCEPT ![t] = IF d = None THEN None ELSE d.text]
                /\ Move(t, "open")
             \/ /\ stage[t] # "closed"
                /\ UNCHANGED <<editor, stage>>
    /\ loading' = [loading EXCEPT ![t] = None]
    /\ UNCHANGED <<row, home, store, requests, answer, lives, basis>>

\* Closing or reloading the page, also in the middle of a save: what is not
\* stored is gone.
CloseTab(t) ==
    /\ stage[t] # "closed"
    /\ Keep(t, None)
    /\ editor' = [editor EXCEPT ![t] = None]
    /\ loading' = [loading EXCEPT ![t] = None]
    /\ answer' = [answer EXCEPT ![t] = None]
    /\ Move(t, "closed")
    /\ UNCHANGED <<row, home, store, requests, answer, lives, basis>>

-----------------------------------------------------------------------------
(* Saving.                                                                 *)

\* The draft a save stores and sends: its revision is draft?.revision ?? 1, the
\* If-Match of the request.
NextDraft(t, x) ==
    LET d == draft[t]
    IN  [revision |-> IF d = None THEN 1 ELSE d.revision,
         text     |-> x,
         life     |-> IF d = None THEN None ELSE d.life,
         base     |-> IF d = None THEN None ELSE d.base]

EditedFrom(t) ==
    IF editor[t] = None THEN {} ELSE basis[editor[t]] \cup {editor[t]}

\* Mutant: the local copy is written after the server answered.
SaveServerFirst(t, next) == UNCHANGED store

SaveLocally(t, next) == Store(t, next)

\* With an account: the browser store first; then, for a member the page knows
\* to be premium, the server.
BeginSave(t) ==
    LET x    == 1 + CHOOSE n \in 0..MaxTexts : Saved = 1..n
        next == NextDraft(t, x)
    IN  /\ stage[t] \in Resting
        /\ x \in Texts
        /\ basis' = [y \in 1..x |-> IF y = x THEN EditedFrom(t) ELSE basis[y]]
        /\ SaveLocally(t, next)
        /\ Keep(t, next)
        /\ editor' = [editor EXCEPT ![t] = x]
        /\ \/ Move(t, "sending") /\ requests' = requests \cup {next}
           \/ Move(t, "kept") /\ UNCHANGED requests
        /\ UNCHANGED <<row, home, loading, answer, lives>>

\* There is no account, or cache.putDraft rejects: the page reports an error
\* and keeps nothing.
SaveNowhere(t) ==
    /\ stage[t] \in Resting
    /\ Move(t, "open")
    /\ UNCHANGED <<row, home, store, page, requests, answer, lives, basis>>

\* 200: the saved row replaces the local copy and the React state.
Acknowledge(t) ==
    /\ stage[t] = "saved"
    /\ Store(t, Copy(answer[t]))
    /\ Keep(t, Copy(answer[t]))
    /\ answer' = [answer EXCEPT ![t] = None]
    /\ Move(t, "kept")
    /\ UNCHANGED <<row, home, loading, editor, requests, lives, basis>>

\* The request, or the answer to it, is lost, the answer is a 5xx, or it can not
\* be stored.  The request may arrive later.
SaveFails(t) ==
    /\ stage[t] \in {"sending", "saved"}
    /\ answer' = [answer EXCEPT ![t] = None]
    /\ Move(t, "kept")
    /\ UNCHANGED <<row, home, store, page, requests, lives, basis>>

\* 409: the server's current copy is read and kept beside the local one.  If
\* it cannot be read, or there is none, the page still shows a conflict; if it
\* cannot be stored, save rejects and the page says "Saving..." for good.
PreserveConflict(t) ==
    /\ stage[t] = "refused"
    /\ \E served \in {row, None} :
          IF served # None
          THEN conflict' = [conflict EXCEPT ![home[t]] = served]
          ELSE UNCHANGED conflict
    /\ Move(t, "kept")
    /\ UNCHANGED <<row, home, local, writer, page, requests, answer, lives, basis>>

-----------------------------------------------------------------------------
(* The server.                                                             *)

\* Mutant: revisions count from zero.
InsertRowAtZero(x) ==
    /\ lives < MaxLives
    /\ lives' = lives + 1
    /\ row' = [revision |-> 0, text |-> x, life |-> lives + 1]

InsertRow(x) ==
    /\ lives < MaxLives
    /\ lives' = lives + 1
    /\ row' = [revision |-> 1, text |-> x, life |-> lives + 1]

UpdateRow(x) ==
    /\ row' = [row EXCEPT !.text = x, !.revision = @ + 1]
    /\ UNCHANGED lives

\* The tab that still waits for the answer to request q.
Waits(t, q) == stage[t] = "sending" /\ editor[t] = q.text

\* The answer to q, for the tab that waits for it.
Tell(q, s) == stage' = [t \in Tabs |-> IF Waits(t, q) THEN s ELSE stage[t]]

Return(q) ==
    /\ answer' = [t \in Tabs |-> IF Waits(t, q) THEN row' ELSE answer[t]]
    /\ Tell(q, "saved")

\* Mutant: ON CONFLICT DO UPDATE without the WHERE on the revision.
PutDraftUnconditionally(q) ==
    /\ \/ row = None /\ InsertRow(q.text)
       \/ row # None /\ UpdateRow(q.text)
    /\ Return(q)
    /\ requests' = requests \ {q}
    /\ UNCHANGED <<home, store, page, basis>>

\* INSERT ... ON CONFLICT DO UPDATE ... WHERE revision = expected.  Without a
\* row the expected revision is ignored.  Row security lets only a premium member
\* write; its refusal is an HTTP 500.
PutDraft(q) ==
    /\ \/ /\ \/ row = None /\ InsertRow(q.text)
             \/ /\ row # None
                /\ row.revision = q.revision
                /\ UpdateRow(q.text)
          /\ Return(q)
       \/ /\ row # None
          /\ row.revision # q.revision
          /\ Tell(q, "refused")
          /\ UNCHANGED <<row, answer, lives>>
       \/ /\ Tell(q, "kept")
          /\ UNCHANGED <<row, answer, lives>>
    /\ requests' = requests \ {q}
    /\ UNCHANGED <<home, store, page, basis>>

\* DELETE /draft, which the API offers to every client, with the revision of
\* a draft some tab has: no row is removed under another revision.
DeleteDraft ==
    /\ row # None
    /\ \E t \in Tabs : draft[t] # None /\ draft[t].revision = row.revision
    /\ row' = None
    /\ UNCHANGED <<home, store, page, stage, requests, answer, lives, basis>>

Next ==
    \/ \E t \in Tabs :
          \/ ReadDraft(t)
          \/ ShowDraft(t)
          \/ CloseTab(t)
          \/ BeginSave(t)
          \/ SaveNowhere(t)
          \/ Acknowledge(t)
          \/ SaveFails(t)
          \/ PreserveConflict(t)
    \/ \E q \in requests : PutDraft(q)
    \/ DeleteDraft

Spec == Init /\ [][Next]_vars

-----------------------------------------------------------------------------
(* Properties.                                                             *)

\* The row and every copy of it; revisions count from 1, and what a text was
\* edited from had been saved.
TypeOK ==
    /\ row \in Rows \cup {None}
    /\ home \in [Tabs -> Browsers]
    /\ local \in [Browsers -> Drafts \cup {None}]
    /\ conflict \in [Browsers -> Rows \cup {None}]
    /\ loading \in [Tabs -> Drafts \cup {None}]
    /\ draft \in [Tabs -> Drafts \cup {None}]
    /\ editor \in [Tabs -> Texts \cup {None}]
    /\ stage \in [Tabs -> Stages]
    /\ requests \subseteq Drafts
    /\ answer \in [Tabs -> Rows \cup {None}]
    /\ lives \in 0..MaxLives
    /\ Saved \subseteq Texts
    /\ \A x \in Saved : basis[x] \subseteq Saved
    /\ writer \in [Browsers -> Tabs \cup {None}]

\* A request under a revision of the row that is there now replaces exactly the
\* text that this revision stood for when the page got it: however late it
\* arrives, whatever was retried, reloaded or copied between stores, no save
\* in between is lost.  (That the member saw that text is another matter: a page
\* that is loaded again takes over the revision of a draft, and the editor keeps
\* its text; NoLostUpdate is violated that way, too.)
SavesReplaceWhatTheyName ==
    [][ \A q \in requests :
          /\ row # None /\ q.life = row.life
          /\ row' # None /\ row' # row /\ row'.text = q.text
          => row.text = q.base ]_vars

\* Once a save has passed the browser's store, whatever becomes of the rest of
\* it, and however often the page is loaded again under the editor, the member's
\* last text is in that store, or another tab of the same browser has put its
\* own there since.  (A save that fails before leaves the page "open", although
\* the page says of it, too, that a local copy is preserved.)
UnsavedWorkIsStored ==
    \A t \in Tabs :
       /\ stage[t] \in {"sending", "saved", "refused", "kept"}
       /\ writer[home[t]] = t
       => LET kept == local[home[t]] IN kept # None /\ kept.text = editor[t]

\* A stale save is refused: "stale mutation is conflict, never last-write-wins
\* data loss".  A text that the server holds is only ever replaced by a text
\* that was edited from it.
NoLostUpdate ==
    [][ row # None /\ row' # None /\ row'.text # row.text =>
          row.text \in basis[row'.text] ]_vars
=============================================================================
