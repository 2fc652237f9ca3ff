----------------------------- MODULE DraftsProofs -----------------------------
(* For any number of tabs, browsers, texts and lives of the row: what a save   *)
(* has put in the browser's store stays there until another tab replaces it,   *)
(* and a request under a revision of the row that is there replaces the text   *)
(* that this revision stood for.                                               *)
(*                                                                             *)
(* The second rests on what a copy of the row can be, in a store, in a load    *)
(* under way, in a page or in a request.  A copy of this life has a revision   *)
(* no later than the row's; and if it has the row's revision, its base is the  *)
(* row's text.                                                                 *)
EXTENDS Drafts, TLAPS

\* What a copy of the row, wherever it is kept, says of the row.
IsCopy(d) ==
    row # None /\ d # None /\ d.life = row.life =>
       /\ d.revision <= row.revision
       /\ d.revision = row.revision => d.base = row.text

\* Only what was saved is kept, of lives there were.
IsKnown(d) ==
    d # None => d.text \in Saved /\ (d.life = None \/ d.life <= lives)

IsSound(d) == IsKnown(d) /\ IsCopy(d)

TabIsSound(t) ==
    /\ IsSound(loading[t]) /\ IsSound(draft[t])
    /\ editor[t] # None => editor[t] \in Saved
    /\ answer[t] # None => IsSound(Copy(answer[t]))
    /\ stage[t] = "saved" => answer[t] # None /\ answer[t].text = editor[t]

SavedIsAPrefix == \E n \in 0..MaxTexts : Saved = 1..n

RowIsSound == row # None => row.text \in Saved /\ row.life = lives

\* A text is sent once.
RequestsAreSound ==
    /\ \A q \in requests : IsSound(q)
    /\ \A q, p \in requests : q.text = p.text => q = p

IInv ==
    /\ TypeOK
    /\ SavedIsAPrefix
    /\ RowIsSound
    /\ RequestsAreSound
    /\ UnsavedWorkIsStored
    /\ \A b \in Browsers : IsSound(local[b])
    /\ \A t \in Tabs : TabIsSound(t)

\* The text a save makes is the next one.
Fresh == 1 + CHOOSE n \in 0..MaxTexts : Saved = 1..n

LEMMA FreshIsFresh ==
    ASSUME SavedIsAPrefix
    PROVE  /\ Fresh \in Nat \ {0}
           /\ Saved = 1..(Fresh - 1)
           /\ Fresh \notin Saved
  BY DraftsAssumption DEF SavedIsAPrefix, Fresh

LEMMA InitIsSound == Init => IInv
<1> SUFFICES ASSUME Init PROVE IInv
  OBVIOUS
<1>1. Saved = {}
  BY DEF Init, Saved
<1>2. TypeOK
  BY <1>1, DraftsAssumption DEF Init, TypeOK, Stages, Texts
<1>3. SavedIsAPrefix
  BY <1>1, DraftsAssumption DEF SavedIsAPrefix
<1> QED BY <1>2, <1>3
        DEF Init, IInv, RowIsSound, UnsavedWorkIsStored, RequestsAreSound,
            TabIsSound, IsSound, IsKnown, IsCopy

-----------------------------------------------------------------------------
(* What a step leaves sound.                                               *)

\* As long as the row and the texts are left alone, so is every copy.
LEMMA SoundLasts ==
    ASSUME UNCHANGED <<row, lives, basis>>, NEW d, IsSound(d)
    PROVE  IsSound(d)'
  BY DEF IsSound, IsKnown, IsCopy, Saved

\* The row itself, as a browser keeps it.
LEMMA RowsCopyIsSound ==
    ASSUME TypeOK, RowIsSound, row # None
    PROVE  IsSound(Copy(row)) /\ Copy(row) \in Drafts
<1>1. row \in Rows
  BY DEF TypeOK
<1> QED BY <1>1, DraftsAssumption
        DEF RowIsSound, IsSound, IsKnown, IsCopy, Copy, Rows, Drafts, Lives

\* A step of one tab that leaves the row, the texts and the requests alone, and
\* the store to itself.
LEMMA OtherTabs ==
    ASSUME IInv, UNCHANGED <<row, lives, basis, requests, home>>, NEW t \in Tabs,
           \A u \in Tabs \ {t} :
              /\ loading'[u] = loading[u] /\ draft'[u] = draft[u]
              /\ editor'[u] = editor[u] /\ answer'[u] = answer[u]
              /\ stage'[u] = stage[u],
           TabIsSound(t)',
           \A b \in Browsers : \/ local'[b] = local[b] /\ writer'[b] = writer[b]
                               \/ IsSound(local'[b]) /\ writer'[b] = t,
           /\ stage'[t] \in {"sending", "saved", "refused", "kept"}
           /\ writer'[home[t]] = t
           => local'[home[t]] # None /\ local'[home[t]].text = editor'[t],
           TypeOK'
    PROVE  IInv'
<1> USE DEF IInv
<1>1. SavedIsAPrefix' /\ RowIsSound'
  BY DEF SavedIsAPrefix, RowIsSound, Saved
<1>2. RequestsAreSound'
  BY SoundLasts DEF RequestsAreSound
<1>3. UnsavedWorkIsStored'
  <2> SUFFICES ASSUME NEW u \in Tabs,
                      stage'[u] \in {"sending", "saved", "refused", "kept"},
                      writer'[home[u]] = u
               PROVE  local'[home[u]] # None /\ local'[home[u]].text = editor'[u]
    BY DEF UnsavedWorkIsStored
  <2>1. CASE u = t
    BY <2>1
  <2>2. CASE u # t
    <3>1. home[u] \in Browsers
      BY DEF TypeOK
    <3>2. local'[home[u]] = local[home[u]] /\ writer[home[u]] = u
      BY <2>2, <3>1
    <3> QED BY <2>2, <3>2 DEF UnsavedWorkIsStored
  <2> QED BY <2>1, <2>2
<1>4. ASSUME NEW b \in Browsers PROVE IsSound(local[b])'
  <2>1. CASE local'[b] = local[b]
    BY <2>1 DEF IsSound, IsKnown, IsCopy, Saved
  <2>2. CASE IsSound(local'[b])
    BY <2>2 DEF IsSound, IsKnown, IsCopy, Saved
  <2> QED BY <2>1, <2>2
<1>5. ASSUME NEW u \in Tabs PROVE TabIsSound(u)'
  <2>1. CASE u # t
    BY <2>1 DEF TabIsSound, IsSound, IsKnown, IsCopy, Copy, Saved
  <2> QED BY <2>1
<1> QED BY <1>1, <1>2, <1>3, <1>4, <1>5

-----------------------------------------------------------------------------
(* The tab's steps.                                                        *)

LEMMA ReadIsSound ==
    ASSUME IInv, NEW t \in Tabs, ReadDraft(t)
    PROVE  IInv'
<1> USE DEF ReadDraft
<1>1. PICK read : /\ read = local[home[t]] \/ (row # None /\ read = Copy(row))
                  /\ loading' = [loading EXCEPT ![t] = read]
  OBVIOUS
<1>2. home[t] \in Browsers
  BY DEF IInv, TypeOK
<1>3. IsSound(read) /\ read \in Drafts \cup {None}
  BY <1>1, <1>2, RowsCopyIsSound DEF IInv, TypeOK
<1>4. TypeOK'
  BY <1>1, <1>3 DEF IInv, TypeOK, Saved, store
<1>5. TabIsSound(t)'
  BY <1>1, <1>3
     DEF IInv, TypeOK, TabIsSound, IsSound, IsKnown, IsCopy, Copy, Saved
<1>6. \A u \in Tabs \ {t} : loading'[u] = loading[u]
  BY <1>1
<1> QED BY <1>4, <1>5, <1>6, OtherTabs DEF IInv, TypeOK, UnsavedWorkIsStored, store

LEMMA ShowIsSound ==
    ASSUME IInv, NEW t \in Tabs, ShowDraft(t)
    PROVE  IInv'
<1> USE DEF ShowDraft, Keep, Move
<1>1. PICK d \in {None, loading[t]} :
         /\ draft' = [draft EXCEPT ![t] = d]
         /\ \/ /\ stage[t] = "closed"
               /\ editor' = [editor EXCEPT ![t] = IF d = None THEN None ELSE d.text]
               /\ stage' = [stage EXCEPT ![t] = "open"]
            \/ UNCHANGED <<editor, stage>>
  OBVIOUS
<1>2. IsSound(d) /\ d \in Drafts \cup {None}
  BY <1>1 DEF IInv, TypeOK, TabIsSound, IsSound, IsKnown, IsCopy
<1>3. IsSound(None) /\ loading'[t] = None
  BY DEF IInv, TypeOK, IsSound, IsKnown, IsCopy
<1>4. d # None => d.text \in Saved /\ d.text \in Texts
  BY <1>2 DEF IsSound, IsKnown, Drafts
<1>5. TypeOK'
  BY <1>1, <1>2, <1>4 DEF IInv, TypeOK, Stages, Resting, Saved, store
<1>6. TabIsSound(t)'
  <2>1. IsSound(loading[t])' /\ IsSound(draft[t])'
    BY <1>1, <1>2, <1>3 DEF IInv, TypeOK, IsSound, IsKnown, IsCopy, Saved
  <2>2. editor'[t] # None => editor'[t] \in Saved
    BY <1>1, <1>4 DEF IInv, TypeOK, TabIsSound
  <2>3. stage'[t] = "saved" => stage[t] = "saved" /\ editor'[t] = editor[t]
    BY <1>1 DEF IInv, TypeOK
  <2> QED BY <2>1, <2>2, <2>3
          DEF IInv, TabIsSound, IsSound, IsKnown, IsCopy, Copy, Saved
<1>7. \A u \in Tabs \ {t} :
         /\ loading'[u] = loading[u] /\ draft'[u] = draft[u]
         /\ editor'[u] = editor[u] /\ stage'[u] = stage[u]
  BY <1>1 DEF IInv, TypeOK
<1>8. stage'[t] \in {"sending", "saved", "refused", "kept"}
         => stage'[t] = stage[t] /\ editor'[t] = editor[t]
  BY <1>1 DEF IInv, TypeOK
<1> QED BY <1>5, <1>6, <1>7, <1>8, OtherTabs DEF IInv, TypeOK, UnsavedWorkIsStored, store

LEMMA CloseIsSound ==
    ASSUME IInv, NEW t \in Tabs, CloseTab(t)
    PROVE  IInv'
<1> USE DEF CloseTab, Keep, Move
<1>1. TypeOK'
  BY DEF IInv, TypeOK, Stages, Saved, store
<1>2. /\ stage'[t] = "closed" /\ draft'[t] = None /\ loading'[t] = None
      /\ editor'[t] = None /\ answer'[t] = None
  BY DEF IInv, TypeOK
<1>3. TabIsSound(t)'
  BY <1>2 DEF TabIsSound, IsSound, IsKnown, IsCopy
<1> QED BY <1>1, <1>2, <1>3, OtherTabs DEF IInv, TypeOK, store

LEMMA NowhereIsSound ==
    ASSUME IInv, NEW t \in Tabs, SaveNowhere(t)
    PROVE  IInv'
<1> USE DEF SaveNowhere, Move
<1>1. TypeOK'
  BY DEF IInv, TypeOK, Stages, Resting, Saved, store, page
<1>2. stage'[t] = "open"
  BY DEF IInv, TypeOK
<1>3. TabIsSound(t)'
  BY <1>2 DEF IInv, TabIsSound, IsSound, IsKnown, IsCopy, Copy, Saved, page
<1> QED BY <1>1, <1>2, <1>3, OtherTabs DEF IInv, TypeOK, store, page

LEMMA AcknowledgeIsSound ==
    ASSUME IInv, NEW t \in Tabs, Acknowledge(t)
    PROVE  IInv'
<1> USE DEF Acknowledge, Keep, Move, Store
<1>1. answer[t] \in Rows /\ answer[t].text = editor[t] /\ IsSound(Copy(answer[t]))
  BY DEF IInv, TypeOK, TabIsSound
<1>2. Copy(answer[t]) \in Drafts
  BY <1>1 DEF Copy, Rows, Drafts
<1>3. TypeOK'
  BY <1>2 DEF IInv, TypeOK, Stages, Resting, Saved
<1>4. /\ stage'[t] = "kept" /\ draft'[t] = Copy(answer[t]) /\ answer'[t] = None
      /\ \A b \in Browsers : IF b = home[t] THEN local'[b] = Copy(answer[t]) /\ writer'[b] = t
                             ELSE local'[b] = local[b] /\ writer'[b] = writer[b]
  BY DEF IInv, TypeOK
<1>5. TabIsSound(t)'
  BY <1>1, <1>4 DEF IInv, TabIsSound, IsSound, IsKnown, IsCopy, Saved
<1>6. home[t] \in Browsers /\ Copy(answer[t]).text = editor[t] /\ Copy(answer[t]) # None
  BY <1>1, <1>2, DraftsAssumption DEF IInv, TypeOK, Copy
<1>7. local'[home[t]] # None /\ local'[home[t]].text = editor'[t]
  BY <1>4, <1>6
<1>8. \A b \in Browsers : \/ local'[b] = local[b] /\ writer'[b] = writer[b]
                          \/ IsSound(local'[b]) /\ writer'[b] = t
  BY <1>1, <1>4
<1> QED BY <1>3, <1>5, <1>7, <1>8, OtherTabs DEF IInv, TypeOK

LEMMA FailIsSound ==
    ASSUME IInv, NEW t \in Tabs, SaveFails(t)
    PROVE  IInv'
<1> USE DEF SaveFails, Move
<1>1. TypeOK'
  BY DEF IInv, TypeOK, Stages, Resting, Saved, store, page
<1>2. stage'[t] = "kept" /\ answer'[t] = None
  BY DEF IInv, TypeOK
<1>3. TabIsSound(t)'
  BY <1>2 DEF IInv, TabIsSound, IsSound, IsKnown, IsCopy, Saved, page
<1>4. writer'[home[t]] = t => local'[home[t]] # None /\ local'[home[t]].text = editor'[t]
  BY DEF IInv, UnsavedWorkIsStored, store, page
<1> QED BY <1>1, <1>2, <1>3, <1>4, OtherTabs DEF IInv, TypeOK, store, page

LEMMA PreserveIsSound ==
    ASSUME IInv, NEW t \in Tabs, PreserveConflict(t)
    PROVE  IInv'
<1> USE DEF PreserveConflict, Move
<1>1. TypeOK'
  BY DEF IInv, TypeOK, Stages, Resting, Saved, page
<1>2. stage'[t] = "kept"
  BY DEF IInv, TypeOK
<1>3. TabIsSound(t)'
  BY <1>2 DEF IInv, TabIsSound, IsSound, IsKnown, IsCopy, Copy, Saved, page
<1>4. writer'[home[t]] = t => local'[home[t]] # None /\ local'[home[t]].text = editor'[t]
  BY DEF IInv, UnsavedWorkIsStored, page
<1> QED BY <1>1, <1>2, <1>3, <1>4, OtherTabs DEF IInv, TypeOK, page

\* A save makes a new text of the draft's revision and base.
LEMMA BeginIsSound ==
    ASSUME IInv, NEW t \in Tabs, BeginSave(t)
    PROVE  IInv'
<1> USE DEF BeginSave, Keep, Move, SaveLocally, Store
<1>0. PICK x, next : x = Fresh /\ next = NextDraft(t, x)
  OBVIOUS
<1>1. /\ x \in Nat \ {0} /\ x \in Texts
      /\ Saved = 1..(x - 1) /\ x \notin Saved
  BY <1>0, FreshIsFresh DEF IInv, Fresh
<1>2. Saved' = 1..x
  BY <1>0, <1>1 DEF Fresh, Saved
<1>3. /\ \A y \in Saved : y \in Saved' /\ basis'[y] = basis[y]
      /\ basis'[x] = EditedFrom(t)
  <2>1. basis' = [y \in 1..x |-> IF y = x THEN EditedFrom(t) ELSE basis[y]]
    BY <1>0 DEF Fresh
  <2>2. x \in 1..x /\ \A y \in Saved : y \in 1..x /\ y # x
    BY <1>1
  <2> QED BY <1>2, <2>1, <2>2
<1>4. SavedIsAPrefix'
  BY <1>1, <1>2 DEF SavedIsAPrefix, Texts
<1>5. next \in Drafts /\ next.text = x
  BY <1>0, <1>1, DraftsAssumption DEF IInv, TypeOK, NextDraft, Drafts
<1>6. /\ local' = [local EXCEPT ![home[t]] = next]
      /\ writer' = [writer EXCEPT ![home[t]] = t]
      /\ draft' = [draft EXCEPT ![t] = next]
      /\ editor' = [editor EXCEPT ![t] = x]
      /\ next # None
  BY <1>0, <1>5, DraftsAssumption DEF Fresh
<1>7. EditedFrom(t) \subseteq Saved
  BY DEF IInv, TypeOK, EditedFrom, TabIsSound
<1>8. requests' \in {requests, requests \cup {next}}
  BY <1>0 DEF Fresh
<1>9. TypeOK'
  <2>1. Saved' \subseteq Texts
    BY <1>1, <1>2, DraftsAssumption DEF Texts
  <2>2. \A y \in Saved' : basis'[y] \subseteq Saved'
    <3>1. \A y \in Saved' : y \in Saved \/ y = x
      BY <1>1, <1>2
    <3>2. Saved \subseteq Saved'
      BY <1>1, <1>2
    <3>3. \A y \in Saved : basis[y] \subseteq Saved
      BY DEF IInv, TypeOK
    <3> QED BY <1>3, <1>7, <3>1, <3>2, <3>3
  <2>3. stage' \in [Tabs -> Stages]
    BY DEF IInv, TypeOK, Stages, Resting
  <2>4. /\ local' \in [Browsers -> Drafts \cup {None}]
        /\ draft' \in [Tabs -> Drafts \cup {None}]
        /\ editor' \in [Tabs -> Texts \cup {None}]
        /\ writer' \in [Browsers -> Tabs \cup {None}]
        /\ requests' \subseteq Drafts
    BY <1>1, <1>5, <1>6, <1>8 DEF IInv, TypeOK
  <2> QED BY <2>1, <2>2, <2>3, <2>4 DEF IInv, TypeOK
<1>10. \A d : IsSound(d) => IsSound(d)'
  BY <1>3 DEF IsSound, IsKnown, IsCopy
<1>11. IsSound(next)'
  <2>1. CASE draft[t] = None
    BY <1>0, <1>1, <1>2, <2>1, DraftsAssumption
       DEF NextDraft, IsSound, IsKnown, IsCopy, IInv, TypeOK, Rows, Lives
  <2>2. CASE draft[t] # None
    <3>1. /\ next.life = draft[t].life /\ next.revision = draft[t].revision
          /\ next.base = draft[t].base /\ next.text = x
      BY <1>0, <2>2 DEF NextDraft
    <3>2. IsKnown(draft[t]) /\ IsCopy(draft[t])
      BY DEF IInv, TabIsSound, IsSound
    <3> QED BY <1>1, <1>2, <2>2, <3>1, <3>2 DEF IsSound, IsKnown, IsCopy
  <2> QED BY <2>1, <2>2
<1>12. RowIsSound'
  BY <1>3 DEF IInv, RowIsSound
<1>13. RequestsAreSound'
  <2>1. \A q \in requests : q.text # x
    BY <1>1, DraftsAssumption DEF IInv, TypeOK, RequestsAreSound, IsSound, IsKnown
  <2>2. \A q \in requests' : IsSound(q)'
    BY <1>8, <1>10, <1>11 DEF IInv, RequestsAreSound
  <2>3. \A q, p \in requests' : q.text = p.text => q = p
    BY <1>5, <1>8, <2>1 DEF IInv, RequestsAreSound
  <2> QED BY <2>2, <2>3 DEF RequestsAreSound
<1>14. ASSUME NEW u \in Tabs PROVE TabIsSound(u)'
  <2>1. CASE u # t
    <3>1. /\ loading'[u] = loading[u] /\ draft'[u] = draft[u]
          /\ editor'[u] = editor[u] /\ answer'[u] = answer[u] /\ stage'[u] = stage[u]
      BY <1>6, <2>1 DEF IInv, TypeOK
    <3> QED BY <1>3, <1>10, <3>1 DEF IInv, TabIsSound, Copy
  <2>2. CASE u = t
    <3>1. /\ loading'[t] = loading[t] /\ draft'[t] = next /\ editor'[t] = x
          /\ answer'[t] = answer[t] /\ stage'[t] \in {"sending", "kept"}
      BY <1>6 DEF IInv, TypeOK
    <3>2. x \in Saved'
      BY <1>1, <1>2
    <3> QED BY <1>10, <1>11, <2>2, <3>1, <3>2 DEF IInv, TabIsSound, Copy
  <2> QED BY <2>1, <2>2
<1>15. ASSUME NEW b \in Browsers PROVE IsSound(local[b])'
  <2>1. local'[b] \in {local[b], next}
    BY <1>6 DEF IInv, TypeOK
  <2> QED BY <1>10, <1>11, <2>1 DEF IInv
<1>16. UnsavedWorkIsStored'
  <2> SUFFICES ASSUME NEW u \in Tabs,
                      stage'[u] \in {"sending", "saved", "refused", "kept"},
                      writer'[home[u]] = u
               PROVE  local'[home[u]] # None /\ local'[home[u]].text = editor'[u]
    BY DEF UnsavedWorkIsStored
  <2>1. home[u] \in Browsers /\ home[t] \in Browsers
    BY DEF IInv, TypeOK
  <2>2. CASE u = t
    BY <1>5, <1>6, <2>1, <2>2 DEF IInv, TypeOK
  <2>3. CASE u # t
    <3>1. home[u] # home[t]
      BY <1>6, <2>1, <2>3 DEF IInv, TypeOK
    <3>2. /\ local'[home[u]] = local[home[u]] /\ writer[home[u]] = u
          /\ editor'[u] = editor[u] /\ stage'[u] = stage[u]
      BY <1>6, <2>1, <2>3, <3>1 DEF IInv, TypeOK
    <3> QED BY <3>2 DEF IInv, UnsavedWorkIsStored
  <2> QED BY <2>2, <2>3
<1> QED BY <1>4, <1>9, <1>12, <1>13, <1>14, <1>15, <1>16 DEF IInv

-----------------------------------------------------------------------------
(* The server's steps.                                                     *)

\* What a successful put leaves: a row of a later revision or of a new life,
\* with the text of the request.
Overwrites(q) ==
    /\ row' \in Rows
    /\ row'.text = q.text
    /\ \/ row = None /\ lives' = lives + 1 /\ row'.life = lives'
       \/ /\ row # None /\ lives' = lives
          /\ row'.life = row.life /\ row'.revision = row.revision + 1

LEMMA PutOverwrites ==
    ASSUME TypeOK, NEW q \in requests,
           \/ row = None /\ InsertRow(q.text)
           \/ row # None /\ UpdateRow(q.text)
    PROVE  Overwrites(q) /\ lives' \in 0..MaxLives
<1>1. q.text \in Texts
  BY DEF TypeOK, Drafts
<1>2. CASE row = None /\ InsertRow(q.text)
  BY <1>1, <1>2, DraftsAssumption DEF InsertRow, Overwrites, Rows, Lives, TypeOK
<1>3. CASE row # None /\ UpdateRow(q.text)
  <2>1. row \in Rows
    BY <1>3 DEF TypeOK
  <2>2. row' = [revision |-> row.revision + 1, text |-> q.text, life |-> row.life]
    BY <1>3, <2>1 DEF UpdateRow, Rows
  <2>3. /\ row'.revision = row.revision + 1 /\ row'.text = q.text
        /\ row'.life = row.life
    BY <2>2
  <2>4. row.revision \in Nat \ {0} /\ row.life \in Lives
    BY <2>1 DEF Rows
  <2>5. row' \in Rows
    BY <1>1, <2>2, <2>4 DEF Rows
  <2> QED BY <1>3, <2>3, <2>5 DEF UpdateRow, Overwrites, TypeOK
<1> QED BY <1>2, <1>3

LEMMA PutIsSound ==
    ASSUME IInv, NEW q \in requests, PutDraft(q)
    PROVE  IInv'
<1> USE DEF PutDraft
<1>1. q \in Drafts /\ IsSound(q) /\ q # None
  BY DraftsAssumption DEF IInv, TypeOK, RequestsAreSound
<1>2. requests' \subseteq requests
  OBVIOUS
<1>3. PICK s \in {"saved", "refused", "kept"} : Tell(q, s)
  BY DEF Return
<1>4. \A u \in Tabs : stage'[u] = IF Waits(u, q) THEN s ELSE stage[u]
  BY <1>3 DEF Tell
<1>5. UnsavedWorkIsStored'
  BY <1>4 DEF IInv, UnsavedWorkIsStored, Waits, store, page
<1>6. SavedIsAPrefix'
  BY DEF IInv, SavedIsAPrefix, Saved
<1>7. CASE /\ \/ row = None /\ InsertRow(q.text)
              \/ row # None /\ UpdateRow(q.text)
           /\ Return(q)
  <2>1. Overwrites(q) /\ lives' \in 0..MaxLives
    BY <1>7, PutOverwrites DEF IInv
  <2>2. TypeOK'
    BY <1>2, <1>4, <1>7, <2>1
       DEF IInv, TypeOK, Overwrites, Return, Tell, Stages, Resting, Saved, store, page
  <2>3. row' # None /\ RowIsSound'
    BY <1>1, <2>1, DraftsAssumption
       DEF IInv, RowIsSound, Overwrites, Saved, Rows, Drafts, IsSound, IsKnown
  <2>4. ASSUME NEW d \in Drafts \cup {None}, IsSound(d)
        PROVE  IsSound(d)'
    <3>1. CASE d = None
      BY <3>1 DEF IsSound, IsKnown, IsCopy
    <3>2. CASE d # None
      BY <2>1, <2>4, <3>2, DraftsAssumption
         DEF IsSound, IsKnown, IsCopy, Overwrites, Drafts, Rows, Lives, Saved, IInv,
             TypeOK, RowIsSound
    <3> QED BY <3>1, <3>2
  <2>5. IsSound(Copy(row))'
    BY <2>1, <2>3, DraftsAssumption
       DEF IsSound, IsKnown, IsCopy, Copy, RowIsSound, Overwrites, Rows, Lives, IInv,
           TypeOK
  <2>6. RequestsAreSound'
    BY <1>2, <2>4 DEF IInv, TypeOK, RequestsAreSound
  <2>7. ASSUME NEW b \in Browsers PROVE IsSound(local[b])'
    BY <2>4 DEF IInv, TypeOK, store
  <2>8. ASSUME NEW u \in Tabs PROVE TabIsSound(u)'
    <3>1. IsSound(loading[u])' /\ IsSound(draft[u])'
      BY <2>4 DEF IInv, TypeOK, TabIsSound, page
    <3>2. editor'[u] # None => editor'[u] \in Saved'
      BY DEF IInv, TabIsSound, Saved, page
    <3>3. answer[u] # None => Copy(answer[u]) \in Drafts
      BY DEF IInv, TypeOK, Copy, Rows, Drafts
    <3>4. answer'[u] = IF Waits(u, q) THEN row' ELSE answer[u]
      BY <1>7 DEF Return
    <3>5. answer'[u] # None => IsSound(Copy(answer[u]))'
      <4>1. CASE Waits(u, q)
        BY <2>5, <3>4, <4>1 DEF Copy
      <4>2. CASE ~ Waits(u, q)
        BY <2>4, <3>3, <3>4, <4>2 DEF IInv, TabIsSound, Copy
      <4> QED BY <4>1, <4>2
    <3>6. stage'[u] = "saved" => answer'[u] # None /\ answer'[u].text = editor'[u]
      BY <1>4, <2>1, <2>3, <3>4 DEF Waits, Overwrites, IInv, TabIsSound, page
    <3> QED BY <3>1, <3>2, <3>5, <3>6 DEF TabIsSound
  <2> QED BY <1>5, <1>6, <2>2, <2>3, <2>6, <2>7, <2>8 DEF IInv
<1>8. CASE /\ \E r \in {"refused", "kept"} : Tell(q, r)
           /\ UNCHANGED <<row, answer, lives>>
  <2>1. TypeOK'
    BY <1>2, <1>3, <1>4, <1>8
       DEF IInv, TypeOK, Tell, Stages, Resting, Saved, store, page
  <2>2. RowIsSound'
    BY <1>8 DEF IInv, RowIsSound, Saved
  <2>3. \A d : IsSound(d) => IsSound(d)'
    BY <1>8 DEF IsSound, IsKnown, IsCopy, Saved
  <2>4. RequestsAreSound'
    BY <1>2, <2>3 DEF IInv, RequestsAreSound
  <2>5. ASSUME NEW b \in Browsers PROVE IsSound(local[b])'
    BY <2>3 DEF IInv, store
  <2>6. ASSUME NEW u \in Tabs PROVE TabIsSound(u)'
    <3>1. stage'[u] = "saved" => stage[u] = "saved"
      BY <1>8 DEF Tell
    <3> QED BY <1>8, <2>3, <3>1 DEF IInv, TabIsSound, Copy, Saved, page
  <2> QED BY <1>5, <1>6, <2>1, <2>2, <2>4, <2>5, <2>6 DEF IInv
<1> QED
  <2>1. \/ /\ \/ row = None /\ InsertRow(q.text)
              \/ row # None /\ UpdateRow(q.text)
           /\ Return(q)
        \/ /\ \E r \in {"refused", "kept"} : Tell(q, r)
           /\ UNCHANGED <<row, answer, lives>>
    OBVIOUS
  <2> QED BY <1>7, <1>8, <2>1

LEMMA DeleteIsSound ==
    ASSUME IInv, DeleteDraft
    PROVE  IInv'
<1> USE DEF DeleteDraft
<1>1. row' = None /\ UNCHANGED <<home, store, page, stage, requests, answer, lives, basis>>
  OBVIOUS
<1>2. TypeOK' /\ SavedIsAPrefix' /\ RowIsSound' /\ UnsavedWorkIsStored'
  BY <1>1 DEF IInv, TypeOK, SavedIsAPrefix, RowIsSound, UnsavedWorkIsStored, Saved,
              store, page
<1>3. \A d : IsSound(d) => IsSound(d)'
  BY <1>1 DEF IsSound, IsKnown, IsCopy, Saved
<1> QED BY <1>1, <1>2, <1>3
        DEF IInv, RequestsAreSound, TabIsSound, Copy, Saved, store, page

LEMMA StutterIsSound ==
    ASSUME IInv, UNCHANGED vars
    PROVE  IInv'
<1>1. \A d : IsSound(d) => IsSound(d)'
  BY DEF IsSound, IsKnown, IsCopy, Saved, vars
<1> QED BY <1>1
        DEF IInv, TypeOK, SavedIsAPrefix, RowIsSound, UnsavedWorkIsStored,
            RequestsAreSound, TabIsSound, Copy, Saved, vars, store, page

-----------------------------------------------------------------------------
(* The theorems.                                                           *)

LEMMA NextIsSound == IInv /\ [Next]_vars => IInv'
  BY ReadIsSound, ShowIsSound, CloseIsSound, BeginIsSound, NowhereIsSound,
     AcknowledgeIsSound, FailIsSound, PreserveIsSound, PutIsSound, DeleteIsSound,
     StutterIsSound
     DEF Next

\* The inductive invariant: every copy of the row, in whatever store, load, page
\* or request, is behind the row or has the row's text for its base.
THEOREM Invariance == Spec => []IInv
  BY InitIsSound, NextIsSound, PTL DEF Spec

\* The types of the row and of its copies.
THEOREM DraftsTypeCorrect == Spec => []TypeOK
<1>1. IInv => TypeOK
  BY DEF IInv
<1> QED BY <1>1, Invariance, PTL

\* However saves fail or collide and pages are loaded again under their editors,
\* the text of a save that passed the browser's store is there until another tab
\* of that browser replaces it (save of WorkspacePage.tsx).
THEOREM WorkIsStored == Spec => []UnsavedWorkIsStored
<1>1. IInv => UnsavedWorkIsStored
  BY DEF IInv
<1> QED BY <1>1, Invariance, PTL

\* Of the steps, only a request writes the row.
LEMMA WritesAreRequests ==
    ASSUME TypeOK, [Next]_vars, row' # None, row' # row
    PROVE  \E q \in requests :
              /\ PutDraft(q)
              /\ row # None => row.revision = q.revision /\ row'.text = q.text
<1>1. PICK q \in requests : PutDraft(q)
  BY DEF Next, vars, ReadDraft, ShowDraft, CloseTab, BeginSave, SaveNowhere,
         Acknowledge, SaveFails, PreserveConflict, DeleteDraft
<1>2. row # None => row.revision = q.revision /\ UpdateRow(q.text)
  BY <1>1 DEF PutDraft
<1>3. row # None => row \in Rows
  BY DEF TypeOK
<1> QED BY <1>1, <1>2, <1>3 DEF UpdateRow, Rows

\* The compare-and-swap of put_draft protects what was saved since a copy of the
\* row was made, for any number of tabs, late requests and deletions.
THEOREM SavesLoseNothingBetween == Spec => SavesReplaceWhatTheyName
<1>1. ASSUME IInv, [Next]_vars, NEW q \in requests,
             row # None, q.life = row.life,
             row' # None, row' # row, row'.text = q.text
      PROVE  row.text = q.base
  <2>1. PICK p \in requests : row.revision = p.revision /\ row'.text = p.text
    BY <1>1, WritesAreRequests DEF IInv
  <2>2. p = q /\ IsCopy(q) /\ q # None
    BY <1>1, <2>1, DraftsAssumption DEF IInv, TypeOK, RequestsAreSound, IsSound
  <2> QED BY <1>1, <2>1, <2>2 DEF IsCopy
<1>2. IInv /\ [Next]_vars =>
         [\A q \in requests :
            /\ row # None /\ q.life = row.life
            /\ row' # None /\ row' # row /\ row'.text = q.text
            => row.text = q.base]_vars
  BY <1>1
<1> QED BY <1>2, Invariance, PTL DEF Spec, SavesReplaceWhatTheyName
=============================================================================
