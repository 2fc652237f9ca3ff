------------------------------ MODULE MCDrafts ------------------------------
(* Two tabs, of one browser or of two, and the saves it takes for them to    *)
(* race for the first revision, for a stale tab to come back, and for a row   *)
(* to be deleted and created again under a revision another tab still holds.  *)
EXTENDS Drafts, FiniteSets, TLC

Symmetry == Permutations(Tabs) \cup Permutations(Browsers)

\* What the texts were edited from is read by NoLostUpdate alone.
WithoutBasis ==
    <<row, home, store, page, stage, requests, answer, lives, Saved>>

Abandoned == {q \in requests : \A t \in Tabs : ~ Waits(t, q)}

\* One load is under way, or one request without a page that waits for it.
OneStraggler ==
    Cardinality({t \in Tabs : loading[t] # None}) + Cardinality(Abandoned) =< 1

\* Nothing is late: what goes wrong then takes no more than two tabs.
NoStraggler == Abandoned = {} /\ \A t \in Tabs : loading[t] = None
=============================================================================
