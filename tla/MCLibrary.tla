----------------------------- MODULE MCLibrary -----------------------------
(* Versions of a problem that compete for the calendar; the contents are    *)
(* told apart only by being sound, so permutations of the sound ones and of *)
(* the versions are symmetries; dates are ordered.  Pages hold one problem. *)
EXTENDS Library

CONSTANTS c1, c2, c3

MCContents == {c1, c2, c3}
MCSound == {c1, c2}
MCFilters == {MCContents, {c1}, {c2}}

Symmetry ==
    Permutations(Versions) \cup Permutations(MCSound) \cup Permutations(Problems)
    \cup Permutations(Members) \cup Permutations(Admins) \cup Permutations(Slots)

\* A member's list and page have nothing in common, and a list that overlaps
\* another is told nothing of until it is asked for again, with nothing under way.
OneThingAtATime ==
    \A m \in Members :
        walk[m] # None => shown[m] = None /\ walk[m].overlap # "anew"
=============================================================================
