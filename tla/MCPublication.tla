--------------------------- MODULE MCPublication ---------------------------
(* Versions of a problem that compete for the calendar; the contents are    *)
(* told apart only by being sound, so permutations of the sound ones and of *)
(* the versions are symmetries; dates are ordered.                           *)
EXTENDS Publication, TLC

CONSTANTS c1, c2, c3

MCContents == {c1, c2, c3}
MCSound == {c1, c2}

Symmetry ==
    Permutations(Versions) \cup Permutations(MCSound) \cup Permutations(Problems)
    \cup Permutations(Members) \cup Permutations(Admins)
=============================================================================
