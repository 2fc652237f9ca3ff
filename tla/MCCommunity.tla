---------------------------- MODULE MCCommunity ----------------------------
(* Two posts of a member on the first version of a problem, in pages of     *)
(* one, and a post of the member's on its correction; two moderators race   *)
(* on them.  The moderators are symmetric, and so are the first two posts   *)
(* and the requests.                                                        *)
EXTENDS Community, TLC

CONSTANTS m1, s1, s2, s3, a1, a2, q1, q2

MCSubmissions == {s1, s2, s3}
MCOwner == [s \in MCSubmissions |-> m1]
MCVersionOf == [s \in MCSubmissions |-> IF s = s3 THEN 2 ELSE 1]
MCIds == 1..Cardinality(MCSubmissions)

MCModerators == {a1, a2}
MCSlots == {q1, q2}
Symmetry ==
    Permutations(MCModerators) \cup Permutations({s1, s2}) \cup Permutations(MCSlots)

\* A list that overlaps another is told nothing of until the panel is left; and
\* moderators race, or requests do.
OneListOneRace ==
    \A r \in Readers :
        /\ walk[r].overlap # "anew"
        /\ \/ \E m \in Moderators : deciding[m] = None
           \/ \A s \in Slots : asked[r][s] = None
=============================================================================
