----------------------------- MODULE MCSessions ------------------------------
(* Two callbacks that may carry the state of one attempt, and two tabs,      *)
(* while policies become required: two versions of one kind, one of another. *)
EXTENDS Sessions, TLC

CONSTANTS a1, a2, c1, c2, t1, t2, terms, privacy

MCAttempts == {a1, a2}
MCCallbacks == {c1, c2}
MCTabs == {t1, t2}
MCPolicies == {[kind |-> terms, version |-> 1], [kind |-> terms, version |-> 2],
               [kind |-> privacy, version |-> 1]}

Symmetry ==
    Permutations(MCAttempts) \cup Permutations(MCCallbacks) \cup Permutations(MCTabs)
=============================================================================
