---------------------------- MODULE MCHttpLimits -----------------------------
(* Two clients behind one address and one with its own, against caches of   *)
(* two keys: a third client evicts another's bucket.                        *)
EXTENDS HttpLimits, TLC

CONSTANTS a1, a2, b1, A, B

MCClients == {a1, a2, b1}
MCAddresses == {A, B}
MCAddressOf == a1 :> A @@ a2 :> A @@ b1 :> B

Symmetry == Permutations({a1, a2})
=============================================================================
