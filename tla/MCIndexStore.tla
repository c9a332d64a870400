---------------------------- MODULE MCIndexStore ----------------------------
(* Small instances of IndexStore for TLC. *)
EXTENDS IndexStore, TLC

CONSTANTS f1, f2, p1, p2, r1, default, custom, none

MCFiles == {f1, f2}
OneFile == {f1}
MCTwoIndexers == {p1, p2}
MCSymmetry == Permutations(MCTwoIndexers)
MCOneIndexer == {p1}
MCReader == {r1}
MCNoReader == {}
MCOnePolicy == {default}
MCTwoPolicies == {default, custom}
(* Nothing is excluded, or the caller's own list hides f2. *)
MCHides == [policy \in Policies |-> IF policy = default THEN {} ELSE Files \ {f1}]
=============================================================================
