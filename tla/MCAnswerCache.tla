---------------------------- MODULE MCAnswerCache ----------------------------
(* Small instances of AnswerCache and ReadMemory for TLC.  A client either *)
(* investigates or reads: the two meet in the table of sessions only.      *)
EXTENDS ReadMemory

CONSTANTS p1, w1, c1, c2, main, other, q1, q2, t1, t2, v1, v2

VARIABLE client

MCIndexers == {p1}
MCTwoClients == {c1, c2}
MCOthers == {other}
MCOneQuery == {q1}
MCTargets == {t1, t2}
MCContents == {v1, v2}
MCSymmetry == Permutations(MCTwoClients) \cup Permutations(MCTargets) \cup Permutations(MCContents)

MCInit == SessionInit /\ client \in {"investigates", "reads"}
MCNext ==
  \/ client = "investigates" /\ Next /\ Forgets /\ UNCHANGED client
  \/ client = "reads" /\ (ReadNext \/ (OtherProject /\ Forgets)) /\ UNCHANGED client
MCSpec == MCInit /\ [][MCNext]_<<sessionVars, client>>
=============================================================================
