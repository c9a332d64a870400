---------------------------- MODULE MCEmbedStore ----------------------------
(* Instances of EmbedStore and Readiness for TLC. *)
EXTENDS Readiness

CONSTANTS f1, g1, a, b

OneFile == {f1}
OneGenerator == {g1}
TwoConfigs == {a, b}
=============================================================================
