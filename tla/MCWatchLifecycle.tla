--------------------------- MODULE MCWatchLifecycle ---------------------------
(* Small instances of WatchLifecycle for TLC: the calls of two processes. *)
EXTENDS WatchLifecycle, TLC

CONSTANTS s1, s2, a, b, c

MCProcesses == {s1, s2}
MCCalls == {a, b, c}
MCHome == (a :> s1) @@ (b :> s1) @@ (c :> s2)
=============================================================================
