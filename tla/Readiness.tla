------------------------------ MODULE Readiness ------------------------------
(***************************************************************************)
(* What a client is told of the embeddings of a project, composed with     *)
(* those who make them (EmbedStore): wait_for_embeddings polls the         *)
(* registry of progress, or counts the store on disk when the registry     *)
(* knows nothing of the project; ensure_project_ready indexes, does not    *)
(* wait, and says "ready" unless that call started a generation.  An entry *)
(* of the registry is never removed while the process lives.               *)
(***************************************************************************)
EXTENDS EmbedStore

VARIABLE waiter     \* wait_for_embeddings: the symbols it counted when it began

NoWaiter == [waiting |-> FALSE, symbols |-> 0]
readyVars == <<vars, waiter>>

(* wait_for_embeddings                                                     *)
BeginWait ==
  /\ ~waiter.waiting
  /\ waiter' = [waiting |-> TRUE, symbols |-> Cardinality(Live(index))]

Counts ==
  IF progress # NoProgress THEN [stored |-> progress.stored, total |-> progress.total]
  ELSE [stored |-> Cardinality(DOMAIN Loaded(binFile)), total |-> waiter.symbols]

AnswerReady ==
  /\ waiter.waiting /\ Counts.stored >= Counts.total
  /\ waiter' = NoWaiter

(* The deadline passes between two polls.                                  *)
TimeOut ==
  /\ waiter.waiting /\ Counts.stored < Counts.total
  /\ waiter' = NoWaiter

Wait == BeginWait \/ AnswerReady \/ TimeOut

(* ensure_project_ready tells "ready" of a call of index_project that      *)
(* found the index in force, and vectors for it.                           *)
EnsuredReady(g) == IndexCached(g) /\ ~NeedsEmbed

(* The client's process ends with the server's.                            *)
ReadinessInit == Init /\ waiter = NoWaiter
ReadinessNext ==
  \/ Next /\ waiter' = (IF Restart THEN NoWaiter ELSE waiter)
  \/ Wait /\ UNCHANGED vars
ReadinessSpec == ReadinessInit /\ [][ReadinessNext]_readyVars /\ Fairness

(* "Embeddings complete", read from the registry: a generation that runs   *)
(* undisturbed has a vector for every symbol it knows, though it may not   *)
(* be on disk yet; or it has not counted them yet, and the answer tells of *)
(* a former one, which had ended: it gives the time when it did.  And when *)
(* nothing is under way, no edit is unseen and no work was lost, the store *)
(* on disk is that of the tree, and of this model.  "Ready" from           *)
(* ensure_project_ready promises the first of these, of whatever model the *)
(* metadata names.                                                         *)
Calm == AllIdle /\ pending = {} /\ UpToDate /\ ~dirty
CompleteFor(g) == Live(task[g].snapshot) \subseteq DOMAIN task[g].store
ReadyAnswersHonest ==
  [][/\ AnswerReady /\ progress # NoProgress =>
          /\ \A g \in Generators :
               task[g].alone /\ task[g].pc \in Running
                 => IF task[g].pc \in {"load", "plan"} THEN progress.finished
                                                       ELSE CompleteFor(g)
          /\ Calm => StoreMatches /\ Compatible
     /\ \A g \in Generators : EnsuredReady(g) /\ Calm => StoreMatches]_readyVars
=============================================================================
