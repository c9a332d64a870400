----------------------------- MODULE EmbedClient -----------------------------
(***************************************************************************)
(* embed/client.rs: texts are cut into chunks, the chunks are sent         *)
(* side by side, each request is tried again when it may help, and an      *)
(* answer is read in one of three formats: OpenAI (each vector may carry   *)
(* the index of its text), Ollama (in order) and the older Ollama (one     *)
(* vector only).  Time is left out: a delay is a request that is not       *)
(* answered yet.  A vector is known by the text it was computed from; a    *)
(* model has one dimension.                                                *)
(***************************************************************************)
EXTENDS Integers, SequencesExt, FiniteSetsExt

CONSTANTS BatchSize, MaxConcurrency, MaxRetries

ASSUME ClientAssumption ==
  BatchSize \in Nat \ {0} /\ MaxConcurrency \in Nat \ {0} /\ MaxRetries \in Nat

NoVector == << >>
Vector(text) == <<text>>

-----------------------------------------------------------------------------
(* What is to be embedded, in chunks that wait, are under way or done.     *)
Waiting(items) == [items |-> items, is |-> "waiting", attempt |-> 0]
Chunks(items) ==
  [i \in 1..((Len(items) + BatchSize - 1) \div BatchSize) |->
     Waiting(SubSeq(items, (i - 1) * BatchSize + 1, Min({i * BatchSize, Len(items)})))]
With(chunks, state) == {i \in DOMAIN chunks : chunks[i].is = state}

(* buffer_unordered starts the chunks in order, so many at once.           *)
Startable(chunks) ==
  IF Cardinality(With(chunks, "sent")) < MaxConcurrency /\ With(chunks, "waiting") # {}
  THEN {Min(With(chunks, "waiting"))} ELSE {}

-----------------------------------------------------------------------------
(* What may come of a request: no connection or no answer in time, a       *)
(* status, or a body.                                                      *)
Unnumbered == -1
Item(index, vector) == [index |-> index, vector |-> vector]
Body(format, items) == [is |-> "ok", format |-> format, items |-> items]
Failure(kind) == [is |-> kind, format |-> "none", items |-> << >>]

(* send_with_retry, is_retryable_status: tried again while tries are left. *)
IsRetryable(response) == response.is \in {"error", "unavailable"}
TriedAgain(response, attempt) == IsRetryable(response) /\ attempt < MaxRetries

(* parse_response: for each of n texts its vector, or none.                *)
FaultPlaceOf(items, position) == position
PlaceOf(items, position) ==
  IF items[position].index = Unnumbered THEN position ELSE items[position].index + 1
ParseResponse(response, n) ==
  LET items == response.items
      placed(i) == {k \in DOMAIN items : PlaceOf(items, k) = i}
  IN [i \in 1..n |->
        CASE response.format = "data" /\ placed(i) # {} -> items[Max(placed(i))].vector
          [] response.format = "embeddings" /\ i \in DOMAIN items -> items[i].vector
          [] response.format = "embedding" /\ i = 1 /\ items # << >> -> items[1].vector
          [] OTHER -> NoVector]
EmbedBatch(response, n) ==
  IF response.is = "ok" THEN ParseResponse(response, n) ELSE [i \in 1..n |-> NoVector]

(* embed_query: the first vector, whatever its index.                      *)
EmbedQuery(response) ==
  IF response.is = "ok" /\ response.format # "none" /\ response.items # << >>
  THEN Head(response.items).vector ELSE NoVector

-----------------------------------------------------------------------------
(* What an endpoint answers to texts: all of them, in an order of its own  *)
(* when it numbers them; or, badly, too few, too many, or an empty vector. *)
Orders(n) == {f \in [1..n -> 1..n] : \A i, j \in 1..n : f[i] = f[j] => i = j}
Indexed(texts, order) == [k \in DOMAIN order |-> Item(order[k] - 1, Vector(texts[order[k]]))]
InOrder(texts) == [k \in DOMAIN texts |-> Item(Unnumbered, Vector(texts[k]))]
Answers(server, texts) ==
  CASE server = "openai" ->
         {Body("data", InOrder(texts))} \cup {Body("data", Indexed(texts, o)) : o \in Orders(Len(texts))}
    [] server = "ollama" -> {Body("embeddings", InOrder(texts))}
    [] server = "legacy" -> {Body("embedding", InOrder(<<texts[1]>>))}
BadItems(items) ==
  {SubSeq(items, 1, Len(items) - 1), Append(items, Item(Len(items), Vector("more"))),
   [items EXCEPT ![1].vector = NoVector]}
BadAnswers(server, texts) ==
  {Failure("refused"), Failure("malformed"), Body("none", << >>)}
  \cup UNION {{Body(a.format, items) : items \in BadItems(a.items)} : a \in Answers(server, texts)}
Outages == {Failure("error"), Failure("unavailable")}
=============================================================================
