---------------------------- MODULE Navigation_proof ----------------------------
(***************************************************************************)
(* Proofs about the tracing of an execution path, for every index, every   *)
(* graph and every request: that the neighbourhood of each seed is traced, *)
(* and that the path shown is the cheapest.  About answers by pages: that  *)
(* they are the whole answer, and each part of it once.  And about the     *)
(* text index that a search reads: that its sentinel vouches, that a lone  *)
(* writer repairs.                                                         *)
(***************************************************************************)
EXTENDS UsagePages, TextIndex, CallGraph_proof, SequenceTheorems, TLAPS

\* What a way is: a call costs thirty at least.
WayOK(w) ==
  /\ w = Way(w.id, w.cost, w.hops, w.priority)
  /\ w.cost \in Nat /\ w.hops \in Nat /\ w.priority \in Int
  /\ w.cost >= 30 * w.hops
WaysKnown(known) == \A id \in DOMAIN known : WayOK(known[id]) /\ known[id].id = id
WaysOK == (\A w \in frontier : WayOK(w)) /\ WaysKnown(best)

\* What the search of a seed has done.
Priced(e) == e.cost \in 30..58 /\ e.priority \in 0..200
Reached(id) == Traced(id) \/ best[id] \in frontier \/ best[id].hops >= Depth
Around(id) ==
  best[id].cost = 0 /\ Depth > 0 =>
    best[id] \in frontier \/ \A to \in Called(id) : to \in DOMAIN best /\ best[to].cost <= 58
Tracing ==
  /\ WaysOK
  /\ \A w \in frontier : Indexed(w.id)
  /\ \A id \in DOMAIN best : Indexed(id) /\ Reached(id) /\ Around(id)
  /\ \A id \in pending : Indexed(id)
  /\ \A id \in DiscoverSeedIds \ pending : Indexed(id) =>
       Neighbourhood(id) \/ (id \in DOMAIN best /\ best[id].cost = 0)
SeedsTraced == \A id \in DiscoverSeedIds : Indexed(id) => Neighbourhood(id)

\* What the search for a path has done.
Followable(id) == \A e \in Outgoing(id) : e.to \in DOMAIN best /\ best[e.to].cost <= best[id].cost + e.cost
Parented(id) ==
  /\ parent[id] \in answer.calls /\ parent[id].to = id
  /\ parent[id].from \in DOMAIN best
  /\ best[parent[id].from].cost + parent[id].cost <= best[id].cost
Connected ==
  /\ WaysOK
  /\ answer.start # answer.goal
  /\ \A e \in answer.calls : Priced(e)
  /\ answer.start \in DOMAIN best /\ best[answer.start].cost = 0
  /\ DOMAIN parent = DOMAIN best \ {answer.start}
  /\ \A id \in DOMAIN parent : Parented(id)
Connecting ==
  /\ Connected /\ answer = PathOver(answer.calls, answer.start, answer.goal)
  /\ \A w \in frontier : w.id \in DOMAIN best
  /\ \A id \in DOMAIN best : best[id] \in frontier \/ Followable(id)

\* No way to the goal is left that could be cheaper.
Beaten(id) == answer.goal \in DOMAIN best /\ best[answer.goal].cost <= best[id].cost
Finished == \A id \in DOMAIN best : Beaten(id) \/ Followable(id)
Suffix ==
  LET path == answer.path
  IN /\ path \in Seq(answer.calls)
     /\ path # << >> => path[Len(path)].to = answer.goal
     /\ \A i \in 1..(Len(path) - 1) : path[i].to = path[i + 1].from
     /\ Cost(path) + best[Retraced].cost <= best[answer.goal].cost
Retracing ==
  /\ Connected /\ Finished
  /\ answer = [PathOver(answer.calls, answer.start, answer.goal) EXCEPT !.path = answer.path]
  /\ answer.goal \in DOMAIN best /\ Retraced \in DOMAIN best
  /\ Suffix

Phases == {"asked", "tracing", "connecting", "retracing", "answered", "paging"}
NavigationInv ==
  /\ project \in Projects
  /\ graph # Unbuilt => graph = BuildNavigationGraph
  /\ phase \in Phases /\ (phase # "paging" => request \in Requests)
  /\ \A e \in edges : Priced(e)
  /\ phase \in {"asked", "tracing"} => parent = << >>
  /\ phase = "asked" => frontier = {} /\ best = << >>
  /\ phase = "tracing" => Tracing
  /\ phase \in {"connecting", "retracing", "answered"} => SeedsTraced
  /\ phase = "connecting" => Connecting
  /\ phase = "retracing" => Retracing
  /\ CheapestPath

-----------------------------------------------------------------------------
(* Chains and what they cost.                                              *)

\* The sums along a chain, the last of which is what it costs.
Sums(chain, n, U) ==
  /\ U \in [0..n -> Nat] /\ U[0] = 0
  /\ \A i \in 1..n : U[i] = U[i - 1] + chain[i].cost
LEMMA SumsExist ==
  ASSUME NEW chain, NEW n \in Nat, \A i \in 1..n : chain[i].cost \in Nat
  PROVE  \E U : Sums(chain, n, U)
<1> DEFINE S == {k \in Nat : k <= n => \E U : Sums(chain, k, U)}
<1>1. 0 \in S
  <2>1. Sums(chain, 0, [i \in 0..0 |-> 0])
    BY DEF Sums
  <2> QED
    BY <2>1
<1>2. ASSUME NEW k \in S PROVE k + 1 \in S
  <2> SUFFICES ASSUME k + 1 <= n PROVE \E U : Sums(chain, k + 1, U)
    OBVIOUS
  <2>1. PICK U : Sums(chain, k, U)
    OBVIOUS
  <2> DEFINE V == [i \in 0..(k + 1) |-> IF i <= k THEN U[i] ELSE U[k] + chain[k + 1].cost]
  <2>2. U \in [0..k -> Nat] /\ chain[k + 1].cost \in Nat /\ U[k] \in Nat
    BY <2>1 DEF Sums
  <2>3. V \in [0..(k + 1) -> Nat] /\ V[0] = 0
    BY <2>1, <2>2 DEF Sums
  <2>4. ASSUME NEW i \in 1..(k + 1) PROVE V[i] = V[i - 1] + chain[i].cost
    <3>1. CASE i <= k
      BY <2>1, <3>1 DEF Sums
    <3>2. CASE i = k + 1
      BY <3>2
    <3> QED
      BY <3>1, <3>2
  <2>5. Sums(chain, k + 1, V)
    <3> HIDE DEF V
    <3> QED
      BY <2>3, <2>4 DEF Sums
  <2> QED
    BY <2>5
<1> HIDE DEF S
<1>3. S = Nat
  BY <1>1, <1>2, Counting DEF S
<1> QED
  BY <1>3 DEF S

LEMMA CostIsSum ==
  ASSUME NEW chain, Len(chain) \in Nat, \A i \in 1..Len(chain) : chain[i].cost \in Nat
  PROVE  \E U : Sums(chain, Len(chain), U) /\ Cost(chain) = U[Len(chain)]
<1> DEFINE n == Len(chain)
           Body(U) == [i \in 0..n |-> IF i = 0 THEN 0 ELSE U[i - 1] + chain[i].cost]
           U == CHOOSE V : V = Body(V)
<1>1. PICK W : Sums(chain, n, W)
  BY SumsExist
<1>2. W = Body(W)
  BY <1>1 DEF Sums
<1>3. U = Body(U)
  BY <1>2
<1>4. Cost(chain) = U[n]
  BY DEF Cost
<1>5. U[0] = 0 /\ \A i \in 1..n : U[i] = U[i - 1] + chain[i].cost
  <2> HIDE DEF U
  <2> QED
    BY <1>3
<1>6. DOMAIN U = 0..n
  <2> HIDE DEF U
  <2> QED
    BY <1>3
<1> HIDE DEF U
<1>7. U \in [0..n -> Nat]
  <2> DEFINE S == {k \in Nat : k <= n => U[k] \in Nat}
  <2>1. 0 \in S
    BY <1>5
  <2>2. ASSUME NEW k \in S PROVE k + 1 \in S
    <3> SUFFICES ASSUME k + 1 <= n PROVE U[k + 1] \in Nat
      OBVIOUS
    <3>1. k + 1 \in 1..n /\ U[k] \in Nat /\ k + 1 - 1 = k
      OBVIOUS
    <3> QED
      BY <1>5, <3>1
  <2> HIDE DEF S
  <2>3. S = Nat
    BY <2>1, <2>2, Counting DEF S
  <2>4. \A k \in 0..n : U[k] \in Nat
    BY <2>3 DEF S
  <2> QED
    BY <1>3, <1>6, <2>4
<1> QED
  BY <1>4, <1>5, <1>7 DEF Sums

\* A call put before a chain adds what it costs.
LEMMA CostPrepended ==
  ASSUME NEW calls, \A e \in calls : e.cost \in Nat, NEW path \in Seq(calls), NEW e \in calls
  PROVE  Cost(<<e>> \o path) = e.cost + Cost(path) /\ Cost(path) \in Nat
<1> DEFINE n == Len(path)
           chain == <<e>> \o path
<1>1. /\ n \in Nat /\ chain \in Seq(calls) /\ Len(chain) = n + 1
      /\ chain[1] = e /\ \A i \in 1..n : chain[i + 1] = path[i]
  <2>1. <<e>> \in Seq(calls) /\ Len(<<e>>) = 1 /\ <<e>>[1] = e
    OBVIOUS
  <2>2. n \in Nat
    BY LenProperties
  <2>3. /\ chain \in Seq(calls) /\ Len(chain) = 1 + n
        /\ \A i \in 1..(1 + n) : chain[i] = IF i <= 1 THEN <<e>>[i] ELSE path[i - 1]
    BY <2>1, ConcatProperties
  <2> HIDE DEF chain, n
  <2>4. chain[1] = e
    <3>1. 1 \in 1..(1 + n) /\ 1 <= 1
      BY ONLY <2>2
    <3> QED
      BY ONLY <2>1, <2>3, <3>1
  <2>5. ASSUME NEW i \in 1..n PROVE chain[i + 1] = path[i]
    <3>1. i + 1 \in 1..(1 + n) /\ ~(i + 1 <= 1) /\ i + 1 - 1 = i
      BY ONLY <2>2, i \in 1..n
    <3> QED
      BY ONLY <2>3, <3>1
  <2>6. Len(chain) = n + 1
    BY ONLY <2>2, <2>3
  <2> QED
    BY <2>2, <2>3, <2>4, <2>5, <2>6
<1>2. \A i \in 1..n : path[i].cost \in Nat
  BY ElementOfSeq
<1>3. \A i \in 1..Len(chain) : chain[i].cost \in Nat
  BY <1>1, ElementOfSeq
<1>4. PICK U : Sums(path, n, U) /\ Cost(path) = U[n]
  BY <1>1, <1>2, CostIsSum
<1>5. PICK V : Sums(chain, n + 1, V) /\ Cost(chain) = V[n + 1]
  <2>1. Len(chain) \in Nat
    BY <1>1
  <2> QED
    BY <1>1, <1>3, <2>1, CostIsSum
<1> HIDE DEF chain, n
<1> DEFINE S == {k \in Nat : k <= n => V[k + 1] = e.cost + U[k]}
<1>6. 0 \in S
  BY <1>1, <1>4, <1>5 DEF Sums
<1>7. ASSUME NEW k \in S PROVE k + 1 \in S
  <2> SUFFICES ASSUME k + 1 <= n PROVE V[k + 1 + 1] = e.cost + U[k + 1]
    OBVIOUS
  <2>1. k + 1 \in 1..n /\ k + 1 + 1 \in 1..(n + 1) /\ k \in 0..n
    BY <1>1
  <2>2. V[k + 1 + 1] = V[k + 1] + chain[k + 1 + 1].cost /\ U[k + 1] = U[k] + path[k + 1].cost
    BY <1>4, <1>5, <2>1 DEF Sums
  <2>3. chain[k + 1 + 1] = path[k + 1] /\ V[k + 1] = e.cost + U[k] /\ path[k + 1].cost \in Nat
    BY <1>1, <1>2, <2>1
  <2>4. U[k] \in Nat /\ e.cost \in Nat
    BY <1>4, <2>1 DEF Sums
  <2> QED
    BY <2>2, <2>3, <2>4
<1> HIDE DEF S
<1>8. S = Nat
  BY <1>6, <1>7, Counting DEF S
<1>9. V[n + 1] = e.cost + U[n] /\ U[n] \in Nat
  <2>1. n \in S
    BY <1>1, <1>8
  <2>2. n <= n
    BY <1>1
  <2>3. U[n] \in Nat
    BY <1>1, <1>4 DEF Sums
  <2> QED
    BY <2>1, <2>2, <2>3 DEF S
<1> QED
  BY <1>4, <1>5, <1>9 DEF chain

LEMMA CostOfNothing == Cost(<< >>) = 0
<1>1. Len(<< >>) = 0
  OBVIOUS
<1>2. PICK U : Sums(<< >>, 0, U) /\ Cost(<< >>) = U[0]
  BY <1>1, CostIsSum
<1> QED
  BY <1>2 DEF Sums

\* When no way is left that could be cheaper, no chain is.
LEMMA NoChainIsCheaper ==
  ASSUME Connected, Finished, NEW chain \in Chains
  PROVE  answer.goal \in DOMAIN best /\ best[answer.goal].cost <= Cost(chain)
<1>1. PICK n \in Nat \ {0} : chain \in [1..n -> answer.calls]
  BY DEF Chains
<1>2. Len(chain) = n /\ \A i \in 1..n : chain[i] \in answer.calls
  BY <1>1
<1>3. \A e \in answer.calls : e.cost \in Nat
  BY DEF Connected, Priced
<1>4. PICK U : Sums(chain, n, U) /\ Cost(chain) = U[n]
  BY <1>2, <1>3, CostIsSum
<1>5. /\ chain[1].from = answer.start /\ chain[n].to = answer.goal
      /\ \A i \in 1..(n - 1) : chain[i].to = chain[i + 1].from
  BY <1>2 DEF Chains, Linked
<1>6. \A id \in DOMAIN best : best[id].cost \in Nat
  BY DEF Connected, WaysOK, WaysKnown, WayOK
<1> DEFINE At(i) == IF i = 0 THEN answer.start ELSE chain[i].to
           Near(id, cost) == id \in DOMAIN best /\ best[id].cost <= cost
           S == {k \in Nat : k <= n => Near(At(k), U[k]) \/ Near(answer.goal, U[k])}
<1>7. 0 \in S
  BY <1>4 DEF Sums, Connected
<1>8. ASSUME NEW k \in S PROVE k + 1 \in S
  <2> SUFFICES ASSUME k + 1 <= n PROVE Near(At(k + 1), U[k + 1]) \/ Near(answer.goal, U[k + 1])
    OBVIOUS
  <2>1. k + 1 \in 1..n /\ k \in 0..n /\ U[k] \in Nat /\ chain[k + 1].cost \in Nat
    BY <1>2, <1>3, <1>4 DEF Sums
  <2>2. U[k + 1] = U[k] + chain[k + 1].cost /\ U[k + 1] \in Nat
    BY <1>4, <2>1 DEF Sums
  <2>3. CASE Near(answer.goal, U[k])
    BY <1>6, <2>1, <2>2, <2>3
  <2>4. CASE ~Near(answer.goal, U[k])
    <3>1. At(k) \in DOMAIN best /\ best[At(k)].cost <= U[k]
      BY <2>4
    <3>2. ~Beaten(At(k))
      BY <1>6, <2>1, <2>4, <3>1 DEF Beaten
    <3>3. Followable(At(k))
      BY <3>1, <3>2 DEF Finished
    <3>4. chain[k + 1].from = At(k)
      BY <1>5, <2>1
    <3>5. chain[k + 1] \in Outgoing(At(k))
      BY <1>2, <2>1, <3>4 DEF Outgoing
    <3>6. chain[k + 1].to \in DOMAIN best /\ best[chain[k + 1].to].cost <= best[At(k)].cost + chain[k + 1].cost
      BY <3>3, <3>5 DEF Followable
    <3>7. best[chain[k + 1].to].cost <= U[k + 1]
      <4> DEFINE a == best[At(k)].cost
                 b == best[chain[k + 1].to].cost
      <4>1. a \in Nat /\ b \in Nat /\ a <= U[k] /\ b <= a + chain[k + 1].cost
        BY <1>6, <3>1, <3>6
      <4> HIDE DEF a, b
      <4>2. b <= U[k + 1]
        BY <2>1, <2>2, <4>1
      <4> QED
        BY <4>2 DEF b
    <3>8. At(k + 1) = chain[k + 1].to
      OBVIOUS
    <3> QED
      BY <3>6, <3>7, <3>8
  <2> QED
    BY <2>3, <2>4
<1> HIDE DEF S
<1>9. S = Nat
  BY <1>7, <1>8, Counting DEF S
<1>10. Near(At(n), U[n]) \/ Near(answer.goal, U[n])
  BY <1>9 DEF S
<1>11. At(n) = answer.goal
  BY <1>5
<1> QED
  BY <1>4, <1>10, <1>11

-----------------------------------------------------------------------------
(* Learning of ways.  Of the ways one step leads to, each by a call that   *)
(* costs something, those to one symbol have a best, and what is known     *)
(* only gets better.                                                       *)

\* The ways of a step from a way.
StepOf(way, ways) ==
  \A w \in ways : \E to : \E cost \in 30..58 : \E priority \in 0..200 : w = Further(way, to, cost, priority)

LEMMA StepsAreOK ==
  ASSUME NEW way, WayOK(way), NEW ways, StepOf(way, ways), NEW w \in ways
  PROVE  /\ WayOK(w) /\ w.hops = way.hops + 1
         /\ w.cost \in (way.cost + 30)..(way.cost + 58)
         /\ w.priority \in way.priority..(way.priority + 200)
<1>0. PICK to : \E cost \in 30..58 : \E priority \in 0..200 : w = Further(way, to, cost, priority)
  BY DEF StepOf
<1>1. PICK cost \in 30..58, priority \in 0..200 : w = Further(way, to, cost, priority)
  BY <1>0
<1>2. w = Way(to, way.cost + cost, way.hops + 1, way.priority + priority)
  BY <1>1 DEF Further
<1>3. /\ w.id = to /\ w.cost = way.cost + cost /\ w.hops = way.hops + 1
      /\ w.priority = way.priority + priority
  BY <1>2 DEF Way
<1>4. way.cost \in Nat /\ way.hops \in Nat /\ way.priority \in Int /\ way.cost >= 30 * way.hops
  BY DEF WayOK
<1> QED
  BY <1>2, <1>3, <1>4 DEF WayOK

\* Of the ways of a step there is a best to each symbol.
LEMMA BestOfAStep ==
  ASSUME NEW way, WayOK(way), NEW ways, StepOf(way, ways), NEW w \in ways
  PROVE  \E x \in ways : /\ x.id = w.id
                         /\ \A other \in ways : other.id = w.id => ~BetterPath(other, x)
<1> DEFINE same == {x \in ways : x.id = w.id}
           top == way.cost + 58
           Saved(x) == top - x.cost
           savings == {Saved(x) : x \in same}
<1>0. \A x \in same : /\ x.hops = way.hops + 1 /\ x.hops \in Nat
                      /\ x.cost \in (way.cost + 30)..(way.cost + 58)
                      /\ x.priority \in way.priority..(way.priority + 200)
  BY StepsAreOK DEF WayOK
<1>a. way.cost \in Nat /\ way.priority \in Int
  BY DEF WayOK
<1>1. \A x \in same : Saved(x) \in 0..28 /\ x.cost \in Nat
  BY <1>0, <1>a
<1>2. savings \in SUBSET (0..2000) /\ savings # {}
  <2>1. \A x \in same : Saved(x) \in 0..2000
    <3> HIDE DEF Saved, same
    <3> QED
      BY <1>1
  <2>2. w \in same
    OBVIOUS
  <2> HIDE DEF Saved, same
  <2> QED
    BY ONLY <2>1, <2>2
<1>3. PICK k \in savings : \A j \in savings : j <= k
  <2> HIDE DEF savings
  <2> QED
    BY ONLY <1>2, Greatest
<1>4. PICK near \in same : k = Saved(near)
  BY <1>3
<1>5. \A x \in same : near.cost <= x.cost
  <2> SUFFICES ASSUME NEW x \in same PROVE near.cost <= x.cost
    OBVIOUS
  <2>1. Saved(x) <= Saved(near)
    BY <1>3, <1>4
  <2>2. near.cost \in Nat /\ x.cost \in Nat /\ top \in Nat
    BY <1>1, <1>4, <1>a
  <2> HIDE DEF top
  <2> QED
    BY <2>1, <2>2
<1> DEFINE cheap == {x \in same : x.cost = near.cost}
           Gain(x) == x.priority - way.priority
           gains == {Gain(x) : x \in cheap}
<1>6. \A x \in cheap : Gain(x) \in 0..200 /\ x.priority \in Int
  BY <1>0, <1>a
<1>7. gains \in SUBSET (0..2000) /\ gains # {}
  <2>1. \A x \in cheap : Gain(x) \in 0..2000
    <3> HIDE DEF Gain, cheap
    <3> QED
      BY <1>6
  <2>2. near \in cheap
    BY <1>4
  <2> HIDE DEF Gain, cheap
  <2> QED
    BY ONLY <2>1, <2>2
<1>8. PICK g \in gains : \A j \in gains : j <= g
  <2> HIDE DEF gains
  <2> QED
    BY ONLY <1>7, Greatest, SMTT(60)
<1>9. PICK x \in cheap : g = Gain(x)
  BY <1>8
<1>10. \A y \in cheap : y.priority <= x.priority
  <2> SUFFICES ASSUME NEW y \in cheap PROVE y.priority <= x.priority
    OBVIOUS
  <2>1. Gain(y) <= Gain(x)
    BY <1>8, <1>9
  <2>2. x.priority \in Int /\ y.priority \in Int
    BY <1>6, <1>9
  <2> QED
    BY <1>a, <2>1, <2>2
<1>11. ASSUME NEW y \in ways, y.id = w.id PROVE ~BetterPath(y, x)
  <2>1. y \in same /\ x \in same /\ x.cost = near.cost
    BY <1>9, <1>11
  <2>2. x.cost <= y.cost /\ x.hops = y.hops /\ x.cost \in Nat /\ y.cost \in Nat /\ x.hops \in Nat
    BY <1>0, <1>1, <1>5, <2>1
  <2>3. y.cost = x.cost => y.priority <= x.priority /\ x.priority \in Int /\ y.priority \in Int
    BY <1>6, <1>9, <1>10, <2>1
  <2> HIDE DEF cheap, same
  <2> QED
    BY <2>2, <2>3 DEF BetterPath
<1> QED
  BY <1>9, <1>11

\* After a step each way it leads to is known as well or better, what is new
\* is a way of the step, and what was known got no worse.
Betters(known, ways, new, after) ==
  /\ new \subseteq ways
  /\ DOMAIN after = DOMAIN known \cup {w.id : w \in new}
  /\ \A w \in ways : w.id \in DOMAIN after /\ after[w.id].cost <= w.cost
  /\ \A id \in DOMAIN known : after[id].cost <= known[id].cost
  /\ \A id \in {w.id : w \in new} : after[id] \in new /\ after[id].id = id
  /\ \A id \in DOMAIN after \ {w.id : w \in new} : id \in DOMAIN known /\ after[id] = known[id]
  /\ \A w \in new : w.id \in DOMAIN known => w.cost <= known[w.id].cost
LEMMA Learned ==
  ASSUME NEW way, WayOK(way), NEW ways, StepOf(way, ways), NEW known, WaysKnown(known)
  PROVE  Betters(known, ways, Improving(known, ways), Learn(known, Improving(known, ways)))
<1> DEFINE new == Improving(known, ways)
           after == Learn(known, new)
<1>k. \A id \in DOMAIN known : WayOK(known[id]) /\ known[id].id = id
  BY DEF WaysKnown
<1>1. new \subseteq ways
  BY DEF Improving
<1>2. DOMAIN after = DOMAIN known \cup {w.id : w \in new}
  BY DEF Learn
<1>3. ASSUME NEW id \in {w.id : w \in new}
      PROVE  after[id] \in new /\ after[id].id = id
  <2>1. \E w \in new : w.id = id
    BY <1>3
  <2>2. after[id] = CHOOSE w \in new : w.id = id
    BY <1>2, <2>1 DEF Learn
  <2> QED
    BY <2>1, <2>2
<1>4. ASSUME NEW id \in DOMAIN after \ {w.id : w \in new}
      PROVE  id \in DOMAIN known /\ after[id] = known[id]
  <2>1. id \in DOMAIN known /\ ~\E w \in new : w.id = id
    BY <1>2, <1>4
  <2> QED
    BY <1>2, <2>1 DEF Learn
<1>5. \A w \in ways : w.cost \in Nat /\ w.hops \in Nat
  BY StepsAreOK DEF WayOK
<1>6. \A id \in DOMAIN known : known[id].cost \in Nat /\ known[id].hops \in Nat
  BY <1>k DEF WayOK
<1>7. ASSUME NEW w \in new, w.id \in DOMAIN known PROVE w.cost <= known[w.id].cost
  <2>1. BetterPath(w, known[w.id]) /\ w \in ways
    BY <1>1, <1>7 DEF Improving, Improves
  <2> QED
    BY <1>5, <1>6, <1>7, <2>1 DEF BetterPath
<1>8. ASSUME NEW id \in DOMAIN known PROVE after[id].cost <= known[id].cost
  <2>1. CASE id \in {w.id : w \in new}
    BY <1>3, <1>7, <2>1
  <2>2. CASE id \notin {w.id : w \in new}
    BY <1>2, <1>4, <1>6, <2>2
  <2> QED
    BY <2>1, <2>2
<1>9. ASSUME NEW w \in ways PROVE w.id \in DOMAIN after /\ after[w.id].cost <= w.cost
  <2>1. CASE Improves(known, w)
    <3>1. PICK x \in ways : x.id = w.id /\ \A other \in ways : other.id = w.id => ~BetterPath(other, x)
      BY BestOfAStep
    <3>2. ~BetterPath(w, x)
      BY <3>1
    <3>3. WayOK(w) /\ WayOK(x)
      BY StepsAreOK
    <3>4. Improves(known, x)
      <4>1. CASE w.id \notin DOMAIN known
        BY <3>1, <4>1 DEF Improves
      <4>2. CASE w.id \in DOMAIN known
        <5>1. WayOK(known[w.id]) /\ BetterPath(w, known[w.id])
          BY <1>k, <2>1, <4>2 DEF Improves
        <5>2. BetterPath(x, known[w.id])
          BY <3>2, <3>3, <5>1 DEF BetterPath, WayOK
        <5> QED
          BY <3>1, <5>2 DEF Improves
      <4> QED
        BY <4>1, <4>2
    <3>5. x \in new
      BY <3>1, <3>4 DEF Improving
    <3>6. after[w.id] \in new /\ after[w.id].id = w.id /\ w.id \in DOMAIN after
      BY <1>2, <1>3, <3>1, <3>5
    <3>7. ~BetterPath(w, after[w.id]) /\ after[w.id] \in ways
      BY <1>1, <3>6 DEF Improving
    <3> QED
      BY <1>5, <3>6, <3>7 DEF BetterPath
  <2>2. CASE ~Improves(known, w)
    <3>1. w.id \in DOMAIN known /\ ~BetterPath(w, known[w.id])
      BY <2>2 DEF Improves
    <3>2. known[w.id].cost <= w.cost
      BY <1>5, <1>6, <3>1 DEF BetterPath
    <3>3. after[w.id].cost <= known[w.id].cost /\ w.id \in DOMAIN after
      BY <1>2, <1>8, <3>1
    <3>4. after[w.id].cost \in Nat
      BY <1>1, <1>3, <1>4, <1>5, <1>6, <3>3
    <3> QED
      BY <1>5, <1>6, <3>1, <3>2, <3>3, <3>4
  <2> QED
    BY <2>1, <2>2
<1> HIDE DEF new, after
<1>10. Betters(known, ways, new, after)
  BY <1>1, <1>2, <1>3, <1>4, <1>7, <1>8, <1>9 DEF Betters
<1> QED
  BY <1>10 DEF new, after

\* What is known is ways, and stays so.
LEMMA LearnedOK ==
  ASSUME NEW way, WayOK(way), NEW ways, StepOf(way, ways), NEW known, WaysKnown(known)
  PROVE  WaysKnown(Learn(known, Improving(known, ways)))
<1> DEFINE new == Improving(known, ways)
           after == Learn(known, new)
<1>1. Betters(known, ways, new, after)
  BY Learned
<1> HIDE DEF new, after
<1>2. \A w \in new : WayOK(w)
  BY <1>1, StepsAreOK DEF Betters
<1>3. ASSUME NEW id \in DOMAIN after PROVE WayOK(after[id]) /\ after[id].id = id
  <2>1. CASE id \in {w.id : w \in new}
    BY <1>1, <1>2, <2>1 DEF Betters
  <2>2. CASE id \notin {w.id : w \in new}
    BY <1>1, <1>3, <2>2 DEF Betters, WaysKnown
  <2> QED
    BY <2>1, <2>2
<1>4. WaysKnown(after)
  BY <1>3 DEF WaysKnown
<1> QED
  BY <1>4 DEF new, after

-----------------------------------------------------------------------------
(* Calls.  One costs from thirty to fifty-eight: a call is told with a     *)
(* confidence of eighty-six at least, and evidence has its worst and best. *)

LEMMA CallIsPriced ==
  ASSUME NEW ref, ref.confidence \in 86..100
  PROVE  EdgeCost(ref) \in 30..58 /\ EdgePriority(ref) \in 0..200
<1> DEFINE quality == EvidenceQuality(ref.line)
<1>1. quality \in 10..85
  <2> DEFINE shown == project.text[ref.line[1]][ref.line[2]]
             tokens == ToSet(shown.tokens)
             worth(marks, value) == IF marks \cap tokens # {} THEN value ELSE 0
             call == worth({"("}, 22)
             path == worth({"::"}, 12)
             member == worth({"."}, 8)
             sized == IF shown.sized THEN 8 ELSE 0
             comment == IF Head(shown.tokens) = "//" THEN 20 ELSE 0
  <2>1. quality = AtLeast(35 + call + path + member + sized - comment, 10)
    BY DEF EvidenceQuality
  <2>2. call \in 0..22 /\ path \in 0..12 /\ member \in 0..8 /\ sized \in 0..8 /\ comment \in 0..20
    <3> HIDE DEF tokens, shown
    <3> QED
      OBVIOUS
  <2> HIDE DEF call, path, member, sized, comment, quality
  <2> QED
    BY <2>1, <2>2 DEF AtLeast
<1> HIDE DEF quality
<1>2. QualityShare(quality, 30) \in 3..25
  BY <1>1 DEF QualityShare, Share
<1>3. QualityShare(quality, 20) \in 0..20
  BY <1>1 DEF QualityShare, Share
<1>4. Share(ref.confidence, 40) \in 34..40 /\ Share(ref.confidence, 25) \in 20..26
  BY DEF Share
<1>5. EdgeCost(ref) = AtLeast(95 - Share(ref.confidence, 40) - QualityShare(quality, 30), 10)
  BY DEF EdgeCost, quality
<1>6. EdgePriority(ref) = 90 + Share(ref.confidence, 25) + QualityShare(quality, 20)
  BY DEF EdgePriority, quality
<1> QED
  BY <1>2, <1>3, <1>4, <1>5, <1>6 DEF AtLeast

\* A graph, if there is one, is the one of the index.
GraphOK == ProjectOK /\ (graph # Unbuilt => graph = BuildNavigationGraph)
\* What calls tell.
CallRefs(refs) == \A r \in refs : r.confidence \in 86..100 /\ Indexed(r.id)

LEMMA CallIsCertain ==
  ASSUME ProjectOK, NEW s \in project.symbols, NEW r, Calls(s, r)
  PROVE  r.confidence \in 86..100 /\ Indexed(r.id)
<1>1. Fit(r, s) /\ r.confidence \in 0..100
  BY CallIsGood
<1>2. r.confidence >= 86
  BY <1>1 DEF Calls, ClassifyRelation
<1> QED
  BY <1>1, <1>2 DEF Fit, Others, Indexed

LEMMA CalleesAreCalls ==
  ASSUME GraphOK, NEW id, Indexed(id)
  PROVE  CallRefs(CalleesOf(id))
<1>1. PICK s \in project.symbols : s.id = id
  BY DEF Indexed
<1>2. SymbolOf(id) = s /\ ProjectOK
  BY <1>1, SymbolFound DEF GraphOK
<1>3. \A r \in ScannedCallees(s) : Calls(s, r)
  BY <1>2, CalleesRead
<1>4. DirectCallableReferences(s) \subseteq ScannedCallees(s)
  <2>1. CASE graph # Unbuilt
    <3>1. GraphCallees(s) \subseteq FirstOf({r \in ScannedCallees(s) : Telling(SymbolOf(r.id))})
      BY <1>2, <2>1, CalleesAgree DEF GraphOK
    <3> QED
      BY <2>1, <3>1 DEF FirstOf, DirectCallableReferences
  <2>2. CASE graph = Unbuilt
    BY <2>2 DEF DirectCallableReferences
  <2> QED
    BY <2>1, <2>2
<1>5. \A r \in CalleesOf(id) : Calls(s, r)
  BY <1>2, <1>3, <1>4 DEF CalleesOf, Followed
<1> QED
  BY <1>2, <1>5, CallIsCertain DEF CallRefs

LEMMA CallersAreCalls ==
  ASSUME GraphOK, NEW s \in project.symbols
  PROVE  CallRefs(CallersOf(s))
<1>0. ProjectOK
  BY DEF GraphOK
<1>1. IncomingCallableReferences(s) \subseteq ScannedCallers(s)
  BY CallersAgree DEF IncomingCallableReferences, GraphOK
<1>2. ASSUME NEW c \in project.symbols,
             NEW x \in FirstCall(c.id, {r \in ScannedCallees(c) : r.id = s.id})
      PROVE  x.confidence \in 86..100 /\ x.id = c.id
  <2> DEFINE calls == {r \in ScannedCallees(c) : r.id = s.id}
  <2>1. \A r \in calls : Calls(c, r) /\ r.id = s.id
    BY <1>0, CalleesRead
  <2>2. \A r \in calls : r.confidence \in 0..100
    BY <1>0, <2>1, CallIsGood
  <2>3. \A a, b \in calls : a.confidence = b.confidence => a = b
    BY <1>0, <2>1, CallIsGood
  <2>4. x \in FirstCall(c.id, calls)
    BY <1>2
  <2> HIDE DEF calls
  <2>5. PICK r \in calls : x = Told(c.id, r)
    BY <2>2, <2>3, <2>4, FirstCallIs
  <2>6. x.confidence = r.confidence /\ x.id = c.id
    BY <2>5 DEF Told
  <2> QED
    BY <1>0, <2>1, <2>5, <2>6, CallIsCertain
<1>3. ASSUME NEW x \in ScannedCallers(s) PROVE x.confidence \in 86..100 /\ Indexed(x.id)
  <2>1. PICK c \in project.symbols : x \in FirstCall(c.id, {r \in ScannedCallees(c) : r.id = s.id})
    BY <1>3 DEF ScannedCallers
  <2>2. x.confidence \in 86..100 /\ x.id = c.id
    BY <1>2, <2>1
  <2> QED
    BY <2>2 DEF Indexed
<1> QED
  BY <1>1, <1>3 DEF CallersOf, Followed, CallRefs

\* Of the calls to each symbol the first is kept.
LEMMA FirstKept ==
  ASSUME NEW refs, CallRefs(refs), NEW r \in refs
  PROVE  \E first \in FirstOf(refs) : first.id = r.id
<1> DEFINE same == {x \in refs : x.id = r.id}
           D == {x.confidence : x \in same}
<1>1. \A x \in same : x.confidence \in 86..100
  BY DEF CallRefs
<1>2. D \in SUBSET (0..2000) /\ D # {}
  BY <1>1
<1>3. PICK k \in D : \A j \in D : j <= k
  <2> HIDE DEF D
  <2> QED
    BY ONLY <1>2, Greatest
<1>4. PICK first \in same : k = first.confidence
  BY <1>3
<1>5. \A x \in same : ~(x.confidence > first.confidence)
  BY <1>1, <1>3, <1>4
<1> QED
  BY <1>4, <1>5 DEF FirstOf

\* A step of a trace, and one of the search for a path.
LEMMA WaysFromAreSteps ==
  ASSUME GraphOK, NEW way, Indexed(way.id)
  PROVE  StepOf(way, WaysFrom(way)) /\ \A w \in WaysFrom(way) : Indexed(w.id)
<1>1. ASSUME NEW w \in WaysFrom(way)
      PROVE  /\ \E to : \E cost \in 30..58 : \E priority \in 0..200 : w = Further(way, to, cost, priority)
             /\ Indexed(w.id)
  <2>1. PICK r \in CalleesOf(way.id) : w = Onward(way, r)
    BY <1>1 DEF WaysFrom
  <2>2. r.confidence \in 86..100 /\ Indexed(r.id)
    BY <2>1, CalleesAreCalls DEF CallRefs
  <2>3. EdgeCost(r) \in 30..58 /\ EdgePriority(r) \in 0..200
    BY <2>2, CallIsPriced
  <2>4. w = Further(way, r.id, EdgeCost(r), EdgePriority(r)) /\ w.id = r.id
    BY <2>1 DEF Onward, Further, Way
  <2>5. \E priority \in 0..200 : w = Further(way, r.id, EdgeCost(r), priority)
    BY ONLY <2>3, <2>4
  <2>6. \E cost \in 30..58 : \E priority \in 0..200 : w = Further(way, r.id, cost, priority)
    BY ONLY <2>3, <2>5, Zenon
  <2> QED
    BY ONLY <2>2, <2>4, <2>6, Zenon
<1> QED
  BY <1>1, Zenon DEF StepOf

LEMMA CallsAreSteps ==
  ASSUME \A e \in answer.calls : Priced(e), NEW way
  PROVE  StepOf(way, {Along(way, e) : e \in Outgoing(way.id)})
<1>1. ASSUME NEW e \in Outgoing(way.id)
      PROVE  \E to : \E cost \in 30..58 : \E priority \in 0..200 : Along(way, e) = Further(way, to, cost, priority)
  <2>1. e.cost \in 30..58 /\ e.priority \in 0..200
    BY DEF Outgoing, Priced
  <2>2. Along(way, e) = Further(way, e.to, e.cost, e.priority)
    BY DEF Along
  <2>3. \E priority \in 0..200 : Along(way, e) = Further(way, e.to, e.cost, priority)
    BY ONLY <2>1, <2>2
  <2>4. \E cost \in 30..58 : \E priority \in 0..200 : Along(way, e) = Further(way, e.to, cost, priority)
    BY ONLY <2>1, <2>3, Zenon
  <2> QED
    BY ONLY <2>4, Zenon
<1> QED
  BY <1>1 DEF StepOf

-----------------------------------------------------------------------------
(* The steps of a trace.                                                   *)

LEMMA IndexIsOK ==
  ASSUME NavigationInv
  PROVE  GraphOK
BY ProjectsAssumption DEF NavigationInv, GraphOK, ProjectOK

\* What is asked of the same index has the same answers.
LEMMA SameAnswers ==
  ASSUME UNCHANGED <<project, graph, request>>
  PROVE  /\ \A id : Indexed(id)' = Indexed(id) /\ CalleesOf(id)' = CalleesOf(id) /\ Called(id)' = Called(id)
         /\ Depth' = Depth /\ DiscoverSeedIds' = DiscoverSeedIds
<1>1. \A id : SymbolOf(id)' = SymbolOf(id) /\ Indexed(id)' = Indexed(id)
  BY DEF SymbolOf, Indexed
<1>2. \A s : Opened(s)' = Opened(s) /\ Readable(s)' = Readable(s) /\ ScanDirectReferences(s)' = ScanDirectReferences(s)
  BY SameScan DEF Readable, Opened
<1>3. \A s : ScannedCallees(s)' = ScannedCallees(s)
  BY <1>1, <1>2 DEF ScannedCallees
<1>4. ASSUME NEW s PROVE GraphCallees(s)' = GraphCallees(s)
  <2>1. \A told : ResolveEdges(told)' = ResolveEdges(told)
    BY <1>1 DEF ResolveEdges
  <2>2. ResolveEdges(CallEdges(graph.outgoing[s.id]))' = ResolveEdges(CallEdges(graph.outgoing[s.id]))
    BY <2>1
  <2> QED
    BY <1>1, <2>2 DEF GraphCallees
<1>5. \A s : DirectCallableReferences(s)' = DirectCallableReferences(s)
  BY <1>3, <1>4 DEF DirectCallableReferences
<1>6. \A refs : Followed(refs)' = Followed(refs)
  BY <1>1 DEF Followed
<1>7. ASSUME NEW id PROVE CalleesOf(id)' = CalleesOf(id)
  <2>1. DirectCallableReferences(SymbolOf(id))' = DirectCallableReferences(SymbolOf(id))
    BY <1>1, <1>5
  <2> QED
    BY <1>6, <2>1 DEF CalleesOf
<1>8. \A id : Called(id)' = Called(id)
  BY <1>7 DEF Called
<1>9. Depth' = Depth /\ DiscoverSeedIds' = DiscoverSeedIds
  BY DEF Depth, DiscoverSeedIds
<1> QED
  BY <1>1, <1>7, <1>8, <1>9

\* What is traced stays so while symbols and calls are only added.
LEMMA TracedStays ==
  ASSUME UNCHANGED <<project, graph, request>>, DOMAIN nodes \subseteq DOMAIN nodes', edges \subseteq edges'
  PROVE  \A id : (Traced(id) => Traced(id)') /\ (Neighbourhood(id) => Neighbourhood(id)')
<1>1. \A id : Traced(id) => Traced(id)'
  BY SameAnswers DEF Traced
<1> QED
  BY <1>1, SameAnswers DEF Neighbourhood

\* Of a call that was known already the first stays.
LEMMA Pushed ==
  ASSUME NEW known, NEW new
  PROVE  /\ known \subseteq PushEdges(known, new) /\ PushEdges(known, new) \subseteq known \cup new
         /\ \A e \in new : \E f \in PushEdges(known, new) : f.from = e.from /\ f.to = e.to
BY DEF PushEdges

LEMMA Upserted ==
  ASSUME NEW known, NEW sightings
  PROVE  DOMAIN UpsertNodes(known, sightings) = DOMAIN known \cup {r.id : r \in DOMAIN sightings}
BY DEF UpsertNodes

LEMMA BeginsAt ==
  ASSUME NEW id, Begin(id)
  PROVE  /\ DOMAIN best' = {id} /\ best'[id] = Way(id, 0, 0, 0) /\ frontier' = {Way(id, 0, 0, 0)}
         /\ best'[id].cost = 0 /\ WaysOK'
<1>1. DOMAIN best' = {id} /\ best'[id] = Way(id, 0, 0, 0) /\ frontier' = {Way(id, 0, 0, 0)}
  BY DEF Begin
<1>2. WayOK(Way(id, 0, 0, 0)) /\ Way(id, 0, 0, 0).id = id /\ Way(id, 0, 0, 0).cost = 0
  BY DEF WayOK, Way
<1> QED
  BY <1>1, <1>2 DEF WaysOK, WaysKnown

LEMMA CallsArePriced ==
  ASSUME NEW refs, CallRefs(refs)
  PROVE  \A r \in FirstOf(refs) : \A from, to : Priced(TraceEdge(from, to, r))
BY CallIsPriced DEF CallRefs, FirstOf, TraceEdge, Priced

\* When nothing is left to follow, what was begun is traced.
LEMMA BegunIsTraced ==
  ASSUME Tracing, frontier = {}, NEW id \in DOMAIN best, best[id].cost = 0, Depth \in Nat
  PROVE  Neighbourhood(id)
<1> SUFFICES ASSUME Depth > 0
             PROVE  Traced(id) /\ (Depth > 1 => \A to \in Called(id) : Traced(to))
  BY DEF Neighbourhood
<1>1. \A i \in DOMAIN best : WayOK(best[i]) /\ Reached(i) /\ Around(i)
  BY DEF Tracing, WaysOK, WaysKnown
<1>2. best[id].hops = 0
  BY <1>1 DEF WayOK
<1>3. Traced(id)
  BY <1>1, <1>2 DEF Reached
<1>4. ASSUME Depth > 1, NEW to \in Called(id) PROVE Traced(to)
  <2>1. to \in DOMAIN best /\ best[to].cost <= 58
    BY <1>1, <1>4 DEF Around
  <2>2. best[to].hops \in Nat /\ best[to].cost \in Nat /\ best[to].cost >= 30 * best[to].hops
    BY <1>1, <2>1 DEF WayOK
  <2>3. best[to].hops <= 1
    BY <2>1, <2>2
  <2> QED
    BY <1>1, <1>4, <2>1, <2>2, <2>3 DEF Reached
<1> QED
  BY <1>3, <1>4

LEMMA DepthIsNat ==
  ASSUME NavigationInv, phase # "paging"
  PROVE  Depth \in Nat
BY RequestsAssumption DEF NavigationInv, Depth

\* So then is every seed that was taken.
LEMMA TakenAreTraced ==
  ASSUME NavigationInv, phase = "tracing", frontier = {},
         NEW id \in DiscoverSeedIds \ pending, Indexed(id)
  PROVE  Neighbourhood(id)
<1>1. Tracing /\ Depth \in Nat
  BY DepthIsNat DEF NavigationInv
<1> QED
  BY <1>1, BegunIsTraced DEF Tracing

\* A seed is taken when nothing of the last is left to follow.
LEMMA TakeSeedStep ==
  ASSUME NavigationInv, NEW id \in pending, TakeSeed(id)
  PROVE  Tracing' /\ (\A e \in edges : Priced(e))'
<1> DEFINE seed == SymbolOf(id)
           found == [r \in {[id |-> id, confidence |-> 100]} |->
                       Sighting(AdjustedScore(seed, 100, request.query), 0, 100, 0, 0)]
<1>1. phase = "tracing" /\ frontier = {} /\ GraphOK /\ Tracing
  BY IndexIsOK DEF TakeSeed, NavigationInv
<1>2. /\ pending' = pending \ {id} /\ Begin(id)
      /\ nodes' = UpsertNodes(UpsertNodes(nodes, found), CallersSeen(seed))
      /\ edges' = PushEdges(edges, CallsTo(seed))
      /\ UNCHANGED <<project, graph, request, phase, parent, answer>>
  BY DEF TakeSeed
<1>3. Indexed(id)
  BY <1>1 DEF Tracing
<1>4. seed \in project.symbols
  BY <1>3 DEF Indexed, SymbolOf
<1>5. edges \subseteq edges' /\ edges' \subseteq edges \cup CallsTo(seed)
  BY <1>2, Pushed
<1>6. \A e \in CallsTo(seed) : Priced(e)
  BY <1>1, <1>4, CallersAreCalls, CallsArePriced DEF CallsTo
<1>7. \A e \in edges' : Priced(e)
  BY <1>5, <1>6 DEF NavigationInv
<1>8. DOMAIN nodes \subseteq DOMAIN nodes'
  <2>1. \A known, sightings : DOMAIN known \subseteq DOMAIN UpsertNodes(known, sightings)
    BY Upserted
  <2> HIDE DEF found
  <2> QED
    BY <1>2, <2>1
<1>9. /\ DOMAIN best' = {id} /\ best'[id] \in frontier' /\ best'[id].cost = 0 /\ WaysOK'
      /\ \A w \in frontier' : w.id = id
  <2>1. Way(id, 0, 0, 0).id = id
    BY DEF Way
  <2>2. /\ DOMAIN best' = {id} /\ best'[id] = Way(id, 0, 0, 0) /\ frontier' = {Way(id, 0, 0, 0)}
        /\ best'[id].cost = 0 /\ WaysOK'
    <3>1. Begin(id)
      BY <1>2
    <3> HIDE DEF seed, found
    <3> QED
      BY ONLY <3>1, BeginsAt
  <2> QED
    BY <2>1, <2>2
<1>10. \A i : Indexed(i)' = Indexed(i)
  BY <1>2, SameAnswers
<1>11. (\A w \in frontier : Indexed(w.id))' /\ (\A i \in DOMAIN best : Indexed(i) /\ Reached(i) /\ Around(i))'
  BY <1>3, <1>9, <1>10 DEF Reached, Around
<1>12. (\A i \in pending : Indexed(i))'
  BY <1>1, <1>2, <1>10 DEF Tracing
<1>13. ASSUME NEW i \in DiscoverSeedIds' \ pending', Indexed(i)'
       PROVE  Neighbourhood(i)' \/ (i \in DOMAIN best' /\ best'[i].cost = 0)
  <2>1. CASE i = id
    BY <1>9, <2>1
  <2>2. CASE i # id
    <3>1. i \in DiscoverSeedIds \ pending /\ Indexed(i)
      BY <1>2, <1>10, <1>13, <2>2, SameAnswers
    <3>2. Neighbourhood(i)
      BY <1>1, <3>1, TakenAreTraced
    <3> QED
      BY <1>2, <1>5, <1>8, <3>2, TracedStays
  <2> QED
    BY <2>1, <2>2
<1> HIDE DEF seed, found
<1> QED
  BY <1>7, <1>9, <1>11, <1>12, <1>13 DEF Tracing

\* A way that was superseded goes, or one that lies too deep.
LEMMA DropTracing ==
  ASSUME NavigationInv, NEW way \in frontier, Drop(way), phase = "tracing"
  PROVE  Tracing'
<1>1. Tracing /\ Depth \in Nat
  BY DepthIsNat DEF NavigationInv
<1>2. /\ best[way.id] # way \/ way.hops >= Depth
      /\ frontier' = frontier \ {way}
      /\ UNCHANGED <<project, graph, request, phase, pending, best, parent, nodes, edges, answer>>
  BY DEF Drop
<1>3. \A i : Indexed(i)' = Indexed(i) /\ Called(i)' = Called(i)
  BY <1>2, SameAnswers
<1>4. Depth' = Depth /\ DiscoverSeedIds' = DiscoverSeedIds
  BY <1>2, SameAnswers
<1>5. \A i : (Traced(i) => Traced(i)') /\ (Neighbourhood(i) => Neighbourhood(i)')
  BY <1>2, TracedStays
<1>6. WaysOK'
  BY <1>1, <1>2 DEF Tracing, WaysOK
<1>7. \A i \in DOMAIN best : WayOK(best[i]) /\ best[i].id = i /\ Indexed(i) /\ Reached(i) /\ Around(i)
  BY <1>1 DEF Tracing, WaysOK, WaysKnown
<1>8. ASSUME NEW i \in DOMAIN best' PROVE Indexed(i)' /\ Reached(i)' /\ Around(i)'
  <2>1. i \in DOMAIN best /\ best' = best
    BY <1>2
  <2>2. best[i] = way => way.hops >= Depth
    BY <1>2, <1>7, <2>1
  <2>3. Reached(i)'
    BY <1>2, <1>4, <1>5, <1>7, <2>1, <2>2 DEF Reached
  <2>4. Around(i)'
    <3> SUFFICES ASSUME best[i].cost = 0, Depth > 0
                 PROVE  best[i] \in frontier' \/ \A to \in Called(i) : to \in DOMAIN best /\ best[to].cost <= 58
      BY <1>3, <1>4, <2>1 DEF Around
    <3>1. best[i].hops = 0
      BY <1>7, <2>1 DEF WayOK
    <3>2. best[i] # way
      BY <1>1, <2>2, <3>1
    <3> QED
      BY <1>2, <1>7, <2>1, <3>2 DEF Around
  <2> QED
    BY <1>3, <1>7, <2>1, <2>3, <2>4
<1>9. \A w \in frontier' : Indexed(w.id)'
  BY <1>1, <1>2, <1>3 DEF Tracing
<1>10. \A i \in pending' : Indexed(i)'
  BY <1>1, <1>2, <1>3 DEF Tracing
<1>11. \A i \in DiscoverSeedIds' \ pending' : Indexed(i)' =>
         Neighbourhood(i)' \/ (i \in DOMAIN best' /\ best'[i].cost = 0)
  BY <1>1, <1>2, <1>3, <1>4, <1>5 DEF Tracing
<1> QED
  BY <1>6, <1>8, <1>9, <1>10, <1>11 DEF Tracing

\* A step from the nearest way traces the calls out of its symbol.
LEMMA ExpandStep ==
  ASSUME NavigationInv, NEW way \in frontier, Expand(way)
  PROVE  Tracing' /\ (\A e \in edges : Priced(e))'
<1> DEFINE ways == WaysFrom(way)
           new == Improving(best, ways)
<1>1. /\ phase = "tracing" /\ best[way.id] = way /\ way.hops < Depth
      /\ best' = Learn(best, new) /\ frontier' = (frontier \ {way}) \cup new
      /\ nodes' = UpsertNodes(nodes, CalleesSeen(way)) /\ edges' = PushEdges(edges, CallsFrom(way))
      /\ UNCHANGED <<project, graph, request, phase, pending, parent, answer>>
  BY DEF Expand, Step
<1>2. GraphOK /\ Tracing /\ Depth \in Nat
  BY <1>1, IndexIsOK, DepthIsNat DEF NavigationInv
<1>3. WayOK(way) /\ Indexed(way.id) /\ WaysKnown(best) /\ \A w \in frontier : WayOK(w) /\ Indexed(w.id)
  BY <1>2 DEF Tracing, WaysOK
<1>4. StepOf(way, ways) /\ \A w \in ways : Indexed(w.id)
  BY <1>2, <1>3, WaysFromAreSteps
<1>5. Betters(best, ways, new, best')
  BY <1>1, <1>3, <1>4, Learned
<1>6. WaysKnown(best')
  BY <1>1, <1>3, <1>4, LearnedOK
<1>7. new \subseteq ways /\ \A w \in new : WayOK(w) /\ Indexed(w.id)
  BY <1>3, <1>4, <1>5, StepsAreOK DEF Betters
<1> HIDE DEF new
<1>8. WaysOK'
  BY <1>1, <1>3, <1>6, <1>7 DEF WaysOK
<1>9. \A i : Indexed(i)' = Indexed(i) /\ Called(i)' = Called(i)
  BY <1>1, SameAnswers
<1>10. Depth' = Depth /\ DiscoverSeedIds' = DiscoverSeedIds
  BY <1>1, SameAnswers
<1>11. CallRefs(CalleesOf(way.id))
  BY <1>2, <1>3, CalleesAreCalls
<1>12. /\ edges \subseteq edges' /\ edges' \subseteq edges \cup CallsFrom(way)
       /\ \A e \in CallsFrom(way) : \E f \in edges' : f.from = e.from /\ f.to = e.to
  BY <1>1, Pushed
<1>13. DOMAIN nodes' = DOMAIN nodes \cup {r.id : r \in CalleesOf(way.id)}
  BY <1>1, Upserted DEF CalleesSeen
<1>14. \A e \in edges' : Priced(e)
  <2>1. \A e \in CallsFrom(way) : Priced(e)
    BY <1>11, CallsArePriced DEF CallsFrom
  <2> QED
    BY <1>12, <2>1 DEF NavigationInv
<1>15. Traced(way.id)'
  <2> SUFFICES ASSUME NEW r \in CalleesOf(way.id)
               PROVE  r.id \in DOMAIN nodes' /\ \E e \in edges' : e.from = way.id /\ e.to = r.id
    BY <1>9 DEF Traced, Called
  <2>1. PICK first \in FirstOf(CalleesOf(way.id)) : first.id = r.id
    BY <1>11, FirstKept
  <2>2. TraceEdge(way.id, first.id, first) \in CallsFrom(way)
    BY <2>1 DEF CallsFrom
  <2>3. TraceEdge(way.id, first.id, first).from = way.id /\ TraceEdge(way.id, first.id, first).to = r.id
    BY <2>1 DEF TraceEdge
  <2> QED
    BY <1>12, <1>13, <2>2, <2>3
<1>16. \A i : (Traced(i) => Traced(i)') /\ (Neighbourhood(i) => Neighbourhood(i)')
  BY <1>1, <1>12, <1>13, TracedStays
<1>17. \A i \in DOMAIN best : WayOK(best[i]) /\ best[i].id = i /\ Indexed(i) /\ Reached(i) /\ Around(i)
  BY <1>2 DEF Tracing, WaysOK, WaysKnown
<1>18. ASSUME NEW i \in DOMAIN best' PROVE Indexed(i)' /\ Reached(i)' /\ Around(i)'
  <2>1. CASE i \in {w.id : w \in new}
    <3>1. best'[i] \in new /\ best'[i].id = i
      BY <1>5, <2>1 DEF Betters
    <3>2. best'[i] \in frontier' /\ Indexed(i)'
      BY <1>1, <1>7, <1>9, <3>1
    <3> QED
      BY <3>2 DEF Reached, Around
  <2>2. CASE i \notin {w.id : w \in new}
    <3>1. i \in DOMAIN best /\ best'[i] = best[i]
      BY <1>5, <2>2 DEF Betters
    <3>2. best[i] = way => i = way.id
      BY <1>17, <3>1
    <3>3. Reached(i)'
      BY <1>1, <1>10, <1>15, <1>16, <1>17, <3>1, <3>2 DEF Reached
    <3>4. Around(i)'
      <4> SUFFICES ASSUME best[i].cost = 0, Depth > 0, best[i] \notin frontier', NEW to \in Called(i)
                   PROVE  to \in DOMAIN best' /\ best'[to].cost <= 58
        BY <1>9, <1>10, <3>1 DEF Around
      <4>1. CASE best[i] = way
        <5>1. i = way.id /\ way.cost = 0
          BY <3>2, <4>1
        <5>2. PICK r \in CalleesOf(way.id) : to = r.id
          BY <5>1 DEF Called
        <5>3. Onward(way, r) \in ways /\ Onward(way, r).id = to
          BY <5>2 DEF WaysFrom, Onward, Further, Way
        <5>4. to \in DOMAIN best' /\ best'[to].cost <= Onward(way, r).cost
          BY <1>5, <5>3 DEF Betters
        <5>5. Onward(way, r).cost \in 30..58
          BY <1>3, <1>4, <5>1, <5>3, StepsAreOK
        <5>6. best'[to].cost \in Nat
          BY <1>6, <5>4 DEF WaysKnown, WayOK
        <5> QED
          BY <5>4, <5>5, <5>6
      <4>2. CASE best[i] # way
        <5>1. to \in DOMAIN best /\ best[to].cost <= 58
          BY <1>1, <1>17, <3>1, <4>2 DEF Around
        <5>2. to \in DOMAIN best' /\ best'[to].cost <= best[to].cost
          BY <1>5, <5>1 DEF Betters
        <5>3. best'[to].cost \in Nat /\ best[to].cost \in Nat
          BY <1>6, <1>17, <5>1, <5>2 DEF WaysKnown, WayOK
        <5> QED
          BY <5>1, <5>2, <5>3
      <4> QED
        BY <4>1, <4>2
    <3> QED
      BY <1>9, <1>17, <3>1, <3>3, <3>4
  <2> QED
    BY <2>1, <2>2
<1>19. \A w \in frontier' : Indexed(w.id)'
  BY <1>1, <1>3, <1>7, <1>9
<1>20. \A i \in pending' : Indexed(i)'
  BY <1>1, <1>2, <1>9 DEF Tracing
<1>21. ASSUME NEW i \in DiscoverSeedIds' \ pending', Indexed(i)'
       PROVE  Neighbourhood(i)' \/ (i \in DOMAIN best' /\ best'[i].cost = 0)
  <2>1. Neighbourhood(i) \/ (i \in DOMAIN best /\ best[i].cost = 0)
    BY <1>1, <1>2, <1>9, <1>10, <1>21 DEF Tracing
  <2>2. CASE Neighbourhood(i)
    BY <1>16, <2>2
  <2>3. CASE i \in DOMAIN best /\ best[i].cost = 0
    <3>1. i \in DOMAIN best' /\ best'[i].cost <= 0
      BY <1>5, <2>3 DEF Betters
    <3>2. best'[i].cost \in Nat
      BY <1>6, <3>1 DEF WaysKnown, WayOK
    <3> QED
      BY <3>1, <3>2
  <2> QED
    BY <2>1, <2>2, <2>3
<1> HIDE DEF ways
<1> QED
  BY <1>8, <1>14, <1>18, <1>19, <1>20, <1>21 DEF Tracing

-----------------------------------------------------------------------------
(* The steps of the search for a path.                                     *)

LEMMA SameChains ==
  ASSUME UNCHANGED answer
  PROVE  Chains' = Chains /\ \A chain : Linked(chain)' = Linked(chain)
<1>1. \A chain : Linked(chain)' = Linked(chain)
  BY DEF Linked
<1>2. Ends' = Ends
  BY DEF Ends
<1> QED
  BY <1>1, <1>2 DEF Chains

LEMMA SeedsStayTraced ==
  ASSUME SeedsTraced, UNCHANGED <<project, graph, request, nodes, edges>>
  PROVE  SeedsTraced'
<1>1. DiscoverSeedIds' = DiscoverSeedIds /\ \A id : Indexed(id)' = Indexed(id)
  BY SameAnswers
<1>2. \A id : Neighbourhood(id) => Neighbourhood(id)'
  BY TracedStays
<1> QED
  BY <1>1, <1>2 DEF SeedsTraced

\* When every seed is traced, what matters is chosen, and the search begins.
LEMMA ChooseStep ==
  ASSUME NavigationInv, Choose
  PROVE  /\ phase' \in {"answered", "connecting"} /\ SeedsTraced'
         /\ phase' = "connecting" => Connecting'
         /\ phase' = "answered" => CheapestPath'
<1>1. /\ phase = "tracing" /\ pending = {} /\ frontier = {} /\ answer' = BuildAnswer
      /\ UNCHANGED <<project, graph, request, pending, parent, nodes, edges>>
      /\ IF answer'.start = answer'.goal
         THEN phase' = "answered" /\ UNCHANGED <<frontier, best>>
         ELSE phase' = "connecting" /\ Begin(answer'.start)
  BY DEF Choose
<1>2. SeedsTraced
  BY <1>1, TakenAreTraced DEF SeedsTraced
<1>3. SeedsTraced'
  BY <1>1, <1>2, SeedsStayTraced
<1>4. PICK calls, start, goal : calls \in SUBSET edges /\ answer' = PathOver(calls, start, goal)
  <2> DEFINE items == SelectImportantSymbols(nodes)
             over == {e \in edges : {e.from, e.to} \subseteq Ids(ToSet(items))}
  <2>1. answer' = PathOver(over, OneOf(Ids(Start(items))), OneOf(Ids(Goal(items))))
    BY <1>1 DEF BuildAnswer, AnswerOver
  <2>2. over \in SUBSET edges
    OBVIOUS
  <2> HIDE DEF items, over
  <2> QED
    BY <2>1, <2>2
<1>5. answer'.calls = calls /\ answer'.start = start /\ answer'.goal = goal /\ answer'.path = << >>
  BY <1>4 DEF PathOver
<1>6. \A e \in answer'.calls : Priced(e)
  BY <1>4, <1>5 DEF NavigationInv
<1>7. CASE start = goal
  BY <1>1, <1>3, <1>5, <1>7 DEF CheapestPath
<1>8. CASE start # goal
  <2>1. phase' = "connecting" /\ Begin(start)
    BY <1>1, <1>5, <1>8
  <2>2. /\ DOMAIN best' = {start} /\ best'[start] = Way(start, 0, 0, 0) /\ frontier' = {Way(start, 0, 0, 0)}
        /\ best'[start].cost = 0 /\ WaysOK'
    BY ONLY <2>1, BeginsAt
  <2>3. DOMAIN parent' = {}
    BY <1>1 DEF NavigationInv
  <2>4. Connected'
    BY <1>5, <1>6, <1>8, <2>2, <2>3 DEF Connected
  <2>5. Way(start, 0, 0, 0).id = start
    BY DEF Way
  <2>6. Connecting'
    BY <1>4, <1>5, <2>2, <2>4, <2>5 DEF Connecting
  <2> QED
    BY <1>3, <2>1, <2>6
<1> QED
  BY <1>7, <1>8

LEMMA DropConnecting ==
  ASSUME NavigationInv, NEW way \in frontier, Drop(way), phase = "connecting"
  PROVE  Connecting'
<1>1. /\ best[way.id] # way /\ frontier' = frontier \ {way}
      /\ UNCHANGED <<best, parent, answer>>
  BY DEF Drop
<1>2. Connecting
  BY DEF NavigationInv
<1>3. WaysOK'
  BY <1>1, <1>2 DEF Connecting, Connected, WaysOK
<1>4. \A id : Parented(id)' = Parented(id) /\ Followable(id)' = Followable(id)
  BY <1>1 DEF Parented, Followable, Outgoing
<1>5. Connected'
  BY <1>1, <1>2, <1>3, <1>4 DEF Connecting, Connected
<1>6. \A id \in DOMAIN best : best[id].id = id
  BY <1>2 DEF Connecting, Connected, WaysOK, WaysKnown
<1>7. \A id \in DOMAIN best : best[id] # way
  BY <1>1, <1>6
<1> QED
  BY <1>1, <1>2, <1>4, <1>5, <1>7 DEF Connecting

\* A step from the nearest way follows the calls out of its symbol.
LEMMA RelaxStep ==
  ASSUME NavigationInv, NEW way \in frontier, Relax(way)
  PROVE  Connecting'
<1> DEFINE ways == {Along(way, e) : e \in Outgoing(way.id)}
           new == Improving(best, ways)
<1>1. /\ phase = "connecting" /\ best[way.id] = way
      /\ best' = Learn(best, new) /\ frontier' = (frontier \ {way}) \cup new
      /\ parent' = [id \in DOMAIN parent \cup {w.id : w \in new} |->
                      IF \E w \in new : w.id = id
                      THEN CHOOSE e \in Outgoing(way.id) : Along(way, e) = Learn(best, new)[id]
                      ELSE parent[id]]
      /\ answer' = answer
  BY DEF Relax, Step
<1>2. Connecting /\ Connected
  BY <1>1 DEF NavigationInv, Connecting
<1>3. WayOK(way) /\ WaysKnown(best) /\ \A w \in frontier : WayOK(w)
  BY <1>2 DEF Connected, WaysOK
<1>4. StepOf(way, ways)
  BY <1>2, CallsAreSteps DEF Connected
<1>5. Betters(best, ways, new, best')
  BY <1>1, <1>3, <1>4, Learned
<1>6. WaysKnown(best')
  BY <1>1, <1>3, <1>4, LearnedOK
<1>7. /\ new \subseteq ways /\ way.cost \in Nat
      /\ \A w \in ways : WayOK(w) /\ w.cost >= way.cost + 30
  BY <1>3, <1>4, <1>5, StepsAreOK DEF Betters, WayOK
<1>8. \A e \in Outgoing(way.id) : /\ Along(way, e) \in ways /\ Along(way, e).id = e.to
                                  /\ Along(way, e).cost = way.cost + e.cost
                                  /\ e \in answer.calls /\ e.cost \in 30..58 /\ e.from = way.id
  BY <1>2 DEF Along, Further, Way, Outgoing, Connected, Priced
<1>9. \A w \in ways : \E e \in Outgoing(way.id) : w = Along(way, e)
  OBVIOUS
<1>10. best' = Learn(best, new)
  BY <1>1
<1>11. /\ DOMAIN parent' = DOMAIN parent \cup {w.id : w \in new}
       /\ \A id \in {w.id : w \in new} :
            parent'[id] = CHOOSE e \in Outgoing(way.id) : Along(way, e) = best'[id]
       /\ \A id \in DOMAIN parent \ {w.id : w \in new} : parent'[id] = parent[id]
  <2> HIDE DEF new
  <2> QED
    BY <1>1
<1> HIDE DEF new, ways
<1>12. WaysOK'
  BY <1>1, <1>3, <1>6, <1>7 DEF WaysOK
<1>13. \A id \in DOMAIN best : /\ id \in DOMAIN best' /\ best[id].cost \in Nat /\ best'[id].cost \in Nat
                               /\ best'[id].cost <= best[id].cost
  BY <1>3, <1>5, <1>6 DEF Betters, WaysKnown, WayOK
<1>14. answer.start \notin {w.id : w \in new} /\ answer.start \in DOMAIN best /\ best[answer.start].cost = 0
  <2>1. answer.start \in DOMAIN best /\ best[answer.start].cost = 0
    BY <1>2 DEF Connected
  <2>2. \A w \in new : w.id \in DOMAIN best => w.cost <= best[w.id].cost
    BY <1>5 DEF Betters
  <2>3. \A w \in new : w.cost >= 30 /\ w.cost \in Nat
    BY <1>7 DEF WayOK
  <2> QED
    BY <2>1, <2>2, <2>3
<1>15. best'[answer.start].cost = 0 /\ answer.start \in DOMAIN best'
  BY <1>13, <1>14
<1>16. DOMAIN parent' = DOMAIN best' \ {answer.start}
  BY <1>2, <1>5, <1>11, <1>14 DEF Connected, Betters
<1>17. way.id \in DOMAIN best /\ way.id \in DOMAIN best' /\ best'[way.id].cost <= way.cost
  BY <1>1, <1>2, <1>13 DEF Connecting
<1>18. ASSUME NEW id \in DOMAIN parent' PROVE Parented(id)'
  <2>1. CASE id \in {w.id : w \in new}
    <3>1. best'[id] \in new /\ best'[id] \in ways /\ best'[id].id = id
      BY <1>5, <1>7, <2>1 DEF Betters
    <3>2. \E e \in Outgoing(way.id) : Along(way, e) = best'[id]
      BY <1>9, <3>1
    <3> DEFINE call == CHOOSE e \in Outgoing(way.id) : Along(way, e) = best'[id]
    <3>3. call \in Outgoing(way.id) /\ Along(way, call) = best'[id] /\ parent'[id] = call
      BY <1>11, <2>1, <3>2
    <3> HIDE DEF call
    <3>4. /\ call \in answer.calls /\ call.to = id /\ call.from = way.id
          /\ best'[id].cost = way.cost + call.cost /\ call.cost \in Nat
      BY <1>8, <3>1, <3>3
    <3>5. best'[way.id].cost + call.cost <= best'[id].cost
      BY <1>7, <1>13, <1>17, <3>4
    <3> QED
      BY <1>1, <1>17, <3>3, <3>4, <3>5 DEF Parented
  <2>2. CASE id \notin {w.id : w \in new}
    <3>1. id \in DOMAIN parent /\ id \in DOMAIN best /\ Parented(id) /\ parent'[id] = parent[id]
      BY <1>2, <1>11, <2>2 DEF Connected
    <3>2. best'[id] = best[id]
      BY <1>5, <2>2, <3>1 DEF Betters
    <3> DEFINE from == parent[id].from
    <3>3. /\ from \in DOMAIN best /\ best[from].cost + parent[id].cost <= best[id].cost
          /\ parent[id] \in answer.calls /\ parent[id].to = id
      BY <3>1 DEF Parented
    <3>4. parent[id].cost \in Nat
      BY <1>2, <3>3 DEF Connected, Priced
    <3>5. /\ from \in DOMAIN best' /\ best'[from].cost <= best[from].cost
          /\ best[from].cost \in Nat /\ best'[from].cost \in Nat /\ best[id].cost \in Nat
      BY <1>13, <3>1, <3>3
    <3>6. best'[from].cost + parent[id].cost <= best[id].cost
      BY <3>3, <3>4, <3>5
    <3> QED
      BY <1>1, <3>1, <3>2, <3>3, <3>5, <3>6 DEF Parented
  <2> QED
    BY <2>1, <2>2
<1>19. Connected'
  BY <1>1, <1>2, <1>12, <1>15, <1>16, <1>18 DEF Connected
<1>20. \A w \in frontier' : w.id \in DOMAIN best'
  BY <1>1, <1>2, <1>5, <1>13 DEF Connecting, Betters
<1>21. ASSUME NEW id \in DOMAIN best', best'[id] \notin frontier', NEW e \in Outgoing(id)
       PROVE  e.to \in DOMAIN best' /\ best'[e.to].cost <= best'[id].cost + e.cost
  <2>1. id \in DOMAIN best /\ best'[id] = best[id]
    BY <1>1, <1>5, <1>21 DEF Betters
  <2>2. CASE best[id] = way
    <3>1. id = way.id
      BY <1>3, <2>1, <2>2 DEF WaysKnown
    <3>2. Along(way, e) \in ways /\ Along(way, e).id = e.to /\ Along(way, e).cost = way.cost + e.cost
      BY <1>8, <1>21, <3>1
    <3> QED
      BY <1>5, <2>1, <2>2, <3>2 DEF Betters
  <2>3. CASE best[id] # way
    <3>1. Followable(id)
      BY <1>1, <1>2, <1>21, <2>1, <2>3 DEF Connecting
    <3>2. e.to \in DOMAIN best /\ best[e.to].cost <= best[id].cost + e.cost
      BY <1>21, <3>1 DEF Followable
    <3>3. e.cost \in Nat
      BY <1>2, <1>21 DEF Outgoing, Connected, Priced
    <3>4. /\ e.to \in DOMAIN best' /\ best'[e.to].cost <= best[e.to].cost
          /\ best'[e.to].cost \in Nat /\ best[e.to].cost \in Nat /\ best[id].cost \in Nat
      BY <1>13, <2>1, <3>2
    <3>5. best'[e.to].cost <= best[id].cost + e.cost
      BY <3>2, <3>3, <3>4
    <3> QED
      BY <2>1, <3>4, <3>5
  <2> QED
    BY <2>2, <2>3
<1>22. \A id : Outgoing(id)' = Outgoing(id)
  BY <1>1 DEF Outgoing
<1>23. \A id \in DOMAIN best' : best'[id] \in frontier' \/ Followable(id)'
  BY <1>21, <1>22 DEF Followable
<1> QED
  BY <1>1, <1>2, <1>19, <1>20, <1>23 DEF Connecting

\* The search ends when the goal is the nearest, or nothing is left.
LEMMA ArriveStep ==
  ASSUME NavigationInv, Arrive
  PROVE  /\ phase' \in {"retracing", "answered"}
         /\ phase' = "retracing" => Retracing'
         /\ phase' = "answered" => CheapestPath'
<1>1. /\ phase = "connecting"
      /\ \/ frontier = {}
         \/ \E way \in Nearest(frontier) : best[way.id] = way /\ way.id = answer.goal
      /\ phase' = IF answer.goal \in DOMAIN best THEN "retracing" ELSE "answered"
      /\ UNCHANGED <<frontier, best, parent, answer>>
  BY DEF Arrive
<1>2. Connecting /\ Connected
  BY <1>1 DEF NavigationInv, Connecting
<1>3. Finished
  <2>1. CASE frontier = {}
    BY <1>2, <2>1 DEF Finished, Connecting
  <2>2. CASE \E way \in Nearest(frontier) : best[way.id] = way /\ way.id = answer.goal
    <3>1. PICK way \in Nearest(frontier) : best[way.id] = way /\ way.id = answer.goal
      BY <2>2
    <3>2. way \in frontier /\ \A other \in frontier : ~BetterPath(other, way)
      BY <3>1 DEF Nearest
    <3>3. answer.goal \in DOMAIN best /\ best[answer.goal] = way
      BY <1>2, <3>1, <3>2 DEF Connecting
    <3>4. \A other \in frontier : other.cost \in Nat
      BY <1>2 DEF Connected, WaysOK, WayOK
    <3>5. \A other \in frontier : way.cost <= other.cost
      BY <3>2, <3>4 DEF BetterPath
    <3>6. \A id \in DOMAIN best : best[id] \in frontier => Beaten(id)
      BY <3>3, <3>5 DEF Beaten
    <3> QED
      BY <1>2, <3>6 DEF Finished, Connecting
  <2> QED
    BY <1>1, <2>1, <2>2
<1>4. answer = PathOver(answer.calls, answer.start, answer.goal) /\ answer.path = << >>
  BY <1>2 DEF Connecting, PathOver
<1>5. CASE answer.goal \in DOMAIN best
  <2>1. phase' = "retracing"
    BY <1>1, <1>5
  <2>2. answer = [PathOver(answer.calls, answer.start, answer.goal) EXCEPT !.path = answer.path]
    BY <1>4 DEF PathOver
  <2>3. Retraced = answer.goal
    BY <1>4 DEF Retraced
  <2>4. best[answer.goal].cost \in Nat
    BY <1>2, <1>5 DEF Connected, WaysOK, WaysKnown, WayOK
  <2>5. Suffix
    <3>1. << >> \in Seq(answer.calls) /\ Len(<< >>) = 0
      OBVIOUS
    <3>2. Cost(<< >>) + best[Retraced].cost <= best[answer.goal].cost
      BY <2>3, <2>4, CostOfNothing
    <3>3. \A i \in 1..(0 - 1) : FALSE
      OBVIOUS
    <3> QED
      BY <1>4, <3>1, <3>2, <3>3 DEF Suffix
  <2>6. Retracing
    BY <1>2, <1>3, <1>5, <2>2, <2>3, <2>5 DEF Retracing
  <2>7. Retracing'
    <3>1. \A id : Parented(id)' = Parented(id) /\ Followable(id)' = Followable(id) /\ Beaten(id)' = Beaten(id)
      BY <1>1 DEF Parented, Followable, Outgoing, Beaten
    <3>2. Connected' /\ Finished'
      BY <1>1, <1>2, <1>3, <3>1 DEF Connected, Finished, WaysOK
    <3>3. Retraced' = Retraced
      BY <1>1 DEF Retraced
    <3>4. Suffix'
      BY <1>1, <2>5, <3>3 DEF Suffix
    <3> QED
      BY <1>1, <2>6, <3>2, <3>3, <3>4 DEF Retracing
  <2> QED
    BY <2>1, <2>7
<1>6. CASE answer.goal \notin DOMAIN best
  <2>1. phase' = "answered" /\ answer' = answer
    BY <1>1, <1>6
  <2>2. Chains = {}
    BY <1>2, <1>3, <1>6, NoChainIsCheaper
  <2>3. Chains' = {}
    BY <2>1, <2>2, SameChains
  <2>4. CheapestPath'
    BY <1>4, <2>1, <2>3 DEF CheapestPath
  <2> QED
    BY <2>1, <2>4
<1> QED
  BY <1>5, <1>6

\* The way back is by the call each symbol was last reached by.
LEMMA RetraceStep ==
  ASSUME NavigationInv, Retrace
  PROVE  /\ phase' \in {"retracing", "answered"}
         /\ phase' = "retracing" => Retracing'
         /\ phase' = "answered" => CheapestPath'
<1>1. /\ phase = "retracing" /\ UNCHANGED <<frontier, best, parent>>
      /\ IF Retraced = answer.start \/ Retraced \notin DOMAIN parent
         THEN phase' = "answered" /\ UNCHANGED answer
         ELSE answer' = [answer EXCEPT !.path = <<parent[Retraced]>> \o @] /\ UNCHANGED phase
  BY DEF Retrace
<1> DEFINE path == answer.path
           calls == answer.calls
<1>2. Retracing /\ Connected /\ Finished /\ Suffix
  BY <1>1 DEF NavigationInv, Retracing
<1>3. /\ path \in Seq(calls) /\ (path # << >> => path[Len(path)].to = answer.goal)
      /\ \A i \in 1..(Len(path) - 1) : path[i].to = path[i + 1].from
      /\ Cost(path) + best[Retraced].cost <= best[answer.goal].cost
  BY <1>2 DEF Suffix
<1>4. \A e \in calls : e.cost \in Nat
  BY <1>2 DEF Connected, Priced
<1>5. /\ answer = [calls |-> calls, start |-> answer.start, goal |-> answer.goal, path |-> path]
      /\ answer.start # answer.goal /\ Retraced \in DOMAIN best /\ answer.goal \in DOMAIN best
  BY <1>2 DEF Retracing, Connected, PathOver
<1>6. \A id \in DOMAIN best : best[id].cost \in Nat
  BY <1>2 DEF Connected, WaysOK, WaysKnown, WayOK
<1>7. Len(path) \in Nat /\ \A i \in 1..Len(path) : path[i] \in calls /\ path[i].cost \in Nat
  <2>1. Len(path) \in Nat
    BY <1>3, LenProperties
  <2>2. \A i \in 1..Len(path) : path[i] \in calls
    BY <1>3, ElementOfSeq
  <2> QED
    BY <1>4, <2>1, <2>2
<1>8. Cost(path) \in Nat
  <2>1. PICK U : Sums(path, Len(path), U) /\ Cost(path) = U[Len(path)]
    BY <1>7, CostIsSum
  <2> QED
    BY <1>7, <2>1 DEF Sums
<1>9. CASE Retraced = answer.start \/ Retraced \notin DOMAIN parent
  <2>1. phase' = "answered" /\ answer' = answer
    BY <1>1, <1>9
  <2>2. Retraced = answer.start
    BY <1>2, <1>5, <1>9 DEF Connected
  <2>3. path # << >> /\ Head(path).from = answer.start
    BY <1>5, <2>2 DEF Retraced
  <2>4. path[1].from = answer.start
    BY <1>3, <2>3
  <2>5. Linked(path)
    BY <1>3, <2>3, <2>4 DEF Linked
  <2>6. ToSet(path) \subseteq calls
    <3>1. DOMAIN path = 1..Len(path)
      BY <1>3, LenProperties
    <3> QED
      BY <1>7, <3>1 DEF ToSet
  <2>7. Cost(path) <= best[answer.goal].cost
    <3>1. best[Retraced].cost = 0
      BY <1>2, <2>2 DEF Connected
    <3> QED
      BY <1>3, <1>8, <3>1
  <2>8. ASSUME NEW chain \in Chains PROVE Cost(path) <= Cost(chain)
    <3>1. best[answer.goal].cost <= Cost(chain)
      BY <1>2, NoChainIsCheaper
    <3>2. Cost(chain) \in Nat
      <4>1. PICK n \in Nat \ {0} : chain \in [1..n -> calls]
        BY DEF Chains
      <4>2. Len(chain) = n /\ \A i \in 1..n : chain[i].cost \in Nat
        BY <1>4, <4>1
      <4>3. PICK U : Sums(chain, n, U) /\ Cost(chain) = U[n]
        BY <4>2, CostIsSum
      <4> QED
        BY <4>3 DEF Sums
    <3>3. best[answer.goal].cost \in Nat
      BY <1>5, <1>6
    <3> QED
      BY <1>8, <2>7, <3>1, <3>2, <3>3
  <2>9. Chains' = Chains /\ \A chain : Linked(chain)' = Linked(chain)
    BY <2>1, SameChains
  <2>10. CheapestPath'
    BY <1>5, <2>1, <2>3, <2>5, <2>6, <2>8, <2>9 DEF CheapestPath
  <2> QED
    BY <2>1, <2>10
<1>10. CASE Retraced # answer.start /\ Retraced \in DOMAIN parent
  <2> DEFINE call == parent[Retraced]
             on == <<call>> \o path
  <2>1. /\ phase' = "retracing" /\ answer' = [answer EXCEPT !.path = on]
    BY <1>1, <1>10
  <2>2. /\ call \in calls /\ call.to = Retraced /\ call.from \in DOMAIN best
        /\ best[call.from].cost + call.cost <= best[Retraced].cost
    BY <1>2, <1>10 DEF Connected, Parented
  <2>3. /\ answer'.calls = calls /\ answer'.start = answer.start /\ answer'.goal = answer.goal
        /\ answer'.path = on
    BY <1>5, <2>1
  <2> HIDE DEF call
  <2>4. /\ on \in Seq(calls) /\ Len(on) = Len(path) + 1 /\ on[1] = call
        /\ \A i \in 1..Len(path) : on[i + 1] = path[i]
    <3>1. <<call>> \in Seq(calls) /\ Len(<<call>>) = 1 /\ <<call>>[1] = call
      <4>1. call \in calls
        BY <2>2
      <4> HIDE DEF calls
      <4> QED
        BY ONLY <4>1
    <3>2. /\ on \in Seq(calls) /\ Len(on) = 1 + Len(path)
          /\ \A i \in 1..(1 + Len(path)) : on[i] = IF i <= 1 THEN <<call>>[i] ELSE path[i - 1]
      <4>1. path \in Seq(calls)
        BY <1>3
      <4> HIDE DEF calls, path
      <4> QED
        BY ONLY <3>1, <4>1, ConcatProperties
    <3> HIDE DEF on, path
    <3> QED
      BY <1>7, <3>1, <3>2
  <2>5. Cost(on) = call.cost + Cost(path)
    BY <1>3, <1>4, <2>2, CostPrepended
  <2> HIDE DEF on
  <2>6. on # << >> /\ Head(on) = call
    <3>1. on # << >>
      BY <1>7, <2>4
    <3> QED
      BY <2>4, <3>1
  <2>7. Retraced' = call.from
    BY <2>3, <2>6 DEF Retraced
  <2>8. on[Len(on)].to = answer.goal
    <3>1. CASE path = << >>
      <4>1. Retraced = answer.goal /\ Len(path) = 0
        BY <3>1 DEF Retraced
      <4> QED
        BY <2>2, <2>4, <4>1
    <3>2. CASE path # << >>
      <4>1. Len(path) \in 1..Len(path)
        BY <1>3, <1>7, <3>2
      <4>2. on[Len(on)] = path[Len(path)]
        BY <2>4, <4>1
      <4> QED
        BY <1>3, <3>2, <4>2
    <3> QED
      BY <3>1, <3>2
  <2>9. ASSUME NEW i \in 1..(Len(on) - 1) PROVE on[i].to = on[i + 1].from
    <3>0. i \in 1..Len(path)
      BY <1>7, <2>4
    <3>1. CASE i = 1
      <4>1. path # << >>
        BY <3>0, <3>1
      <4>2. Head(path) = path[1] /\ Retraced = Head(path).from
        BY <1>3, <4>1 DEF Retraced
      <4>3. on[1] = call /\ on[1 + 1] = path[1]
        BY <2>4, <3>0, <3>1
      <4> QED
        BY <2>2, <3>1, <4>2, <4>3
    <3>2. CASE i # 1
      <4>1. i - 1 \in 1..Len(path) /\ i - 1 \in 1..(Len(path) - 1) /\ i - 1 + 1 = i
        BY <1>7, <3>0, <3>2
      <4>2. on[i] = path[i - 1] /\ on[i + 1] = path[i]
        BY <2>4, <3>0, <4>1
      <4>3. path[i - 1].to = path[i - 1 + 1].from
        BY <1>3, <4>1
      <4> QED
        BY <4>1, <4>2, <4>3
    <3> QED
      BY <3>1, <3>2
  <2>10. Cost(on) + best[call.from].cost <= best[answer.goal].cost
    <3> DEFINE a == best[call.from].cost
               b == best[Retraced].cost
               c == best[answer.goal].cost
    <3>1. a \in Nat /\ b \in Nat /\ c \in Nat /\ call.cost \in Nat
      BY <1>4, <1>5, <1>6, <2>2
    <3>2. a + call.cost <= b /\ Cost(path) + b <= c
      BY <1>3, <2>2
    <3> HIDE DEF a, b, c
    <3>3. call.cost + Cost(path) + a <= c
      BY <1>8, <3>1, <3>2
    <3> QED
      BY <2>5, <3>3 DEF a, c
  <2>11. Suffix'
    BY <1>1, <2>3, <2>4, <2>6, <2>7, <2>8, <2>9, <2>10 DEF Suffix
  <2>12. \A id : Parented(id)' = Parented(id) /\ Followable(id)' = Followable(id) /\ Beaten(id)' = Beaten(id)
    BY <1>1, <2>3 DEF Parented, Followable, Outgoing, Beaten
  <2>13. Connected' /\ Finished'
    BY <1>1, <1>2, <2>3, <2>12 DEF Connected, Finished, WaysOK
  <2>14. answer' = [calls |-> calls, start |-> answer.start, goal |-> answer.goal, path |-> on]
    BY <1>5, <2>1
  <2>15. answer' = [PathOver(answer'.calls, answer'.start, answer'.goal) EXCEPT !.path = answer'.path]
    BY <2>3, <2>14 DEF PathOver
  <2>16. Retracing'
    BY <1>1, <1>5, <2>2, <2>3, <2>7, <2>11, <2>13, <2>15 DEF Retracing
  <2> QED
    BY <2>1, <2>16
<1> QED
  BY <1>9, <1>10

-----------------------------------------------------------------------------
(* The invariant.                                                          *)

LEMMA NavigationBegins == NavigationInit => NavigationInv
<1> SUFFICES ASSUME NavigationInit PROVE NavigationInv
  OBVIOUS
<1>1. CASE TraceInit
  BY <1>1 DEF TraceInit, Init, NavigationInv, Phases, CheapestPath
<1>2. CASE PagesInit
  BY <1>2 DEF PagesInit, Paging, NavigationInv, Phases, CheapestPath
<1>3. CASE SearchInit
  BY <1>3 DEF SearchInit, Paging, NavigationInv, Phases, CheapestPath
<1> QED
  BY <1>1, <1>2, <1>3 DEF NavigationInit

LEMMA StandsStill ==
  ASSUME NavigationInv, UNCHANGED vars
  PROVE  NavigationInv'
<1>1. UNCHANGED <<project, graph, request, phase, pending, frontier, best, parent, nodes, edges, answer>>
  BY DEF vars
<1>2. BuildNavigationGraph' = BuildNavigationGraph
  BY <1>1, SameGraph
<1>3. /\ \A id : Indexed(id)' = Indexed(id) /\ Called(id)' = Called(id)
      /\ Depth' = Depth /\ DiscoverSeedIds' = DiscoverSeedIds
  BY <1>1, SameAnswers
<1>4. \A id : Traced(id)' = Traced(id)
  BY <1>1, <1>3 DEF Traced
<1>5. \A id : Neighbourhood(id)' = Neighbourhood(id)
  BY <1>3, <1>4 DEF Neighbourhood
<1>6. \A id : Reached(id)' = Reached(id) /\ Around(id)' = Around(id)
  BY <1>1, <1>3, <1>4 DEF Reached, Around
<1>7. Tracing' = Tracing /\ SeedsTraced' = SeedsTraced
  BY <1>1, <1>3, <1>5, <1>6 DEF Tracing, SeedsTraced, WaysOK
<1>8. \A id : Parented(id)' = Parented(id) /\ Followable(id)' = Followable(id) /\ Beaten(id)' = Beaten(id)
  BY <1>1 DEF Parented, Followable, Outgoing, Beaten
<1>9. Connected' = Connected
  BY <1>1, <1>8 DEF Connected, WaysOK
<1>10. Connecting' = Connecting
  BY <1>1, <1>8, <1>9 DEF Connecting
<1>11. Retraced' = Retraced
  BY <1>1 DEF Retraced
<1>12. Suffix' = Suffix
  BY <1>1, <1>11 DEF Suffix
<1>13. Retracing' = Retracing
  BY <1>1, <1>8, <1>9, <1>11, <1>12 DEF Retracing, Finished
<1>14. CheapestPath' = CheapestPath
  <2>1. Chains' = Chains /\ \A chain : Linked(chain)' = Linked(chain)
    BY <1>1, SameChains
  <2> QED
    BY <1>1, <2>1 DEF CheapestPath
<1> QED
  BY <1>1, <1>2, <1>7, <1>10, <1>13, <1>14 DEF NavigationInv

LEMMA TraceSteps ==
  ASSUME NavigationInv, Next
  PROVE  NavigationInv'
<1>0. /\ project \in Projects /\ (graph # Unbuilt => graph = BuildNavigationGraph) /\ phase \in Phases
      /\ \A e \in edges : Priced(e)
  BY DEF NavigationInv
<1>g. UNCHANGED project => BuildNavigationGraph' = BuildNavigationGraph
  BY SameGraph
<1>r. phase # "paging" => request \in Requests
  BY DEF NavigationInv
<1>1. ASSUME NEW built \in BOOLEAN, Load(built) PROVE NavigationInv'
  <2>1. /\ phase = "asked" /\ phase' = "tracing"
        /\ graph' = IF built THEN BuildNavigationGraph ELSE Unbuilt
        /\ pending' = {id \in DiscoverSeedIds : Indexed(id)}
        /\ UNCHANGED <<project, request, frontier, best, parent, nodes, edges, answer>>
    BY <1>1 DEF Load
  <2>2. frontier' = {} /\ best' = << >> /\ DOMAIN best' = {} /\ parent' = << >>
    BY <2>1 DEF NavigationInv
  <2>3. \A id : Indexed(id)' = Indexed(id)
    BY <2>1 DEF Indexed
  <2>4. DiscoverSeedIds' = DiscoverSeedIds
    BY <2>1 DEF DiscoverSeedIds
  <2>5. WaysOK'
    BY <2>2 DEF WaysOK, WaysKnown
  <2>6. Tracing'
    BY <2>1, <2>2, <2>3, <2>4, <2>5 DEF Tracing
  <2>7. graph' # Unbuilt => graph' = BuildNavigationGraph'
    BY <1>g, <2>1
  <2> QED
    BY <1>0, <1>r, <2>1, <2>2, <2>6, <2>7 DEF NavigationInv, Phases, CheapestPath
<1>2. ASSUME NEW id \in pending, TakeSeed(id) PROVE NavigationInv'
  <2>1. phase = "tracing" /\ UNCHANGED <<project, graph, request, phase, parent, answer>>
    BY <1>2 DEF TakeSeed
  <2>2. Tracing' /\ \A e \in edges' : Priced(e)
    BY <1>2, TakeSeedStep
  <2>3. parent' = << >>
    BY <2>1 DEF NavigationInv
  <2> QED
    BY <1>0, <1>g, <1>r, <2>1, <2>2, <2>3 DEF NavigationInv, Phases, CheapestPath
<1>3. ASSUME NEW way \in frontier, Drop(way) PROVE NavigationInv'
  <2>1. /\ phase \in {"tracing", "connecting"}
        /\ UNCHANGED <<project, graph, request, phase, pending, best, parent, nodes, edges, answer>>
    BY <1>3 DEF Drop
  <2>2. (phase = "tracing" => Tracing') /\ (phase = "connecting" => Connecting')
    BY <1>3, DropTracing, DropConnecting
  <2>3. phase = "connecting" => SeedsTraced'
    <3>1. phase = "connecting" => SeedsTraced
      BY DEF NavigationInv
    <3> QED
      BY <2>1, <3>1, SeedsStayTraced
  <2>4. phase = "tracing" => parent' = << >>
    BY <2>1 DEF NavigationInv
  <2> QED
    BY <1>0, <1>g, <1>r, <2>1, <2>2, <2>3, <2>4 DEF NavigationInv, Phases, CheapestPath
<1>4. ASSUME NEW way \in frontier, Expand(way) PROVE NavigationInv'
  <2>1. phase = "tracing" /\ UNCHANGED <<project, graph, request, phase, pending, parent, answer>>
    BY <1>4 DEF Expand
  <2>2. Tracing' /\ \A e \in edges' : Priced(e)
    BY <1>4, ExpandStep
  <2>3. parent' = << >>
    BY <2>1 DEF NavigationInv
  <2> QED
    BY <1>0, <1>g, <1>r, <2>1, <2>2, <2>3 DEF NavigationInv, Phases, CheapestPath
<1>5. ASSUME NEW way \in frontier, Relax(way) PROVE NavigationInv'
  <2>1. phase = "connecting" /\ UNCHANGED <<project, graph, request, phase, pending, nodes, edges, answer>>
    BY <1>5 DEF Relax
  <2>2. Connecting'
    BY <1>5, RelaxStep
  <2>3. SeedsTraced'
    BY <2>1, SeedsStayTraced DEF NavigationInv
  <2> QED
    BY <1>0, <1>g, <1>r, <2>1, <2>2, <2>3 DEF NavigationInv, Phases, CheapestPath
<1>6. ASSUME Choose PROVE NavigationInv'
  <2>1. phase = "tracing" /\ UNCHANGED <<project, graph, request, pending, parent, nodes, edges>>
    BY <1>6 DEF Choose
  <2>2. /\ phase' \in {"answered", "connecting"} /\ SeedsTraced'
        /\ phase' = "connecting" => Connecting'
        /\ phase' = "answered" => CheapestPath'
    BY <1>6, ChooseStep
  <2> QED
    BY <1>0, <1>g, <1>r, <2>1, <2>2 DEF NavigationInv, Phases, CheapestPath
<1>7. ASSUME Arrive PROVE NavigationInv'
  <2>1. phase = "connecting" /\ UNCHANGED <<project, graph, request, pending, nodes, edges>>
    BY <1>7 DEF Arrive
  <2>2. /\ phase' \in {"retracing", "answered"}
        /\ phase' = "retracing" => Retracing'
        /\ phase' = "answered" => CheapestPath'
    BY <1>7, ArriveStep
  <2>3. SeedsTraced'
    BY <2>1, SeedsStayTraced DEF NavigationInv
  <2> QED
    BY <1>0, <1>g, <1>r, <2>1, <2>2, <2>3 DEF NavigationInv, Phases, CheapestPath
<1>8. ASSUME Retrace PROVE NavigationInv'
  <2>1. phase = "retracing" /\ UNCHANGED <<project, graph, request, pending, nodes, edges>>
    BY <1>8 DEF Retrace
  <2>2. /\ phase' \in {"retracing", "answered"}
        /\ phase' = "retracing" => Retracing'
        /\ phase' = "answered" => CheapestPath'
    BY <1>8, RetraceStep
  <2>3. SeedsTraced'
    BY <2>1, SeedsStayTraced DEF NavigationInv
  <2> QED
    BY <1>0, <1>g, <1>r, <2>1, <2>2, <2>3 DEF NavigationInv, Phases, CheapestPath
<1>9. Nearest(frontier) \subseteq frontier
  BY DEF Nearest
<1> QED
  BY <1>1, <1>2, <1>3, <1>4, <1>5, <1>6, <1>7, <1>8, <1>9 DEF Next

LEMMA NavigationSteps ==
  NavigationInv /\ [NavigationNext]_<<vars, pageVars>> => NavigationInv'
<1> SUFFICES ASSUME NavigationInv, [NavigationNext]_<<vars, pageVars>> PROVE NavigationInv'
  OBVIOUS
<1>1. Next \/ UNCHANGED vars
  BY DEF NavigationNext, AskUsages, ReadIndexed, StartWalk, ReadWalked, TellUsages, TellReferences,
         AskContent, ReadContent, TellContent, TellFiles, Rewrite
<1> QED
  BY <1>1, TraceSteps, StandsStill

\* The invariant holds in every reachable state.
THEOREM NavigationInvHolds == NavigationSpec => []NavigationInv
BY NavigationBegins, NavigationSteps, PTL DEF NavigationSpec

\* Whatever the index, the graph and the request: every call out of a seed,
\* and of what a seed calls when the depth allows, is traced
\* (trace_callees, by what navigation_edge_metrics charges a call).
THEOREM NeighbourhoodsTraced == NavigationSpec => []NeighbourhoodTraced
<1>1. NavigationInv => NeighbourhoodTraced
  BY DEF NavigationInv, NeighbourhoodTraced, SeedsTraced
<1> QED
  BY <1>1, NavigationInvHolds, PTL

\* Whatever was traced and chosen: the path shown is a chain of calls from the
\* start to the goal, no chain is cheaper, and there is none only when there
\* is no chain (build_shortest_path).
THEOREM PathIsCheapest == NavigationSpec => []CheapestPath
<1>1. NavigationInv => CheapestPath
  BY DEF NavigationInv
<1> QED
  BY <1>1, NavigationInvHolds, PTL

\* And while a client traces or pages, whatever the project: graph and text
\* tell the same callers and callees (collect_direct_callable_references and
\* collect_incoming_callable_references, with the graph and without).
THEOREM TracesAgree == NavigationSpec => []GraphAgrees
<1>1. NavigationInv => GraphAgrees
  BY IndexIsOK, Agreed DEF GraphOK
<1> QED
  BY <1>1, NavigationInvHolds, PTL

-----------------------------------------------------------------------------
(***************************************************************************)
(* Answers by pages.  Each kind of answer has an order, by keys, and what  *)
(* a cursor collects in a call begins that order; what was told so far is  *)
(* its start, up to the offset.  Files that change leave only that no page *)
(* tells a place twice.                                                    *)
(***************************************************************************)
(* Lists: what joining lists of them makes, and what a page of one is.     *)
List(s) == s \in Seq(ToSet(s))

\* A sequence over a set is a list of some of it.
LEMMA ListOf ==
  ASSUME NEW T, NEW s \in Seq(T)
  PROVE  List(s) /\ ToSet(s) \subseteq T /\ Len(s) \in Nat /\ DOMAIN s = 1..Len(s)
<1>1. Len(s) \in Nat /\ s \in [1..Len(s) -> T] /\ DOMAIN s = 1..Len(s)
  BY LenProperties
<1>2. ToSet(s) = {s[i] : i \in 1..Len(s)}
  BY <1>1 DEF ToSet
<1>3. s \in [1..Len(s) -> ToSet(s)]
  BY <1>1, <1>2
<1>4. s \in Seq(ToSet(s))
  BY <1>1, <1>3, SeqDef
<1> QED
  BY <1>1, <1>2, <1>4 DEF List

\* What a list is.
LEMMA ListIs ==
  ASSUME NEW s, List(s)
  PROVE  Len(s) \in Nat /\ DOMAIN s = 1..Len(s) /\ s \in Seq(ToSet(s)) /\ \A i \in 1..Len(s) : s[i] \in ToSet(s)
BY LenProperties, ElementOfSeq DEF List

\* A list is what its length and its elements are.
LEMMA ListMade ==
  ASSUME NEW n \in Nat, NEW s, DOMAIN s = 1..n, s = [i \in 1..n |-> s[i]]
  PROVE  List(s) /\ Len(s) = n
<1>1. ToSet(s) = {s[i] : i \in 1..n}
  BY DEF ToSet
<1>2. s \in [1..n -> ToSet(s)]
  BY <1>1
<1>3. s \in Seq(ToSet(s))
  BY <1>2, SeqDef
<1>4. Len(s) \in Nat /\ DOMAIN s = 1..Len(s)
  BY <1>3, LenProperties
<1>5. Len(s) = n
  BY <1>4
<1> QED
  BY <1>3, <1>5 DEF List

\* Two lists with the same elements in the same places are one.
LEMMA SameList ==
  ASSUME NEW s, List(s), NEW t, List(t), Len(s) = Len(t), \A i \in 1..Len(s) : s[i] = t[i]
  PROVE  s = t
<1>1. s \in Seq(ToSet(s) \cup ToSet(t)) /\ t \in Seq(ToSet(s) \cup ToSet(t))
  BY SeqMonotonic DEF List
<1> QED
  BY <1>1, SeqEqual

\* The list of nothing.
LEMMA EmptyList == List(<< >>) /\ Len(<< >>) = 0 /\ ToSet(<< >>) = {} /\ DOMAIN << >> = {}
<1>1. << >> \in Seq({})
  BY EmptySeq
<1>2. Len(<< >>) = 0
  BY EmptySeq
<1>3. DOMAIN << >> = {}
  OBVIOUS
<1>4. ToSet(<< >>) = {}
  BY <1>3 DEF ToSet
<1> QED
  BY <1>1, <1>2, <1>3, <1>4 DEF List

\* Two lists joined: the places of the one, then those of the other.
LEMMA JoinedList ==
  ASSUME NEW s, List(s), NEW t, List(t)
  PROVE  /\ List(s \o t) /\ Len(s \o t) = Len(s) + Len(t) /\ DOMAIN (s \o t) = 1..(Len(s) + Len(t))
         /\ \A i \in 1..Len(s) : (s \o t)[i] = s[i]
         /\ \A i \in 1..Len(t) : (s \o t)[Len(s) + i] = t[i]
         /\ ToSet(s \o t) = ToSet(s) \cup ToSet(t)
<1> DEFINE T == ToSet(s) \cup ToSet(t)
           m == Len(s)
           n == Len(t)
           u == s \o t
<1>1. s \in Seq(T) /\ t \in Seq(T)
  BY SeqMonotonic DEF List
<1>2. m \in Nat /\ n \in Nat /\ DOMAIN s = 1..m /\ DOMAIN t = 1..n
  BY ListIs
<1>3. /\ u \in Seq(T) /\ Len(u) = m + n
      /\ \A i \in 1..(m + n) : u[i] = IF i <= m THEN s[i] ELSE t[i - m]
  BY <1>1, ConcatProperties
<1>4. List(u) /\ ToSet(u) \subseteq T /\ DOMAIN u = 1..(m + n)
  BY <1>3, ListOf
<1>8. ToSet(s) = {s[i] : i \in 1..m} /\ ToSet(t) = {t[i] : i \in 1..n} /\ ToSet(u) = {u[i] : i \in 1..(m + n)}
  BY <1>2, <1>4 DEF ToSet
<1> HIDE DEF m, n, u, T
<1>5. ASSUME NEW i \in 1..m PROVE u[i] = s[i] /\ i \in 1..(m + n)
  BY <1>2, <1>3
<1>6. ASSUME NEW i \in 1..n PROVE u[m + i] = t[i] /\ m + i \in 1..(m + n)
  <2>1. m + i \in 1..(m + n) /\ ~(m + i <= m) /\ (m + i) - m = i
    BY <1>2
  <2> QED
    BY <1>3, <2>1
<1>7. ToSet(u) = T
  <2>1. ToSet(s) \subseteq ToSet(u)
    BY <1>5, <1>8
  <2>2. ToSet(t) \subseteq ToSet(u)
    BY <1>6, <1>8
  <2> QED
    BY <1>4, <2>1, <2>2 DEF T
<1> QED
  BY <1>3, <1>4, <1>5, <1>6, <1>7 DEF m, n, u, T

\* A list with one more at the end.
LEMMA LongerList ==
  ASSUME NEW s, List(s), NEW x
  PROVE  /\ List(Append(s, x)) /\ Len(Append(s, x)) = Len(s) + 1 /\ DOMAIN Append(s, x) = 1..(Len(s) + 1)
         /\ \A i \in 1..Len(s) : Append(s, x)[i] = s[i]
         /\ Append(s, x)[Len(s) + 1] = x
<1> DEFINE T == ToSet(s) \cup {x}
<1>1. s \in Seq(T) /\ x \in T
  BY SeqMonotonic DEF List
<1>2. /\ Append(s, x) \in Seq(T) /\ Len(Append(s, x)) = Len(s) + 1
      /\ \A i \in 1..Len(s) : Append(s, x)[i] = s[i]
      /\ Append(s, x)[Len(s) + 1] = x
  BY <1>1, AppendProperties
<1>3. List(Append(s, x)) /\ DOMAIN Append(s, x) = 1..Len(Append(s, x))
  BY <1>2, ListOf
<1> QED
  BY <1>2, <1>3

\* A part of a list.
LEMMA PartOfList ==
  ASSUME NEW s, List(s), NEW m \in Nat, NEW n \in Nat, n <= Len(s)
  PROVE  /\ List(SubSeq(s, m + 1, n)) /\ Len(SubSeq(s, m + 1, n)) = (IF m <= n THEN n - m ELSE 0)
         /\ DOMAIN SubSeq(s, m + 1, n) = 1..Len(SubSeq(s, m + 1, n))
         /\ \A i \in 1..(n - m) : SubSeq(s, m + 1, n)[i] = s[m + i]
         /\ ToSet(SubSeq(s, m + 1, n)) \subseteq ToSet(s)
<1> DEFINE part == SubSeq(s, m + 1, n)
<1>1. Len(s) \in Nat /\ \A i \in 1..Len(s) : s[i] \in ToSet(s)
  BY ListIs
<1>2. \A i \in (m + 1)..n : s[i] \in ToSet(s)
  BY <1>1
<1>3. m + 1 \in Int /\ n \in Int
  OBVIOUS
<1>4. /\ part \in Seq(ToSet(s)) /\ Len(part) = (IF m + 1 <= n THEN n - (m + 1) + 1 ELSE 0)
      /\ \A i \in 1..(n - (m + 1) + 1) : part[i] = s[(m + 1) + i - 1]
  BY ONLY <1>2, <1>3, SubSeqProperties
<1>5. List(part) /\ ToSet(part) \subseteq ToSet(s) /\ DOMAIN part = 1..Len(part)
  BY <1>4, ListOf
<1> HIDE DEF part
<1>6. Len(part) = (IF m <= n THEN n - m ELSE 0)
  BY <1>4
<1>7. ASSUME NEW i \in 1..(n - m) PROVE part[i] = s[m + i]
  <2>1. i \in 1..(n - (m + 1) + 1) /\ (m + 1) + i - 1 = m + i
    OBVIOUS
  <2> QED
    BY <1>4, <2>1
<1> QED
  BY <1>5, <1>6, <1>7 DEF part

\* Its start.
LEMMA StartOfList ==
  ASSUME NEW s, List(s), NEW n \in Nat, n <= Len(s)
  PROVE  /\ List(SubSeq(s, 1, n)) /\ Len(SubSeq(s, 1, n)) = n
         /\ DOMAIN SubSeq(s, 1, n) = 1..n /\ \A i \in 1..n : SubSeq(s, 1, n)[i] = s[i]
<1>1. 0 \in Nat /\ 0 + 1 = 1 /\ 0 <= n /\ n - 0 = n /\ \A i \in 1..n : 0 + i = i
  OBVIOUS
<1>2. /\ List(SubSeq(s, 0 + 1, n)) /\ Len(SubSeq(s, 0 + 1, n)) = n - 0
      /\ DOMAIN SubSeq(s, 0 + 1, n) = 1..(n - 0)
      /\ \A i \in 1..(n - 0) : SubSeq(s, 0 + 1, n)[i] = s[0 + i]
  <2>1. 0 \in Nat /\ 0 <= n
    OBVIOUS
  <2> QED
    BY <2>1, PartOfList
<1> QED
  BY <1>1, <1>2

-----------------------------------------------------------------------------
\* Lists of lists, and what joining the first of them makes.
Lists(s) == List(s) /\ \A i \in 1..Len(s) : List(s[i])
Joins(s, n, F) ==
  /\ DOMAIN F = 0..n /\ F[0] = << >> /\ \A i \in 0..n : List(F[i])
  /\ \A i \in 1..n : F[i] = F[i - 1] \o s[i]

\* The joins of the first of some lists, one after another.
LEMMA JoinsExist ==
  ASSUME NEW s, NEW n \in Nat, \A i \in 1..n : List(s[i])
  PROVE  \E F : Joins(s, n, F)
<1> DEFINE S == {k \in Nat : k <= n => \E F : Joins(s, k, F)}
<1>1. 0 \in S
  <2>1. Joins(s, 0, [i \in 0..0 |-> << >>])
    BY EmptyList DEF Joins
  <2> QED
    BY <2>1
<1>2. ASSUME NEW k \in S PROVE k + 1 \in S
  <2> SUFFICES ASSUME k + 1 <= n PROVE \E F : Joins(s, k + 1, F)
    OBVIOUS
  <2>1. PICK F : Joins(s, k, F)
    OBVIOUS
  <2> DEFINE G == [i \in 0..(k + 1) |-> IF i <= k THEN F[i] ELSE F[k] \o s[k + 1]]
  <2>2. List(F[k]) /\ List(s[k + 1])
    BY <2>1 DEF Joins
  <2>3. List(F[k] \o s[k + 1])
    BY <2>2, JoinedList
  <2>4. DOMAIN G = 0..(k + 1) /\ G[0] = << >> /\ \A i \in 0..(k + 1) : List(G[i])
    BY <2>1, <2>3 DEF Joins
  <2>5. ASSUME NEW i \in 1..(k + 1) PROVE G[i] = G[i - 1] \o s[i]
    <3>1. CASE i <= k
      <4>1. i \in 1..k /\ i - 1 \in 0..k /\ i \in 0..(k + 1) /\ i - 1 \in 0..(k + 1) /\ i - 1 <= k
        BY <3>1
      <4>2. G[i] = F[i] /\ G[i - 1] = F[i - 1]
        BY <4>1, <3>1
      <4>3. F[i] = F[i - 1] \o s[i]
        BY <2>1, <4>1 DEF Joins
      <4> QED
        BY <4>2, <4>3
    <3>2. CASE i = k + 1
      BY <3>2
    <3> QED
      BY <3>1, <3>2
  <2>6. Joins(s, k + 1, G)
    <3> HIDE DEF G
    <3> QED
      BY <2>4, <2>5 DEF Joins
  <2> QED
    BY <2>6
<1> HIDE DEF S
<1>3. S = Nat
  BY <1>1, <1>2, Counting DEF S
<1> QED
  BY <1>3 DEF S

\* FlattenSeq is the last of them.
LEMMA FlattenJoins ==
  ASSUME NEW s, Lists(s), NEW F, Joins(s, Len(s), F)
  PROVE  FlattenSeq(s) = F[Len(s)]
<1>1. List(s)
  BY DEF Lists
<1> DEFINE n == Len(s)
<1>2. n \in Nat /\ \A i \in 1..n : List(s[i])
  BY <1>1, ListIs DEF Lists
<1>3. CASE n = 0
  <2>1. s = << >>
    BY <1>1, <1>3, EmptyList, SameList
  <2> QED
    BY <1>3, <2>1 DEF FlattenSeq, Joins
<1>4. CASE n # 0
  <2> DEFINE Body(G) == [i \in 1..n |-> IF i = 1 THEN s[i] ELSE G[i - 1] \o s[i]]
             G == CHOOSE H : H = Body(H)
             W == [i \in 1..n |-> F[i]]
  <2>1. FlattenSeq(s) = G[n]
    BY <1>4 DEF FlattenSeq
  <2>2. W = Body(W)
    <3>1. ASSUME NEW i \in 1..n PROVE F[i] = IF i = 1 THEN s[i] ELSE W[i - 1] \o s[i]
      <4>1. F[i] = F[i - 1] \o s[i] /\ F[0] = << >>
        BY DEF Joins
      <4>2. CASE i = 1
        <5>1. << >> \o s[i] = s[i]
          BY <1>2, ConcatEmptySeq DEF List
        <5>2. i - 1 = 0
          BY <4>2
        <5>3. F[i] = << >> \o s[i]
          BY <4>1, <5>2
        <5> QED
          BY <4>2, <5>1, <5>3
      <4>3. CASE i # 1
        <5>1. i - 1 \in 1..n
          BY <1>2, <4>3
        <5> QED
          BY <4>1, <4>3, <5>1
      <4> QED
        BY <4>2, <4>3
    <3> QED
      BY <3>1
  <2>3. G = Body(G)
    <3> HIDE DEF W
    <3> QED
      BY <2>2, Zenon
  <2> HIDE DEF G
  <2> DEFINE S == {k \in Nat : k \in 1..n => G[k] = F[k]}
  <2>4. 0 \in S
    OBVIOUS
  <2>5. ASSUME NEW k \in S PROVE k + 1 \in S
    <3> SUFFICES ASSUME k + 1 \in 1..n PROVE G[k + 1] = F[k + 1]
      OBVIOUS
    <3>1. G[k + 1] = IF k + 1 = 1 THEN s[k + 1] ELSE G[(k + 1) - 1] \o s[k + 1]
      BY <2>3
    <3>2. F[k + 1] = IF k + 1 = 1 THEN s[k + 1] ELSE F[(k + 1) - 1] \o s[k + 1]
      <4>1. W[k + 1] = IF k + 1 = 1 THEN s[k + 1] ELSE W[(k + 1) - 1] \o s[k + 1]
        <5> HIDE DEF W
        <5> QED
          BY <2>2
      <4>2. k + 1 # 1 => (k + 1) - 1 \in 1..n
        BY <1>2
      <4> QED
        BY <4>1, <4>2
    <3>3. k + 1 # 1 => G[(k + 1) - 1] = F[(k + 1) - 1]
      <4>1. (k + 1) - 1 = k /\ (k + 1 # 1 => k \in 1..n)
        BY <1>2
      <4> QED
        BY <4>1
    <3> QED
      BY <3>1, <3>2, <3>3
  <2> HIDE DEF S
  <2>6. S = Nat
    BY <2>4, <2>5, Counting DEF S
  <2>7. n \in S /\ n \in 1..n
    BY <1>2, <1>4, <2>6
  <2>8. G[n] = F[n]
    BY <2>7 DEF S
  <2> QED
    BY <2>1, <2>8
<1> QED
  BY <1>3, <1>4

\* No lists joined are nothing.
LEMMA FlattenNothing == Lists(<< >>) /\ FlattenSeq(<< >>) = << >>
<1>1. Lists(<< >>)
  BY EmptyList DEF Lists
<1> QED
  BY <1>1, EmptyList DEF FlattenSeq

\* Lists joined are a list.
LEMMA FlattenIsList ==
  ASSUME NEW s, Lists(s)
  PROVE  List(FlattenSeq(s))
<1>1. Len(s) \in Nat /\ \A i \in 1..Len(s) : List(s[i])
  BY ListIs DEF Lists
<1>2. PICK F : Joins(s, Len(s), F)
  BY <1>1, JoinsExist
<1>3. FlattenSeq(s) = F[Len(s)]
  BY <1>2, FlattenJoins
<1> QED
  BY <1>1, <1>2, <1>3 DEF Joins

\* One more list is joined at the end.
LEMMA FlattenMore ==
  ASSUME NEW s, Lists(s), NEW x, List(x)
  PROVE  Lists(Append(s, x)) /\ FlattenSeq(Append(s, x)) = FlattenSeq(s) \o x
<1> DEFINE n == Len(s)
           t == Append(s, x)
<1>1. n \in Nat /\ List(s) /\ \A i \in 1..n : List(s[i])
  BY ListIs DEF Lists
<1>2. List(t) /\ Len(t) = n + 1 /\ (\A i \in 1..n : t[i] = s[i]) /\ t[n + 1] = x
  BY <1>1, LongerList
<1> HIDE DEF t
<1>3. \A i \in 1..(n + 1) : List(t[i])
  BY <1>1, <1>2
<1>4. Lists(t)
  BY <1>2, <1>3 DEF Lists
<1>5. PICK F : Joins(t, n + 1, F)
  <2>1. n + 1 \in Nat
    BY <1>1
  <2> QED
    BY <1>3, <2>1, JoinsExist
<1> DEFINE G == [i \in 0..n |-> F[i]]
<1>6. Joins(s, n, G)
  <2>1. DOMAIN G = 0..n /\ G[0] = << >> /\ \A i \in 0..n : List(G[i])
    BY <1>1, <1>5 DEF Joins
  <2>2. ASSUME NEW i \in 1..n PROVE G[i] = G[i - 1] \o s[i]
    <3>1. i \in 0..n /\ i - 1 \in 0..n /\ i \in 1..(n + 1)
      BY <1>1
    <3>2. F[i] = F[i - 1] \o t[i]
      BY <1>5, <3>1 DEF Joins
    <3> QED
      BY <1>2, <3>1, <3>2
  <2> HIDE DEF G
  <2> QED
    BY <2>1, <2>2 DEF Joins
<1>7. FlattenSeq(s) = F[n]
  <2>1. FlattenSeq(s) = G[n]
    BY <1>6, FlattenJoins
  <2> QED
    BY <1>1, <2>1
<1>8. FlattenSeq(t) = F[n + 1]
  BY <1>2, <1>4, <1>5, FlattenJoins
<1>9. F[n + 1] = F[n] \o x
  <2>1. n + 1 \in 1..(n + 1) /\ (n + 1) - 1 = n
    BY <1>1
  <2> QED
    BY <1>2, <1>5, <2>1 DEF Joins
<1> QED
  BY <1>4, <1>7, <1>8, <1>9 DEF t

-----------------------------------------------------------------------------
(* What an order makes of a set: B has of each of its members those before *)
(* it, and s is a list that has in the i-th place one that i - 1 are before. *)
Ranks(S, B) ==
  /\ IsFiniteSet(S)
  /\ \A x \in S : B[x] \subseteq S /\ x \notin B[x] /\ \A y \in B[x] : B[y] \subseteq B[x]
  /\ \A x, y \in S : x = y \/ x \in B[y] \/ y \in B[x]
Sorted(S, B, s) ==
  /\ List(s) /\ Len(s) = Cardinality(S) /\ ToSet(s) = S /\ IsInjective(s)
  /\ \A i, j \in 1..Len(s) : i < j => s[i] \in B[s[j]]

\* Who has i - 1 before it in an order that ranks a set is one, and is the i-th.
LEMMA RankSorts ==
  ASSUME NEW S, NEW B, Ranks(S, B), NEW s,
         DOMAIN s = 1..Cardinality(S), s = [i \in 1..Cardinality(S) |-> s[i]],
         \A i \in 1..Cardinality(S) : (\E x \in S : Cardinality(B[x]) = i - 1) =>
           s[i] \in S /\ Cardinality(B[s[i]]) = i - 1
  PROVE  Sorted(S, B, s)
<1> DEFINE n == Cardinality(S)
           f == [x \in S |-> Cardinality(B[x]) + 1]
<1>1. IsFiniteSet(S) /\ n \in Nat
  BY FS_CardinalityType DEF Ranks
<1>2. ASSUME NEW x \in S PROVE IsFiniteSet(B[x]) /\ Cardinality(B[x]) \in 0..(n - 1)
  <2>1. B[x] \in SUBSET S /\ x \notin B[x]
    BY DEF Ranks
  <2>2. IsFiniteSet(B[x]) /\ Cardinality(B[x]) <= n /\ (n = Cardinality(B[x]) => S = B[x])
    BY <1>1, <2>1, FS_Subset
  <2>3. Cardinality(B[x]) \in Nat
    BY <2>2, FS_CardinalityType
  <2>4. Cardinality(B[x]) # n
    BY <2>1, <2>2
  <2> QED
    BY <1>1, <2>2, <2>3, <2>4
<1>3. ASSUME NEW y \in S, NEW x \in B[y] PROVE Cardinality(B[x]) < Cardinality(B[y])
  <2>1. x \in S /\ B[x] \in SUBSET B[y] /\ x \notin B[x]
    BY DEF Ranks
  <2>2. IsFiniteSet(B[y]) /\ Cardinality(B[x]) \in Nat /\ Cardinality(B[y]) \in Nat
    BY <1>1, <1>2, <2>1
  <2>3. Cardinality(B[x]) <= Cardinality(B[y]) /\ (Cardinality(B[y]) = Cardinality(B[x]) => B[y] = B[x])
    BY <2>1, <2>2, FS_Subset
  <2> QED
    BY <2>1, <2>2, <2>3
<1>4. ASSUME NEW x \in S, NEW y \in S, Cardinality(B[x]) = Cardinality(B[y]) PROVE x = y
  <2>1. Cardinality(B[x]) \in Nat
    BY <1>1, <1>2
  <2>2. x = y \/ x \in B[y] \/ y \in B[x]
    BY DEF Ranks
  <2>3. x \in B[y] => Cardinality(B[x]) < Cardinality(B[y])
    BY <1>3
  <2>4. y \in B[x] => Cardinality(B[y]) < Cardinality(B[x])
    BY <1>3
  <2> QED
    BY <1>4, <2>1, <2>2, <2>3, <2>4
<1>5. \A i \in 1..n : \E x \in S : Cardinality(B[x]) = i - 1
  <2>1. f \in [S -> 1..n]
    <3>1. \A x \in S : Cardinality(B[x]) + 1 \in 1..n
      BY <1>1, <1>2
    <3> QED
      BY <3>1
  <2>2. \A x, y \in S : f[x] = f[y] => x = y
    <3>1. \A x, y \in S : Cardinality(B[x]) + 1 = Cardinality(B[y]) + 1 => Cardinality(B[x]) = Cardinality(B[y])
      BY <1>1, <1>2
    <3> QED
      BY <1>4, <3>1
  <2>3. f \in Injection(S, 1..n)
    <3> HIDE DEF f
    <3> QED
      BY <2>1, <2>2 DEF Injection, IsInjective
  <2>4. IsFiniteSet(1..n) /\ Cardinality(1..n) = n
    BY <1>1, FS_Interval
  <2>5. f \in Surjection(S, 1..n)
    <3> HIDE DEF f
    <3> QED
      BY <2>3, <2>4, FS_Injection
  <2>6. ASSUME NEW i \in 1..n PROVE \E x \in S : Cardinality(B[x]) = i - 1
    <3>1. \E x \in S : f[x] = i
      <4> HIDE DEF f
      <4> QED
        BY <2>5 DEF Surjection
    <3>2. PICK x \in S : Cardinality(B[x]) + 1 = i
      BY <3>1
    <3>3. Cardinality(B[x]) = i - 1
      BY <1>1, <1>2, <3>2
    <3> QED
      BY <3>3
  <2> QED
    BY <2>6
<1>6. \A i \in 1..n : s[i] \in S /\ Cardinality(B[s[i]]) = i - 1
  BY <1>5
<1>7. List(s) /\ Len(s) = n
  BY <1>1, ListMade
<1>8. ToSet(s) = S
  <2>1. ToSet(s) \subseteq S
    BY <1>6 DEF ToSet
  <2>2. ASSUME NEW x \in S PROVE x \in ToSet(s)
    <3>1. Cardinality(B[x]) + 1 \in 1..n /\ (Cardinality(B[x]) + 1) - 1 = Cardinality(B[x])
      BY <1>1, <1>2
    <3>2. s[Cardinality(B[x]) + 1] = x
      BY <1>4, <1>6, <3>1
    <3> QED
      BY <3>1, <3>2 DEF ToSet
  <2> QED
    BY <2>1, <2>2
<1>9. IsInjective(s)
  <2>1. ASSUME NEW i \in 1..n, NEW j \in 1..n, s[i] = s[j] PROVE i = j
    <3>1. i - 1 = j - 1
      BY <1>6, <2>1
    <3> QED
      BY <1>1, <3>1
  <2> QED
    BY <2>1 DEF IsInjective
<1>10. ASSUME NEW i \in 1..n, NEW j \in 1..n, i < j PROVE s[i] \in B[s[j]]
  <2>1. s[i] = s[j] \/ s[i] \in B[s[j]] \/ s[j] \in B[s[i]]
    BY <1>6 DEF Ranks
  <2>2. s[i] # s[j]
    BY <1>7, <1>9, <1>10 DEF IsInjective
  <2>3. s[j] \notin B[s[i]]
    <3>1. SUFFICES ASSUME s[j] \in B[s[i]] PROVE FALSE
      OBVIOUS
    <3>2. j - 1 < i - 1
      BY <1>3, <1>6, <3>1
    <3> QED
      BY <1>1, <1>10, <3>2
  <2> QED
    BY <2>1, <2>2, <2>3
<1> QED
  BY <1>7, <1>8, <1>9, <1>10 DEF Sorted

\* A finite set of numbers by their size.
LEMMA NumbersSorted ==
  ASSUME NEW S \in SUBSET Nat, IsFiniteSet(S), NEW s, s = Ordered(S, LAMBDA i, j : i < j)
  PROVE  /\ List(s) /\ Len(s) = Cardinality(S) /\ ToSet(s) = S /\ IsInjective(s)
         /\ \A i, j \in 1..Len(s) : i < j => s[i] < s[j]
<1> DEFINE B == [x \in S |-> {y \in S : y < x}]
<1>1. Ranks(S, B)
  <2>3. \A x \in S : x \in Nat /\ B[x] = {y \in S : y < x}
    OBVIOUS
  <2> HIDE DEF B
  <2>1. ASSUME NEW x \in S PROVE B[x] \subseteq S /\ x \notin B[x] /\ \A y \in B[x] : B[y] \subseteq B[x]
    <3>1. B[x] \subseteq S /\ x \notin B[x]
      <4>1. x \in Nat /\ B[x] = {y \in S : y < x}
        BY <2>3
      <4>2. ~(x < x)
        BY ONLY <4>1
      <4> QED
        BY <4>1, <4>2
    <3>2. ASSUME NEW y \in B[x], NEW z \in B[y] PROVE z \in B[x]
      <4>1. y \in S /\ y < x /\ z \in S /\ z < y
        BY <2>3
      <4>3. x \in Nat /\ y \in Nat /\ z \in Nat
        BY <2>3, <4>1
      <4>2. z < x
        BY ONLY <4>1, <4>3
      <4> QED
        BY <2>3, <4>1, <4>2
    <3> QED
      BY <3>1, <3>2
  <2>2. ASSUME NEW x \in S, NEW y \in S PROVE x = y \/ x \in B[y] \/ y \in B[x]
    <3>1. x \in Nat /\ y \in Nat
      BY <2>3
    <3>2. x = y \/ x < y \/ y < x
      BY ONLY <3>1
    <3> QED
      BY <2>3, <3>2
  <2> QED
    BY <2>1, <2>2 DEF Ranks
<1>2. DOMAIN s = 1..Cardinality(S) /\ s = [i \in 1..Cardinality(S) |-> s[i]]
  <2> DEFINE e(i) == CHOOSE x \in S : Cardinality({y \in S : y < x}) = i - 1
  <2>1. s = [i \in 1..Cardinality(S) |-> e(i)]
    BY DEF Ordered
  <2> HIDE DEF e
  <2> QED
    BY <2>1
<1>3. ASSUME NEW i \in 1..Cardinality(S), \E x \in S : Cardinality(B[x]) = i - 1
      PROVE  s[i] \in S /\ Cardinality(B[s[i]]) = i - 1
  <2>1. s[i] = CHOOSE x \in S : Cardinality({y \in S : y < x}) = i - 1
    BY DEF Ordered
  <2>2. \E x \in S : Cardinality({y \in S : y < x}) = i - 1
    BY <1>3
  <2>3. s[i] \in S /\ Cardinality({y \in S : y < s[i]}) = i - 1
    BY <2>1, <2>2
  <2> QED
    BY <2>3
<1>4. Sorted(S, B, s)
  <2> HIDE DEF B
  <2> QED
    BY <1>1, <1>2, <1>3, RankSorts
<1>5. \A i \in 1..Len(s) : s[i] \in S
  BY <1>4, ListIs DEF Sorted
<1> QED
  BY <1>4, <1>5 DEF Sorted

\* Some of a list in its turn.
LEMMA SomeInTurn ==
  ASSUME NEW list, List(list), IsInjective(list), NEW set, NEW s, s = InTurn(list, set)
  PROVE  /\ List(s) /\ IsInjective(s) /\ ToSet(s) = set \cap ToSet(list)
         /\ \A i, j \in 1..Len(s) : i < j => PositionIn(list, s[i]) < PositionIn(list, s[j])
<1> DEFINE S == {i \in DOMAIN list : list[i] \in set}
           places == Ordered(S, LAMBDA i, j : i < j)
           n == Cardinality(S)
<1>1. Len(list) \in Nat /\ DOMAIN list = 1..Len(list)
  BY ListIs
<1>2. S \in SUBSET Nat /\ S \in SUBSET (1..Len(list)) /\ IsFiniteSet(1..Len(list))
  BY <1>1, FS_Interval
<1>3. IsFiniteSet(S)
  BY <1>2, FS_Subset
<1>4. n \in Nat
  BY <1>3, FS_CardinalityType
<1>5. /\ List(places) /\ Len(places) = n /\ ToSet(places) = S /\ IsInjective(places)
      /\ \A i, j \in 1..n : i < j => places[i] < places[j]
  <2> HIDE DEF S
  <2> QED
    BY <1>2, <1>3, NumbersSorted
<1>6. s = [i \in DOMAIN places |-> list[places[i]]]
  BY DEF InTurn
<1> HIDE DEF places
<1>7. DOMAIN places = 1..n /\ \A i \in 1..n : places[i] \in S
  BY <1>5, ListIs
<1>8. DOMAIN s = 1..n /\ s = [i \in 1..n |-> s[i]] /\ \A i \in 1..n : s[i] = list[places[i]]
  BY <1>6, <1>7
<1>9. List(s) /\ Len(s) = n
  BY <1>4, <1>8, ListMade
<1>10. ToSet(s) = set \cap ToSet(list)
  <2>1. ToSet(s) = {list[places[i]] : i \in 1..n}
    BY <1>8 DEF ToSet
  <2>2. S = {places[i] : i \in 1..n}
    BY <1>5, <1>7 DEF ToSet
  <2>3. ToSet(list) = {list[i] : i \in DOMAIN list}
    BY DEF ToSet
  <2> QED
    BY <2>1, <2>2, <2>3
<1>11. IsInjective(s)
  <2>1. ASSUME NEW i \in 1..n, NEW j \in 1..n, s[i] = s[j] PROVE i = j
    <3>1. list[places[i]] = list[places[j]] /\ places[i] \in DOMAIN list /\ places[j] \in DOMAIN list
      BY <1>7, <1>8, <2>1
    <3>2. places[i] = places[j]
      BY <3>1 DEF IsInjective
    <3> QED
      BY <1>5, <1>7, <3>2 DEF IsInjective
  <2> QED
    BY <1>8, <2>1 DEF IsInjective
<1>12. ASSUME NEW i \in DOMAIN list PROVE PositionIn(list, list[i]) = i
  <2>1. PositionIn(list, list[i]) \in DOMAIN list /\ list[PositionIn(list, list[i])] = list[i]
    BY DEF PositionIn
  <2> QED
    BY <2>1 DEF IsInjective
<1>13. ASSUME NEW i \in 1..n, NEW j \in 1..n, i < j PROVE PositionIn(list, s[i]) < PositionIn(list, s[j])
  <2>1. places[i] < places[j] /\ places[i] \in DOMAIN list /\ places[j] \in DOMAIN list
    BY <1>5, <1>7, <1>13
  <2> QED
    BY <1>8, <1>12, <2>1
<1> QED
  BY <1>9, <1>10, <1>11, <1>13

\* Where the members of a list are in it.
LEMMA PositionIs ==
  ASSUME NEW list, List(list)
  PROVE  /\ \A x \in ToSet(list) : PositionIn(list, x) \in 1..Len(list) /\ list[PositionIn(list, x)] = x
         /\ \A x, y \in ToSet(list) : PositionIn(list, x) = PositionIn(list, y) => x = y
<1>1. ASSUME NEW x \in ToSet(list)
      PROVE  PositionIn(list, x) \in DOMAIN list /\ list[PositionIn(list, x)] = x
  <2>1. \E i \in DOMAIN list : list[i] = x
    BY DEF ToSet
  <2> QED
    BY <2>1 DEF PositionIn
<1>2. DOMAIN list = 1..Len(list)
  BY ListIs
<1>3. \A x, y \in ToSet(list) : PositionIn(list, x) = PositionIn(list, y) => x = y
  BY <1>1
<1> QED
  BY <1>1, <1>2, <1>3

\* Min of two numbers.
LEMMA LeastOfTwo ==
  ASSUME NEW a \in Int, NEW b \in Int
  PROVE  Min({a, b}) = IF a <= b THEN a ELSE b
<1> DEFINE m == IF a <= b THEN a ELSE b
<1>1. m \in {a, b} /\ \A y \in {a, b} : m <= y
  OBVIOUS
<1>2. \A x \in {a, b} : (\A y \in {a, b} : x <= y) => x = m
  OBVIOUS
<1>3. Min({a, b}) \in {a, b} /\ \A y \in {a, b} : Min({a, b}) <= y
  BY <1>1 DEF Min
<1> QED
  BY <1>2, <1>3

\* A part of a list of different things is one.
LEMMA PartIsInjective ==
  ASSUME NEW s, List(s), IsInjective(s), NEW m \in Nat, NEW n \in Nat, n <= Len(s)
  PROVE  IsInjective(SubSeq(s, m + 1, n))
<1> DEFINE part == SubSeq(s, m + 1, n)
<1>1. /\ Len(part) = (IF m <= n THEN n - m ELSE 0)
      /\ DOMAIN part = 1..Len(part) /\ \A i \in 1..(n - m) : part[i] = s[m + i]
  BY PartOfList
<1>2. Len(s) \in Nat /\ DOMAIN s = 1..Len(s)
  BY ListIs
<1> HIDE DEF part
<1>3. ASSUME NEW i \in DOMAIN part, NEW j \in DOMAIN part, part[i] = part[j] PROVE i = j
  <2>1. i \in 1..(n - m) /\ j \in 1..(n - m)
    BY <1>1
  <2>2. m + i \in 1..Len(s) /\ m + j \in 1..Len(s) /\ s[m + i] = s[m + j]
    BY <1>1, <1>2, <1>3, <2>1
  <2>3. m + i = m + j
    BY <1>2, <2>2 DEF IsInjective
  <2> QED
    BY <2>1, <2>3
<1>4. IsInjective(part)
  BY <1>3 DEF IsInjective
<1> QED
  BY <1>4 DEF part

-----------------------------------------------------------------------------
(* A page: what was told of a list so far is its start, as far as the      *)
(* offset, and a page more is a longer start of it.                        *)
Paged(c, list) == c.offset <= Len(list) /\ FlattenSeq(c.told) = SubSeq(list, 1, c.offset)

\* A page is a part of the list, as far as it has one.
LEMMA PageIs ==
  ASSUME NEW c, c.offset \in Nat, c.limit \in Nat, NEW list, List(list)
  PROVE  LET to == IF c.offset + c.limit <= Len(list) THEN c.offset + c.limit ELSE Len(list)
         IN /\ Page(list, c) = SubSeq(list, c.offset + 1, to) /\ List(Page(list, c))
            /\ to \in Nat /\ to <= Len(list)
            /\ IsInjective(list) => IsInjective(Page(list, c))
            /\ ToSet(Page(list, c)) \subseteq ToSet(list)
<1> DEFINE to == IF c.offset + c.limit <= Len(list) THEN c.offset + c.limit ELSE Len(list)
<1>1. Len(list) \in Nat
  BY ListIs
<1>2. Min({c.offset + c.limit, Len(list)}) = to
  BY <1>1, LeastOfTwo
<1>3. Page(list, c) = SubSeq(list, c.offset + 1, to) /\ to \in Nat /\ to <= Len(list)
  <2>1. to \in Nat /\ to <= Len(list)
    BY <1>1
  <2> HIDE DEF to
  <2>2. Page(list, c) = SubSeq(list, c.offset + 1, to)
    BY <1>2 DEF Page
  <2> QED
    BY <2>1, <2>2
<1> HIDE DEF to
<1>4. List(Page(list, c)) /\ ToSet(Page(list, c)) \subseteq ToSet(list)
  BY <1>3, PartOfList
<1>5. IsInjective(list) => IsInjective(Page(list, c))
  BY <1>3, PartIsInjective
<1> QED
  BY <1>3, <1>4, <1>5 DEF to

\* What is told is the start of a list, and with a page more a longer one.
LEMMA ToldMore ==
  ASSUME NEW c, c.offset \in Nat, Lists(c.told), NEW list, List(list), Paged(c, list),
         NEW to \in Nat, c.offset <= to, to <= Len(list)
  PROVE  FlattenSeq(Append(c.told, SubSeq(list, c.offset + 1, to))) = SubSeq(list, 1, to)
<1>1. Len(list) \in Nat /\ list \in Seq(ToSet(list))
  BY ListIs
<1>2. List(SubSeq(list, c.offset + 1, to))
  BY PartOfList
<1>3. FlattenSeq(Append(c.told, SubSeq(list, c.offset + 1, to)))
        = SubSeq(list, 1, c.offset) \o SubSeq(list, c.offset + 1, to)
  BY <1>2, FlattenMore DEF Paged
<1>4. 1 \in 1..(Len(list) + 1) /\ c.offset \in (1 - 1)..Len(list) /\ to \in c.offset..Len(list)
  BY <1>1
<1>5. SubSeq(list, 1, c.offset) \o SubSeq(list, c.offset + 1, to) = SubSeq(list, 1, to)
  BY <1>1, <1>4, ConcatAdjacentSubSeq
<1> QED
  BY <1>3, <1>5

\* A turn: the page is told, and either there is more or the list is told.
Fields == {"pc", "told", "offset", "usages", "todo", "searched"}

\* What a turn leaves.
LEMMA TurnIs ==
  ASSUME NEW c, Fields \subseteq DOMAIN c, NEW page, NEW more \in BOOLEAN, NEW d, d = Turn(c, page, more)
  PROVE  /\ DOMAIN d = DOMAIN c /\ d.pc = (IF more THEN "more" ELSE "done")
         /\ d.told = Append(c.told, page) /\ d.offset = (IF more THEN c.offset + c.limit ELSE c.offset)
         /\ d.usages = << >> /\ d.todo = << >> /\ d.searched = {}
         /\ \A x \in DOMAIN c \ Fields : d[x] = c[x]
BY DEF Turn, Fields

\* A turn that tells a page of a list, and knows whether there is more.
LEMMA TurnTells ==
  ASSUME NEW c, Fields \subseteq DOMAIN c, c.offset \in Nat, c.limit \in Nat, Lists(c.told),
         NEW list, List(list), Paged(c, list),
         NEW more \in BOOLEAN, NEW d, d = Turn(c, Page(list, c), more), d.limit = c.limit,
         more => c.offset + c.limit <= Len(list), ~more => Len(list) <= c.offset + c.limit
  PROVE  /\ d.pc \in {"more", "done"}
         /\ d.pc = "more" => Paged(d, list)
         /\ d.pc = "done" => FlattenSeq(d.told) = list
<1> DEFINE to == IF c.offset + c.limit <= Len(list) THEN c.offset + c.limit ELSE Len(list)
<1>1. Page(list, c) = SubSeq(list, c.offset + 1, to) /\ to \in Nat /\ to <= Len(list)
  BY PageIs
<1>2. Len(list) \in Nat /\ list \in Seq(ToSet(list)) /\ c.offset <= Len(list)
  BY ListIs DEF Paged
<1>3. c.offset <= to
  BY <1>2
<1> HIDE DEF to
<1>4. FlattenSeq(Append(c.told, Page(list, c))) = SubSeq(list, 1, to)
  BY <1>1, <1>3, ToldMore
<1>5. /\ d.pc = (IF more THEN "more" ELSE "done") /\ d.told = Append(c.told, Page(list, c))
      /\ d.offset = (IF more THEN c.offset + c.limit ELSE c.offset)
  BY TurnIs
<1>6. CASE more
  <2>1. to = c.offset + c.limit
    BY <1>6 DEF to
  <2>2. d.pc = "more" /\ d.offset = to
    BY <1>5, <1>6, <2>1
  <2>3. FlattenSeq(d.told) = SubSeq(list, 1, d.offset) /\ d.offset <= Len(list)
    BY <1>1, <1>4, <1>5, <2>2
  <2> QED
    BY <2>2, <2>3 DEF Paged
<1>7. CASE ~more
  <2>1. to = Len(list)
    BY <1>2, <1>7 DEF to
  <2>2. SubSeq(list, 1, to) = list
    BY <1>2, <2>1, SubSeqFull
  <2> QED
    BY <1>4, <1>5, <1>7, <2>2
<1> QED
  BY <1>6, <1>7

-----------------------------------------------------------------------------
(* Lists that begin an order: with each of their members they have all     *)
(* that are before it, in order.  One that has all is the order.           *)
Begins(S, B, u) ==
  /\ List(u) /\ ToSet(u) \subseteq S
  /\ \A i, j \in 1..Len(u) : i < j => u[i] \in B[u[j]]
  /\ \A x \in ToSet(u) : B[x] \subseteq ToSet(u)

\* An order begins itself.
LEMMA SortedBegins ==
  ASSUME NEW S, NEW B, Ranks(S, B), NEW u, Sorted(S, B, u)
  PROVE  Begins(S, B, u)
BY DEF Begins, Sorted, Ranks

\* Of a list that begins an order: who comes before a member of it is in it,
LEMMA BeforeIsBegun ==
  ASSUME NEW S, NEW B, Ranks(S, B), NEW u, Begins(S, B, u), NEW i \in 1..Len(u)
  PROVE  B[u[i]] = {u[j] : j \in 1..(i - 1)}
<1>1. Len(u) \in Nat /\ \A j \in 1..Len(u) : u[j] \in ToSet(u) /\ u[j] \in S
  BY ListIs DEF Begins
<1>2. ASSUME NEW y \in B[u[i]] PROVE \E j \in 1..(i - 1) : y = u[j]
  <2>1. y \in ToSet(u)
    BY <1>1 DEF Begins
  <2>2. PICK j \in 1..Len(u) : y = u[j]
    <3>1. DOMAIN u = 1..Len(u)
      BY ListIs DEF Begins
    <3> QED
      BY <2>1, <3>1 DEF ToSet
  <2>3. j # i
    BY <1>1, <2>2 DEF Ranks
  <2>4. ~(i < j)
    <3> SUFFICES ASSUME i < j PROVE FALSE
      OBVIOUS
    <3>1. u[i] \in B[u[j]]
      BY <2>2 DEF Begins
    <3>2. B[u[i]] \subseteq B[u[j]]
      BY <1>1, <2>2, <3>1 DEF Ranks
    <3> QED
      BY <1>1, <2>2, <3>2 DEF Ranks
  <2>5. j \in 1..(i - 1)
    BY <1>1, <2>3, <2>4
  <2> QED
    BY <2>2, <2>5
<1>3. \A j \in 1..(i - 1) : j \in 1..Len(u) /\ j < i
  BY <1>1
<1>4. \A j \in 1..(i - 1) : u[j] \in B[u[i]]
  BY <1>3 DEF Begins
<1> QED
  BY <1>2, <1>4

\* so that it is the start of the order,
LEMMA BegunIsStart ==
  ASSUME NEW S, NEW B, Ranks(S, B), NEW all, Sorted(S, B, all), NEW u, Begins(S, B, u)
  PROVE  Len(u) <= Len(all) /\ u = SubSeq(all, 1, Len(u)) /\ IsInjective(u)
<1> DEFINE m == Len(u)
           n == Len(all)
           T == {k \in Nat : \A j \in 1..k : j <= m => j <= n /\ u[j] = all[j]}
<1>1. /\ m \in Nat /\ n \in Nat /\ DOMAIN u = 1..m /\ DOMAIN all = 1..n
      /\ List(u) /\ List(all)
      /\ \A j \in 1..m : u[j] \in ToSet(u) /\ u[j] \in S
      /\ \A j \in 1..n : all[j] \in S
  BY ListIs DEF Begins, Sorted
<1>2. \A j \in 1..m : B[u[j]] = {u[k] : k \in 1..(j - 1)}
  BY BeforeIsBegun
<1>3. \A j \in 1..n : B[all[j]] = {all[k] : k \in 1..(j - 1)}
  BY SortedBegins, BeforeIsBegun
<1> HIDE DEF m, n
<1>4. 0 \in T
  OBVIOUS
<1>5. ASSUME NEW k \in T PROVE k + 1 \in T
  <2>1. SUFFICES ASSUME k + 1 <= m PROVE k + 1 <= n /\ u[k + 1] = all[k + 1]
    OBVIOUS
  <2>2. k \in Nat /\ k + 1 \in 1..m /\ k + 1 - 1 = k /\ \A j \in 1..k : j \in 1..m /\ j <= n /\ u[j] = all[j]
    BY <1>1, <2>1
  <2>3. u[k + 1] \in S /\ u[k + 1] \notin B[u[k + 1]] /\ B[u[k + 1]] = {u[j] : j \in 1..k}
    BY <1>1, <1>2, <2>2 DEF Ranks
  <2>4. k + 1 <= n
    <3>1. PICK j \in 1..n : u[k + 1] = all[j]
      <4>1. u[k + 1] \in ToSet(all)
        BY <2>3 DEF Sorted
      <4> QED
        BY <1>1, <4>1 DEF ToSet
    <3>2. j \notin 1..k
      BY <2>2, <2>3, <3>1
    <3> QED
      BY <1>1, <2>2, <3>2
  <2>5. k + 1 \in 1..n /\ all[k + 1] \in S /\ all[k + 1] \notin B[all[k + 1]]
    BY <1>1, <2>2, <2>4 DEF Ranks
  <2>6. B[all[k + 1]] = {all[j] : j \in 1..k}
    BY <1>3, <2>2, <2>5
  <2>7. B[all[k + 1]] = B[u[k + 1]]
    BY <2>2, <2>3, <2>6
  <2>8. u[k + 1] = all[k + 1]
    BY <2>3, <2>5, <2>7 DEF Ranks
  <2> QED
    BY <2>4, <2>8
<1> HIDE DEF T
<1>6. m \in T
  BY <1>1, <1>4, <1>5, Counting DEF T
<1>7. m <= n /\ \A j \in 1..m : u[j] = all[j]
  <2>1. \A j \in 1..m : j <= m => j <= n /\ u[j] = all[j]
    BY <1>6 DEF T
  <2>2. \A j \in 1..m : j <= m
    BY <1>1
  <2>3. m <= n
    BY <1>1, <2>1
  <2> QED
    BY <2>1, <2>2, <2>3
<1>8. /\ List(SubSeq(all, 1, m)) /\ Len(SubSeq(all, 1, m)) = m
      /\ \A j \in 1..m : SubSeq(all, 1, m)[j] = all[j]
  BY <1>1, <1>7, StartOfList
<1>9. u = SubSeq(all, 1, m)
  <2>1. Len(u) = Len(SubSeq(all, 1, m)) /\ \A j \in 1..Len(u) : u[j] = SubSeq(all, 1, m)[j]
    BY <1>7, <1>8 DEF m
  <2> QED
    BY <1>1, <1>8, <2>1, SameList
<1>10. IsInjective(u)
  <2>1. IsInjective(all)
    BY DEF Sorted
  <2>2. \A i, j \in 1..m : u[i] = u[j] => i = j
    <3>1. \A i \in 1..m : i \in 1..n
      BY <1>1, <1>7
    <3> QED
      BY <1>1, <1>7, <2>1, <3>1 DEF IsInjective
  <2> QED
    BY <1>1, <2>2 DEF IsInjective
<1> QED
  BY <1>7, <1>9, <1>10 DEF m, n

\* and all of it when it has every member.
LEMMA BegunIsAll ==
  ASSUME NEW S, NEW B, Ranks(S, B), NEW all, Sorted(S, B, all), NEW u, Begins(S, B, u), S \subseteq ToSet(u)
  PROVE  u = all
<1>1. Sorted(S, B, u)
  <2>1. ToSet(u) = S /\ List(u) /\ IsInjective(u) /\ \A i, j \in 1..Len(u) : i < j => u[i] \in B[u[j]]
    BY BegunIsStart DEF Begins
  <2>2. u \in Seq(ToSet(u))
    BY <2>1 DEF List
  <2>3. Cardinality(S) = Len(u)
    <3>1. Len(u) \in Nat /\ DOMAIN u = 1..Len(u)
      BY <2>1, ListIs
    <3>3. u \in Bijection(1..Len(u), S)
      <4>1. u \in [1..Len(u) -> S]
        BY <2>1, <3>1, ListIs
      <4>2. u \in Injection(1..Len(u), S)
        BY <2>1, <3>1, <4>1 DEF Injection, IsInjective
      <4>3. \A x \in S : \E i \in 1..Len(u) : u[i] = x
        BY <2>1, <3>1 DEF ToSet
      <4>4. u \in Surjection(1..Len(u), S)
        BY <4>1, <4>3 DEF Surjection
      <4> QED
        BY <4>2, <4>4 DEF Bijection
    <3> QED
      BY <3>1, <3>3, FS_CountingElements DEF ExistsBijection
  <2> QED
    BY <2>1, <2>3 DEF Sorted
<1>2. Len(all) <= Len(u) /\ Len(u) <= Len(all) /\ u = SubSeq(all, 1, Len(u))
  BY <1>1, SortedBegins, BegunIsStart
<1>3. Len(all) \in Nat /\ Len(u) \in Nat /\ all \in Seq(ToSet(all))
  BY <1>1, ListIs DEF Sorted
<1>4. Len(u) = Len(all)
  BY <1>2, <1>3
<1> QED
  BY <1>2, <1>3, <1>4, SubSeqFull

-----------------------------------------------------------------------------
(* An order by keys of three numbers, and what is gathered of it: all      *)
(* whose first number is below one, in order.                              *)
Lex(a, b) ==
  a[1] < b[1] \/ (a[1] = b[1] /\ (a[2] < b[2] \/ (a[2] = b[2] /\ a[3] < b[3])))
Keyed(S, K) ==
  /\ IsFiniteSet(S)
  /\ \A x \in S : K[x][1] \in Int /\ K[x][2] \in Int /\ K[x][3] \in Int
  /\ \A x, y \in S : K[x][1] = K[y][1] /\ K[x][2] = K[y][2] /\ K[x][3] = K[y][3] => x = y
Behind(S, K) == [x \in S |-> {y \in S : Lex(K[y], K[x])}]
Gathered(S, K, u, r) ==
  /\ List(u) /\ ToSet(u) = {x \in S : K[x][1] < r}
  /\ \A i, j \in 1..Len(u) : i < j => Lex(K[u[i]], K[u[j]])

\* Keys are compared by their first number, then by the second and the third.
LEMMA LexOrders ==
  ASSUME NEW a, a[1] \in Int, a[2] \in Int, a[3] \in Int,
         NEW b, b[1] \in Int, b[2] \in Int, b[3] \in Int,
         NEW c, c[1] \in Int, c[2] \in Int, c[3] \in Int
  PROVE  /\ ~Lex(a, a) /\ (Lex(a, b) /\ Lex(b, c) => Lex(a, c))
         /\ Lex(a, b) \/ Lex(b, a) \/ (a[1] = b[1] /\ a[2] = b[2] /\ a[3] = b[3])
BY DEF Lex

\* Keys that differ rank a finite set.
LEMMA KeysRank ==
  ASSUME NEW S, NEW K, Keyed(S, K)
  PROVE  Ranks(S, Behind(S, K))
<1> DEFINE B == Behind(S, K)
<1>0. \A x \in S : B[x] = {y \in S : Lex(K[y], K[x])}
  BY DEF Behind
<1>1. \A x, y, z \in S :
        /\ ~Lex(K[x], K[x]) /\ (Lex(K[x], K[y]) /\ Lex(K[y], K[z]) => Lex(K[x], K[z]))
        /\ Lex(K[x], K[y]) \/ Lex(K[y], K[x]) \/ x = y
  <2> SUFFICES ASSUME NEW x \in S, NEW y \in S, NEW z \in S
               PROVE  /\ ~Lex(K[x], K[x]) /\ (Lex(K[x], K[y]) /\ Lex(K[y], K[z]) => Lex(K[x], K[z]))
                      /\ Lex(K[x], K[y]) \/ Lex(K[y], K[x]) \/ x = y
    OBVIOUS
  <2>1. \A e \in {x, y, z} : K[e][1] \in Int /\ K[e][2] \in Int /\ K[e][3] \in Int
    BY DEF Keyed
  <2>2. /\ ~Lex(K[x], K[x]) /\ (Lex(K[x], K[y]) /\ Lex(K[y], K[z]) => Lex(K[x], K[z]))
        /\ Lex(K[x], K[y]) \/ Lex(K[y], K[x])
           \/ (K[x][1] = K[y][1] /\ K[x][2] = K[y][2] /\ K[x][3] = K[y][3])
    BY <2>1, LexOrders
  <2> QED
    BY <2>2 DEF Keyed
<1> HIDE DEF B
<1>2. ASSUME NEW x \in S PROVE B[x] \subseteq S /\ x \notin B[x] /\ \A y \in B[x] : B[y] \subseteq B[x]
  BY <1>0, <1>1
<1>3. \A x, y \in S : x = y \/ x \in B[y] \/ y \in B[x]
  BY <1>0, <1>1
<1>4. IsFiniteSet(S)
  BY DEF Keyed
<1>5. Ranks(S, B)
  BY <1>2, <1>3, <1>4 DEF Ranks
<1> QED
  BY <1>5 DEF B

\* What is ranked can be sorted.
LEMMA SortedExists ==
  ASSUME NEW S, NEW B, Ranks(S, B)
  PROVE  \E all : Sorted(S, B, all)
<1> DEFINE at(i) == CHOOSE x \in S : Cardinality(B[x]) = i - 1
           all == [i \in 1..Cardinality(S) |-> at(i)]
<1>1. \A i : (\E x \in S : Cardinality(B[x]) = i - 1) => at(i) \in S /\ Cardinality(B[at(i)]) = i - 1
  OBVIOUS
<1> HIDE DEF at
<1>2. DOMAIN all = 1..Cardinality(S) /\ all = [i \in 1..Cardinality(S) |-> all[i]]
  OBVIOUS
<1>3. \A i \in 1..Cardinality(S) : (\E x \in S : Cardinality(B[x]) = i - 1) =>
        all[i] \in S /\ Cardinality(B[all[i]]) = i - 1
  BY <1>1
<1> HIDE DEF all
<1>4. Sorted(S, B, all)
  BY <1>2, <1>3, RankSorts
<1> QED
  BY <1>4

\* What is gathered begins the order.
LEMMA GatheredBegins ==
  ASSUME NEW S, NEW K, Keyed(S, K), NEW r \in Int, NEW u, Gathered(S, K, u, r)
  PROVE  Begins(S, Behind(S, K), u)
<1>1. /\ List(u) /\ ToSet(u) \subseteq S /\ \A i \in 1..Len(u) : u[i] \in S
      /\ \A x \in S : Behind(S, K)[x] = {y \in S : Lex(K[y], K[x])}
  BY ListIs DEF Gathered, Behind
<1>2. \A i, j \in 1..Len(u) : i < j => u[i] \in Behind(S, K)[u[j]]
  BY <1>1 DEF Gathered
<1>3. ASSUME NEW x \in ToSet(u), NEW y \in Behind(S, K)[x] PROVE y \in ToSet(u)
  <2>1. x \in S /\ y \in S /\ Lex(K[y], K[x]) /\ K[x][1] < r
    BY <1>1, <1>3 DEF Gathered
  <2>2. K[y][1] <= K[x][1]
    <3>1. K[y][1] \in Int /\ K[x][1] \in Int
      BY <2>1 DEF Keyed
    <3> QED
      BY <2>1, <3>1 DEF Lex
  <2>3. K[y][1] < r
    <3>1. K[y][1] \in Int /\ K[x][1] \in Int
      BY <2>1 DEF Keyed
    <3> QED
      BY <2>1, <2>2, <3>1
  <2> QED
    BY <2>1, <2>3 DEF Gathered
<1> QED
  BY <1>1, <1>2, <1>3 DEF Begins

\* What is gathered first, and what is gathered where more comes.
LEMMA GatheredNothing ==
  ASSUME NEW S, NEW K, NEW r \in Int, \A x \in S : ~(K[x][1] < r)
  PROVE  Gathered(S, K, << >>, r)
<1>1. \A i, j \in 1..Len(<< >>) : FALSE
  BY EmptyList
<1>2. {x \in S : K[x][1] < r} = {}
  OBVIOUS
<1> QED
  BY <1>1, <1>2, EmptyList DEF Gathered

\* Those with the next first number follow in their order.
LEMMA GatherMore ==
  ASSUME NEW S, NEW K, Keyed(S, K), NEW r \in Int, NEW u, Gathered(S, K, u, r),
         NEW v, List(v), ToSet(v) = {x \in S : K[x][1] = r},
         \A i, j \in 1..Len(v) : i < j => Lex(K[v[i]], K[v[j]])
  PROVE  Gathered(S, K, u \o v, r + 1)
<1> DEFINE m == Len(u)
           n == Len(v)
           w == u \o v
<1>1. /\ m \in Nat /\ n \in Nat /\ \A i \in 1..m : u[i] \in ToSet(u)
      /\ \A i \in 1..n : v[i] \in ToSet(v)
  BY ListIs DEF Gathered
<1>2. /\ List(w) /\ Len(w) = m + n /\ ToSet(w) = ToSet(u) \cup ToSet(v)
      /\ \A i \in 1..m : w[i] = u[i]
      /\ \A i \in 1..n : w[m + i] = v[i]
  BY JoinedList DEF Gathered
<1>3. ToSet(w) = {x \in S : K[x][1] < r + 1}
  <2>1. \A x \in S : K[x][1] < r + 1 <=> K[x][1] < r \/ K[x][1] = r
    BY DEF Keyed
  <2> HIDE DEF w
  <2> QED
    BY <1>2, <2>1 DEF Gathered
<1> HIDE DEF m, n, w
<1>4. \A i \in 1..n : K[v[i]][1] = r
  BY <1>1
<1>5. \A i \in 1..m : K[u[i]][1] < r
  BY <1>1 DEF Gathered
<1>6. ASSUME NEW i \in 1..(m + n), NEW j \in 1..(m + n), i < j PROVE Lex(K[w[i]], K[w[j]])
  <2>1. CASE j <= m
    <3>1. i \in 1..m /\ j \in 1..m
      BY <1>1, <1>6, <2>1
    <3> QED
      BY <1>2, <1>6, <3>1 DEF Gathered, m
  <2>2. CASE i > m
    <3>1. i - m \in 1..n /\ j - m \in 1..n /\ i - m < j - m /\ m + (i - m) = i /\ m + (j - m) = j
      BY <1>1, <1>6, <2>2
    <3>2. w[i] = v[i - m] /\ w[j] = v[j - m]
      BY <1>2, <3>1
    <3>3. Lex(K[v[i - m]], K[v[j - m]])
      BY <3>1 DEF n
    <3> QED
      BY <3>2, <3>3
  <2>3. CASE i <= m /\ j > m
    <3>1. i \in 1..m /\ j - m \in 1..n /\ m + (j - m) = j
      BY <1>1, <1>6, <2>3
    <3>2. w[i] = u[i] /\ w[j] = v[j - m]
      BY <1>2, <3>1
    <3>3. K[w[i]][1] < K[w[j]][1]
      BY <1>4, <1>5, <3>1, <3>2
    <3> QED
      BY <3>3 DEF Lex
  <2> QED
    BY <1>1, <2>1, <2>2, <2>3
<1>7. Gathered(S, K, w, r + 1)
  BY <1>2, <1>3, <1>6 DEF Gathered
<1> QED
  BY <1>7 DEF w

Ranked(S, B, s) ==
  /\ DOMAIN s = 1..Cardinality(S) /\ s = [i \in 1..Cardinality(S) |-> s[i]]
  /\ \A i \in 1..Cardinality(S) : (\E x \in S : Cardinality(B[x]) = i - 1) =>
        s[i] \in S /\ Cardinality(B[s[i]]) = i - 1

\* A list by rank is sorted by the keys.
LEMMA KeysSort ==
  ASSUME NEW S, NEW K, Keyed(S, K), NEW s, Ranked(S, Behind(S, K), s)
  PROVE  /\ List(s) /\ Len(s) = Cardinality(S) /\ ToSet(s) = S /\ IsInjective(s)
         /\ \A i, j \in 1..Len(s) : i < j => Lex(K[s[i]], K[s[j]])
<1>1. \A x \in S : Behind(S, K)[x] = {y \in S : Lex(K[y], K[x])}
  BY DEF Behind
<1>2. Ranks(S, Behind(S, K))
  BY KeysRank
<1>3. Sorted(S, Behind(S, K), s)
  BY <1>2, RankSorts DEF Ranked
<1>4. \A i \in 1..Len(s) : s[i] \in S
  BY <1>3, ListIs DEF Sorted
<1>5. \A i, j \in 1..Len(s) : i < j => Lex(K[s[i]], K[s[j]])
  BY <1>1, <1>3, <1>4 DEF Sorted
<1> QED
  BY <1>3, <1>5 DEF Sorted

-----------------------------------------------------------------------------
(* The usages of a name.                                                   *)
TreeOK ==
  /\ DOMAIN tree = ToSet(ByWalk) /\ listed \subseteq DOMAIN tree
  /\ \A f \in DOMAIN tree : WellFormed(tree[f])

\* What a function makes of a finite set is finite.
LEMMA ImageIsFinite ==
  ASSUME NEW S, IsFiniteSet(S), NEW f, DOMAIN f = S
  PROVE  IsFiniteSet({f[x] : x \in S})
<1> DEFINE T == {f[x] : x \in S}
           g == [x \in S |-> f[x]]
<1>1. g \in Surjection(S, T)
  BY DEF Surjection
<1> QED
  BY <1>1, FS_Surjection

\* The members of a list are finitely many.
LEMMA MembersAreFinite ==
  ASSUME NEW s, List(s)
  PROVE  IsFiniteSet(ToSet(s))
<1>1. DOMAIN s = 1..Len(s) /\ Len(s) \in Nat
  BY ListIs
<1>2. IsFiniteSet(1..Len(s))
  <2> DEFINE n == Len(s)
  <2>1. n \in Nat
    BY <1>1
  <2> HIDE DEF n
  <2>2. IsFiniteSet(1..n)
    BY <2>1, FS_Interval
  <2> QED
    BY <2>2 DEF n
<1>3. IsFiniteSet({s[x] : x \in DOMAIN s})
  BY <1>1, <1>2, ImageIsFinite
<1> QED
  BY <1>3 DEF ToSet

\* The places of a name in a file: finitely many pairs of numbers, each the place
\* a leaf has in the file.
LEMMA PlacesArePairs ==
  ASSUME NEW file, WellFormed(file), NEW name
  PROVE  /\ IsFiniteSet(PlacesIn(file, name))
         /\ \A p \in PlacesIn(file, name) : p = <<p[1], p[2]>> /\ p[1] \in Nat /\ p[2] \in Nat
         /\ PlacesIn(file, name) = {x.at : x \in {y \in UNION {b.leaves : b \in ToSet(file.blocks)} :
                                                    file.utf8 /\ y.kind \in Identifiers /\ y.name = name}}
<1> DEFINE chosen(b) == {x \in b.leaves : x.kind \in Identifiers /\ x.name = name}
           placed(b) == {Place(b, leaf) : leaf \in chosen(b)}
           blocks == {x \in ToSet(file.blocks) : name \in SaidIn(file, x)}
<1>1. ASSUME NEW b \in ToSet(file.blocks)
      PROVE  /\ IsFiniteSet(b.leaves) /\ b.row \in Nat /\ b.col \in Nat
             /\ \A x \in b.leaves : x.row \in Nat /\ x.col \in Nat /\ x.name \in b.says /\ x.at = Place(b, x)
  BY DEF WellFormed
<1>2. \A b \in ToSet(file.blocks) : IsFiniteSet(placed(b))
  <2> SUFFICES ASSUME NEW b \in ToSet(file.blocks) PROVE IsFiniteSet(placed(b))
    OBVIOUS
  <2> DEFINE at == [leaf \in chosen(b) |-> Place(b, leaf)]
  <2>1. IsFiniteSet(chosen(b))
    BY <1>1, FS_Subset
  <2>2. DOMAIN at = chosen(b) /\ placed(b) = {at[x] : x \in chosen(b)}
    OBVIOUS
  <2> HIDE DEF at
  <2> QED
    BY <2>1, <2>2, ImageIsFinite
<1>3. PlacesIn(file, name) = UNION {placed(b) : b \in blocks}
  BY DEF PlacesIn
<1>4. IsFiniteSet({placed(b) : b \in blocks})
  <2> DEFINE of == [b \in blocks |-> placed(b)]
  <2>1. IsFiniteSet(blocks)
    <3>1. IsFiniteSet(ToSet(file.blocks))
      BY MembersAreFinite DEF WellFormed, List
    <3> QED
      BY <3>1, FS_Subset
  <2>2. DOMAIN of = blocks /\ {placed(b) : b \in blocks} = {of[b] : b \in blocks}
    OBVIOUS
  <2> HIDE DEF of, blocks, placed
  <2>3. IsFiniteSet({of[b] : b \in blocks})
    BY <2>1, <2>2, ImageIsFinite
  <2> QED
    BY <2>2, <2>3
<1>5. IsFiniteSet(PlacesIn(file, name))
  <2> DEFINE all == {placed(b) : b \in blocks}
  <2>1. \A T \in all : IsFiniteSet(T)
    BY <1>2
  <2> HIDE DEF all
  <2>2. IsFiniteSet(UNION all)
    BY <1>4, <2>1, FS_UNION DEF all
  <2> QED
    BY <1>3, <2>2 DEF all
<1>6. ASSUME NEW b \in ToSet(file.blocks), NEW x \in b.leaves
      PROVE  LET p == Place(b, x) IN p = <<p[1], p[2]>> /\ p[1] \in Nat /\ p[2] \in Nat
  BY <1>1 DEF Place
<1>7. ASSUME NEW p PROVE p \in PlacesIn(file, name) <=>
                          file.utf8 /\ \E b \in ToSet(file.blocks) : \E x \in chosen(b) : p = Place(b, x)
  <2>1. p \in PlacesIn(file, name) <=> \E b \in blocks : \E x \in chosen(b) : p = Place(b, x)
    BY <1>3
  <2>2. \A b \in ToSet(file.blocks) : file.utf8 /\ chosen(b) # {} => b \in blocks
    BY <1>1 DEF SaidIn
  <2>3. \A b \in blocks : file.utf8
    BY DEF SaidIn
  <2> QED
    BY <2>1, <2>2, <2>3
<1>8. \A p \in PlacesIn(file, name) : p = <<p[1], p[2]>> /\ p[1] \in Nat /\ p[2] \in Nat
  BY <1>6, <1>7
<1> DEFINE leaves == {y \in UNION {b.leaves : b \in ToSet(file.blocks)} : file.utf8 /\ y.kind \in Identifiers /\ y.name = name}
<1>9. \A p : p \in PlacesIn(file, name) <=> \E x \in leaves : p = x.at
  <2>1. \A x : x \in leaves <=> file.utf8 /\ \E b \in ToSet(file.blocks) : x \in chosen(b)
    OBVIOUS
  <2>2. \A b \in ToSet(file.blocks) : \A x \in chosen(b) : x.at = Place(b, x)
    BY <1>1
  <2> HIDE DEF leaves, chosen
  <2> QED
    BY <1>7, <2>1, <2>2
<1> QED
  BY <1>5, <1>8, <1>9

\* A search of a file finds the places of the name, from the first to the last.
LEMMA FileIsSearched ==
  ASSUME NEW f, NEW name, tree[f].is = "regular" => WellFormed(tree[f]), NEW v, v = SearchFile(f, name)
  PROVE  /\ List(v) /\ ToSet(v) = {[file |-> f, place |-> p] : p \in IF tree[f].is = "regular" THEN PlacesIn(tree[f], name) ELSE {}}
         /\ \A i, j \in 1..Len(v) : i < j => Earlier(v[i].place, v[j].place)
<1>1. CASE tree[f].is # "regular"
  <2>1. v = << >>
    BY <1>1 DEF SearchFile
  <2> QED
    BY <1>1, <2>1, EmptyList
<1>2. CASE tree[f].is = "regular"
  <2> DEFINE S == PlacesIn(tree[f], name)
             K == [p \in S |-> <<p[1], p[2], 0>>]
             places == Ordered(S, Earlier)
             n == Cardinality(S)
  <2>1. IsFiniteSet(S) /\ \A p \in S : p = <<p[1], p[2]>> /\ p[1] \in Nat /\ p[2] \in Nat
    BY <1>2, PlacesArePairs
  <2> HIDE DEF S
  <2>2. \A p \in S : K[p][1] = p[1] /\ K[p][2] = p[2] /\ K[p][3] = 0
    OBVIOUS
  <2> HIDE DEF K
  <2>3. Keyed(S, K)
    <3>1. \A p, q \in S : p[1] = q[1] /\ p[2] = q[2] => p = q
      BY <2>1
    <3>2. \A p \in S : p[1] \in Int /\ p[2] \in Int /\ 0 \in Int
      BY <2>1
    <3> QED
      BY <2>1, <2>2, <3>1, <3>2 DEF Keyed
  <2>4. \A p, q \in S : Lex(K[p], K[q]) <=> Earlier(p, q)
    <3> SUFFICES ASSUME NEW p \in S, NEW q \in S PROVE Lex(K[p], K[q]) <=> Earlier(p, q)
      OBVIOUS
    <3>1. Lex(K[p], K[q]) <=> p[1] < q[1] \/ (p[1] = q[1] /\ (p[2] < q[2] \/ (p[2] = q[2] /\ 0 < 0)))
      BY <2>2 DEF Lex
    <3> QED
      BY <3>1 DEF Earlier
  <2>5. \A q \in S : Behind(S, K)[q] = {p \in S : Earlier(p, q)}
    BY <2>4 DEF Behind
  <2>6. n \in Nat
    BY <2>1, FS_CardinalityType
  <2>7. DOMAIN places = 1..n /\ places = [i \in 1..n |-> places[i]]
    <3> DEFINE at(i) == CHOOSE x \in S : Cardinality({y \in S : Earlier(y, x)}) = i - 1
    <3>1. places = [i \in 1..n |-> at(i)]
      BY DEF Ordered
    <3> HIDE DEF at, places
    <3> QED
      BY <3>1
  <2>8. ASSUME NEW i \in 1..n, \E x \in S : Cardinality({y \in S : Earlier(y, x)}) = i - 1
        PROVE  places[i] \in S /\ Cardinality({y \in S : Earlier(y, places[i])}) = i - 1
    <3>1. places[i] = CHOOSE x \in S : Cardinality({y \in S : Earlier(y, x)}) = i - 1
      BY DEF Ordered
    <3> HIDE DEF places
    <3> QED
      BY <2>8, <3>1
  <2> HIDE DEF places
  <2>9. \A i \in 1..n : (\E x \in S : Cardinality(Behind(S, K)[x]) = i - 1) =>
          places[i] \in S /\ Cardinality(Behind(S, K)[places[i]]) = i - 1
    BY <2>5, <2>8
  <2>10. /\ List(places) /\ Len(places) = n /\ ToSet(places) = S
         /\ \A i, j \in 1..Len(places) : i < j => Lex(K[places[i]], K[places[j]])
    <3>1. Ranked(S, Behind(S, K), places)
      BY <2>7, <2>9 DEF Ranked
    <3> QED
      BY <2>3, <3>1, KeysSort
  <2>11. \A i \in 1..n : places[i] \in S
    BY <2>10, ListIs
  <2>12. v = [i \in DOMAIN places |-> [file |-> f, place |-> places[i]]]
    BY <1>2 DEF SearchFile, S, places
  <2> HIDE DEF n
  <2>13. DOMAIN v = 1..n /\ v = [i \in 1..n |-> v[i]] /\ \A i \in 1..n : v[i] = [file |-> f, place |-> places[i]]
    BY <2>7, <2>12
  <2>14. List(v) /\ Len(v) = n
    BY <2>6, <2>13, ListMade
  <2>15. ToSet(v) = {[file |-> f, place |-> p] : p \in S}
    <3>1. S = {places[i] : i \in 1..n}
      BY <2>7, <2>10 DEF ToSet
    <3>2. ToSet(v) = {[file |-> f, place |-> places[i]] : i \in 1..n}
      BY <2>13 DEF ToSet
    <3> QED
      BY <3>1, <3>2
  <2>16. \A i, j \in 1..n : i < j => Earlier(v[i].place, v[j].place)
    <3> SUFFICES ASSUME NEW i \in 1..n, NEW j \in 1..n, i < j PROVE Earlier(v[i].place, v[j].place)
      OBVIOUS
    <3>1. Lex(K[places[i]], K[places[j]]) /\ places[i] \in S /\ places[j] \in S
      BY <2>10, <2>11
    <3>2. v[i] = [file |-> f, place |-> places[i]] /\ v[j] = [file |-> f, place |-> places[j]]
      BY <2>13
    <3> QED
      BY <2>4, <3>1, <3>2
  <2> QED
    BY <1>2, <2>14, <2>15, <2>16 DEF S
<1> QED
  BY <1>1, <1>2

\* The files of the index that are searched: the one that defines the symbol
\* first, if it is one of them.
LEMMA IndexedFilesAre ==
  ASSUME TreeOK, NEW c, NEW I, I = IndexedFiles(c)
  PROVE  /\ List(I) /\ IsInjective(I) /\ ToSet(I) = {f \in listed : ShouldSearch(f, c.scope)}
         /\ \A i \in 1..Len(I) : I[i] = c.file => i = 1
<1> DEFINE S == {f \in listed : ShouldSearch(f, c.scope)}
           K == [f \in S |-> <<IF f = c.file THEN 0 ELSE 1, PositionIn(ByPath, f), 0>>]
           n == Cardinality(S)
           ahead(a, b) == \/ a = c.file /\ b # c.file
                          \/ b # c.file /\ PositionIn(ByPath, a) < PositionIn(ByPath, b)
<1>1. S \subseteq ToSet(ByPath) /\ List(ByPath) /\ IsFiniteSet(S)
  <2>1. List(ByPath) /\ ToSet(ByPath) = ToSet(ByWalk)
    BY TreesAssumption DEF List
  <2>2. S \subseteq ToSet(ByPath)
    BY <2>1 DEF TreeOK
  <2> HIDE DEF S
  <2> QED
    BY <2>1, <2>2, MembersAreFinite, FS_Subset
<1>2. /\ \A f \in S : PositionIn(ByPath, f) \in Int
      /\ \A f, g \in S : PositionIn(ByPath, f) = PositionIn(ByPath, g) => f = g
  <2>1. Len(ByPath) \in Nat
    BY <1>1, ListIs
  <2> HIDE DEF S
  <2> QED
    BY <1>1, <2>1, PositionIs
<1>3. I = [i \in 1..n |-> CHOOSE x \in S : Cardinality({y \in S : ahead(y, x)}) = i - 1]
  BY DEF IndexedFiles, Ordered
<1> HIDE DEF S
<1>4. \A f \in S : K[f][1] = (IF f = c.file THEN 0 ELSE 1) /\ K[f][2] = PositionIn(ByPath, f) /\ K[f][3] = 0
  OBVIOUS
<1> HIDE DEF K
<1>5. Keyed(S, K)
  BY <1>1, <1>2, <1>4 DEF Keyed
<1>6. \A f, g \in S : Lex(K[f], K[g]) <=> ahead(f, g)
  <2> SUFFICES ASSUME NEW f \in S, NEW g \in S PROVE Lex(K[f], K[g]) <=> ahead(f, g)
    OBVIOUS
  <2> DEFINE a == K[f][1]
             b == K[g][1]
             p == PositionIn(ByPath, f)
             q == PositionIn(ByPath, g)
  <2>1. /\ a = (IF f = c.file THEN 0 ELSE 1) /\ b = (IF g = c.file THEN 0 ELSE 1)
        /\ p \in Int /\ q \in Int /\ (f = g => p = q)
    BY <1>2, <1>4
  <2>2. Lex(K[f], K[g]) <=> a < b \/ (a = b /\ (p < q \/ (p = q /\ 0 < 0)))
    BY <1>4 DEF Lex
  <2>3. ahead(f, g) <=> \/ f = c.file /\ g # c.file
                        \/ g # c.file /\ p < q
    OBVIOUS
  <2> HIDE DEF a, b, p, q
  <2>4. f = c.file /\ g = c.file => f = g
    OBVIOUS
  <2> QED
    BY <2>1, <2>2, <2>3, <2>4
<1>7. \A g \in S : Behind(S, K)[g] = {f \in S : ahead(f, g)}
  BY <1>6 DEF Behind
<1>8. DOMAIN I = 1..n /\ I = [i \in 1..n |-> I[i]]
  <2> DEFINE at(i) == CHOOSE x \in S : Cardinality({y \in S : ahead(y, x)}) = i - 1
  <2>1. I = [i \in 1..n |-> at(i)]
    BY <1>3
  <2> HIDE DEF at
  <2> QED
    BY <2>1
<1> HIDE DEF ahead
<1>9. ASSUME NEW i \in 1..n, \E x \in S : Cardinality({y \in S : ahead(y, x)}) = i - 1
      PROVE  I[i] \in S /\ Cardinality({y \in S : ahead(y, I[i])}) = i - 1
  <2>1. I[i] = CHOOSE x \in S : Cardinality({y \in S : ahead(y, x)}) = i - 1
    BY <1>3
  <2> QED
    BY <1>9, <2>1
<1>10. Ranked(S, Behind(S, K), I)
  BY <1>7, <1>8, <1>9 DEF Ranked
<1>11. /\ List(I) /\ Len(I) = n /\ ToSet(I) = S /\ IsInjective(I)
       /\ \A i, j \in 1..Len(I) : i < j => Lex(K[I[i]], K[I[j]])
  BY <1>5, <1>10, KeysSort
<1>12. ASSUME NEW i \in 1..Len(I), I[i] = c.file, i # 1 PROVE FALSE
  <2>1. Len(I) \in Nat /\ \A j \in 1..Len(I) : I[j] \in S
    BY <1>11, ListIs
  <2>2. 1 \in 1..Len(I) /\ 1 < i
    BY <1>12, <2>1
  <2>3. Lex(K[I[1]], K[I[i]])
    BY <1>11, <2>2
  <2>4. ahead(I[1], I[i])
    BY <1>6, <2>1, <2>2, <2>3
  <2> QED
    BY <1>12, <2>4 DEF ahead
<1> QED
  BY <1>11, <1>12 DEF S

\* Every file has its turn.
Turned(c, f) ==
  IF f \in ToSet(IndexedFiles(c)) THEN PositionIn(IndexedFiles(c), f)
  ELSE Len(IndexedFiles(c)) + PositionIn(ByWalk, f)
UsageKey(c) == [u \in Usages(c) |-> <<Turned(c, u.file), u.place[1], u.place[2]>>]
Searched(c, f) == IF ShouldSearch(f, c.scope) THEN SearchFile(f, c.name) ELSE << >>

\* The turn of a file: its place among those of the index, or a later one by the walk.
LEMMA TurnsAre ==
  ASSUME TreeOK, NEW c
  PROVE  LET n == Len(IndexedFiles(c))
         IN /\ \A f \in DOMAIN tree :
                 IF f \in ToSet(IndexedFiles(c)) THEN Turned(c, f) \in 1..n ELSE Turned(c, f) \in (n + 1)..(n + Len(ByWalk))
            /\ \A f, g \in DOMAIN tree : Turned(c, f) = Turned(c, g) => f = g
<1> DEFINE I == IndexedFiles(c)
           n == Len(I)
<1>1. List(I) /\ List(ByWalk) /\ ToSet(ByWalk) = DOMAIN tree
  BY IndexedFilesAre, TreesAssumption DEF List, TreeOK
<1>2. n \in Nat /\ Len(ByWalk) \in Nat
  BY <1>1, ListIs
<1>3. /\ \A f \in ToSet(I) : PositionIn(I, f) \in 1..n
      /\ \A f, g \in ToSet(I) : PositionIn(I, f) = PositionIn(I, g) => f = g
  BY <1>1, PositionIs
<1>4. /\ \A f \in DOMAIN tree : PositionIn(ByWalk, f) \in 1..Len(ByWalk)
      /\ \A f, g \in DOMAIN tree : PositionIn(ByWalk, f) = PositionIn(ByWalk, g) => f = g
  BY <1>1, PositionIs
<1>5. \A f : Turned(c, f) = IF f \in ToSet(I) THEN PositionIn(I, f) ELSE n + PositionIn(ByWalk, f)
  BY DEF Turned
<1> HIDE DEF I, n
<1>6. \A f \in DOMAIN tree :
        IF f \in ToSet(I) THEN Turned(c, f) \in 1..n ELSE Turned(c, f) \in (n + 1)..(n + Len(ByWalk))
  BY <1>2, <1>3, <1>4, <1>5
<1>7. ASSUME NEW f \in DOMAIN tree, NEW g \in DOMAIN tree, Turned(c, f) = Turned(c, g) PROVE f = g
  <2>1. f \in ToSet(I) <=> g \in ToSet(I)
    BY <1>2, <1>6, <1>7
  <2>2. CASE f \in ToSet(I)
    BY <1>3, <1>5, <1>7, <2>1, <2>2
  <2>3. CASE f \notin ToSet(I)
    <3>1. PositionIn(ByWalk, f) = PositionIn(ByWalk, g)
      BY <1>2, <1>4, <1>5, <1>7, <2>1, <2>3
    <3> QED
      BY <1>4, <3>1
  <2> QED
    BY <2>2, <2>3
<1> QED
  BY <1>6, <1>7 DEF I, n

\* What a usage is: of a regular file of the scope, at a place of the name.
LEMMA UsagesAre ==
  ASSUME TreeOK, NEW c, NEW u
  PROVE  u \in Usages(c) <=>
           \E f \in DOMAIN tree : /\ tree[f].is = "regular" /\ ShouldSearch(f, c.scope)
                                  /\ \E p \in PlacesIn(tree[f], c.name) : u = [file |-> f, place |-> p]
<1> DEFINE chosen(f) == {x \in LeavesOf(f) : tree[f].utf8 /\ x.kind \in Identifiers /\ x.name = c.name}
           files == {x \in DOMAIN tree : tree[x].is = "regular" /\ ShouldSearch(x, c.scope)}
           held(f) == {x \in LeavesOf(f) : x.kind \in Identifiers /\ x.name = c.name}
<1>1. u \in Usages(c) <=> \E f \in files : \E x \in chosen(f) : u = [file |-> f, place |-> x.at]
  <2>1. u \in Usages(c) <=> \E f \in {x \in files : tree[x].utf8} : \E x \in held(f) : u = [file |-> f, place |-> x.at]
    BY DEF Usages
  <2>2. \A f, x : x \in chosen(f) <=> tree[f].utf8 /\ x \in held(f)
    OBVIOUS
  <2> HIDE DEF chosen, held
  <2> QED
    BY <2>1, <2>2
<1>2. ASSUME NEW f \in DOMAIN tree PROVE PlacesIn(tree[f], c.name) = {x.at : x \in chosen(f)}
  BY PlacesArePairs DEF LeavesOf, TreeOK
<1>3. \A f \in DOMAIN tree : (\E x \in chosen(f) : u = [file |-> f, place |-> x.at])
                               <=> \E p \in PlacesIn(tree[f], c.name) : u = [file |-> f, place |-> p]
  <2> HIDE DEF chosen
  <2> QED
    BY <1>2
<1> HIDE DEF chosen
<1> QED
  BY <1>1, <1>3

\* What is found in a file, by file, scope and name.
LEMMA SearchedIs ==
  ASSUME TreeOK, NEW c, NEW f \in DOMAIN tree, NEW v, v = Searched(c, f)
  PROVE  /\ List(v) /\ ToSet(v) = {u \in Usages(c) : u.file = f}
         /\ \A i, j \in 1..Len(v) : i < j => Earlier(v[i].place, v[j].place)
<1>1. WellFormed(tree[f])
  BY DEF TreeOK
<1>2. \A u : u \in Usages(c) /\ u.file = f <=>
         /\ tree[f].is = "regular" /\ ShouldSearch(f, c.scope)
         /\ \E p \in PlacesIn(tree[f], c.name) : u = [file |-> f, place |-> p]
  BY UsagesAre
<1>3. CASE ShouldSearch(f, c.scope)
  <2>1. v = SearchFile(f, c.name)
    BY <1>3 DEF Searched
  <2>2. /\ List(v)
        /\ ToSet(v) = {[file |-> f, place |-> p] : p \in IF tree[f].is = "regular" THEN PlacesIn(tree[f], c.name) ELSE {}}
        /\ \A i, j \in 1..Len(v) : i < j => Earlier(v[i].place, v[j].place)
    BY <1>1, <2>1, FileIsSearched
  <2>3. \A u : u \in ToSet(v) <=> u \in Usages(c) /\ u.file = f
    BY <1>2, <1>3, <2>2
  <2> QED
    BY <2>2, <2>3
<1>4. CASE ~ShouldSearch(f, c.scope)
  <2>1. v = << >>
    BY <1>4 DEF Searched
  <2> QED
    BY <1>2, <1>4, <2>1, EmptyList
<1> QED
  BY <1>3, <1>4

\* The usages of a name are finitely many,
LEMMA UsagesAreFinite ==
  ASSUME TreeOK, NEW c
  PROVE  IsFiniteSet(Usages(c))
<1> DEFINE found(f) == ToSet(Searched(c, f))
           of == [f \in DOMAIN tree |-> found(f)]
           all == {of[f] : f \in DOMAIN tree}
<1>1. \A f \in DOMAIN tree : of[f] = {u \in Usages(c) : u.file = f} /\ IsFiniteSet(of[f])
  <2> SUFFICES ASSUME NEW f \in DOMAIN tree PROVE of[f] = {u \in Usages(c) : u.file = f} /\ IsFiniteSet(of[f])
    OBVIOUS
  <2>1. List(Searched(c, f)) /\ found(f) = {u \in Usages(c) : u.file = f}
    BY SearchedIs
  <2>2. IsFiniteSet(found(f))
    BY <2>1, MembersAreFinite
  <2> QED
    BY <2>1, <2>2
<1>2. IsFiniteSet(DOMAIN tree)
  BY TreesAssumption, MembersAreFinite DEF TreeOK, List
<1>3. DOMAIN of = DOMAIN tree
  OBVIOUS
<1> HIDE DEF of
<1>4. IsFiniteSet(all)
  BY <1>2, <1>3, ImageIsFinite
<1>5. \A T \in all : IsFiniteSet(T)
  BY <1>1
<1>6. IsFiniteSet(UNION all)
  <2> HIDE DEF all
  <2> QED
    BY <1>4, <1>5, FS_UNION
<1>7. \A u \in Usages(c) : u.file \in DOMAIN tree
  BY UsagesAre
<1>8. Usages(c) \subseteq UNION all
  BY <1>1, <1>7
<1> QED
  BY <1>6, <1>8, FS_Subset

\* and their keys tell them apart.
LEMMA UsagesKeyed ==
  ASSUME TreeOK, NEW c
  PROVE  /\ Keyed(Usages(c), UsageKey(c))
         /\ \A u \in Usages(c) : UsageKey(c)[u][1] = Turned(c, u.file) /\ u.file \in DOMAIN tree
<1> DEFINE K == UsageKey(c)
<1>1. \A u \in Usages(c) : K[u][1] = Turned(c, u.file) /\ K[u][2] = u.place[1] /\ K[u][3] = u.place[2]
  BY DEF UsageKey
<1>2. ASSUME NEW u \in Usages(c)
      PROVE  /\ u.file \in DOMAIN tree /\ u = [file |-> u.file, place |-> u.place]
             /\ u.place = <<u.place[1], u.place[2]>> /\ u.place[1] \in Nat /\ u.place[2] \in Nat
  <2>1. PICK f \in DOMAIN tree : \E p \in PlacesIn(tree[f], c.name) : u = [file |-> f, place |-> p]
    BY UsagesAre
  <2>2. PICK p \in PlacesIn(tree[f], c.name) : u = [file |-> f, place |-> p]
    BY <2>1
  <2>3. p = <<p[1], p[2]>> /\ p[1] \in Nat /\ p[2] \in Nat
    BY PlacesArePairs DEF TreeOK
  <2> QED
    BY <2>2, <2>3
<1>3. \A f \in DOMAIN tree : Turned(c, f) \in Int
  <2>1. Len(IndexedFiles(c)) \in Nat /\ Len(ByWalk) \in Nat
    BY IndexedFilesAre, TreesAssumption, ListIs DEF List
  <2> QED
    BY <2>1, TurnsAre
<1> HIDE DEF K
<1>4. ASSUME NEW u \in Usages(c), NEW w \in Usages(c), K[u][1] = K[w][1], K[u][2] = K[w][2], K[u][3] = K[w][3]
      PROVE  u = w
  <2>1. u.file = w.file
    <3>1. \A f, g \in DOMAIN tree : Turned(c, f) = Turned(c, g) => f = g
      BY TurnsAre
    <3> QED
      BY <1>1, <1>2, <1>4, <3>1
  <2>2. u.place = w.place
    BY <1>1, <1>2, <1>4
  <2> QED
    BY <1>2, <2>1, <2>2
<1>5. Keyed(Usages(c), K)
  BY <1>1, <1>2, <1>3, <1>4, UsagesAreFinite DEF Keyed
<1> QED
  BY <1>1, <1>2, <1>5 DEF K

\* While no file changes nothing of this does.
LEMMA SameUsages ==
  ASSUME UNCHANGED <<tree, listed>>
  PROVE  /\ TreeOK' = TreeOK
         /\ \A c : /\ Usages(c)' = Usages(c) /\ IndexedFiles(c)' = IndexedFiles(c)
                   /\ UsageKey(c)' = UsageKey(c)
         /\ \A c, f : Searched(c, f)' = Searched(c, f) /\ SearchFile(f, c)' = SearchFile(f, c) /\ Turned(c, f)' = Turned(c, f)
<1>1. TreeOK' = TreeOK
  BY DEF TreeOK
<1>2. \A f, scope : ShouldSearch(f, scope)' = ShouldSearch(f, scope)
  BY DEF ShouldSearch
<1>3. \A c : Usages(c)' = Usages(c)
  BY <1>2 DEF Usages, LeavesOf
<1>4. \A c : IndexedFiles(c)' = IndexedFiles(c)
  BY DEF IndexedFiles, Ordered, ShouldSearch
<1>5. \A c, f : SearchFile(f, c)' = SearchFile(f, c)
  BY DEF SearchFile
<1>6. \A c, f : Searched(c, f)' = Searched(c, f)
  BY <1>2, <1>5 DEF Searched
<1>7. \A c, f : Turned(c, f)' = Turned(c, f)
  BY <1>4 DEF Turned
<1>8. \A c : UsageKey(c)' = UsageKey(c)
  BY <1>3, <1>7 DEF UsageKey
<1> QED
  BY <1>1, <1>3, <1>4, <1>5, <1>6, <1>7, <1>8

\* Nor does it when the same is asked.
LEMMA SameQuestion ==
  ASSUME NEW c, NEW d, d.scope = c.scope, d.name = c.name, d.file = c.file
  PROVE  /\ Usages(d) = Usages(c) /\ IndexedFiles(d) = IndexedFiles(c) /\ UsageKey(d) = UsageKey(c)
         /\ \A f : Searched(d, f) = Searched(c, f)
<1>1. Usages(d) = Usages(c)
  BY DEF Usages
<1>2. IndexedFiles(d) = IndexedFiles(c)
  BY DEF IndexedFiles, Ordered
<1>3. \A f : Turned(d, f) = Turned(c, f)
  BY <1>2 DEF Turned
<1>4. UsageKey(d) = UsageKey(c)
  BY <1>1, <1>3 DEF UsageKey
<1> QED
  BY <1>1, <1>2, <1>4 DEF Searched

\* What is left of a list.
LEMMA TailOfList ==
  ASSUME NEW s, List(s), s # << >>
  PROVE  /\ List(Tail(s)) /\ Len(s) >= 1 /\ Len(Tail(s)) = Len(s) - 1 /\ Head(s) = s[1]
         /\ \A i \in 1..(Len(s) - 1) : Tail(s)[i] = s[i + 1]
         /\ ToSet(s) = {Head(s)} \cup ToSet(Tail(s))
         /\ IsInjective(s) => IsInjective(Tail(s)) /\ Head(s) \notin ToSet(Tail(s))
<1>1. s \in Seq(ToSet(s)) /\ Len(s) \in Nat /\ DOMAIN s = 1..Len(s)
  BY ListIs
<1>2. /\ Tail(s) \in Seq(ToSet(s)) /\ Len(Tail(s)) = Len(s) - 1 /\ Head(s) = s[1] /\ Len(s) >= 1
      /\ \A i \in 1..(Len(s) - 1) : Tail(s)[i] = s[i + 1]
  <2>1. Len(s) # 0
    BY <1>1, EmptySeq
  <2>2. Head(s) = s[1]
    OBVIOUS
  <2> QED
    BY <1>1, <2>1, <2>2, HeadTailProperties
<1>3. List(Tail(s)) /\ DOMAIN Tail(s) = 1..(Len(s) - 1)
  BY <1>2, ListOf
<1> DEFINE n == Len(s)
           t == Tail(s)
<1> HIDE DEF n, t
<1>4. /\ n \in Nat /\ n >= 1 /\ DOMAIN s = 1..n /\ DOMAIN t = 1..(n - 1) /\ \A i \in 1..(n - 1) : t[i] = s[i + 1]
  BY <1>1, <1>2, <1>3 DEF n, t
<1>5. ToSet(s) = {s[1]} \cup ToSet(t)
  <2>1. ToSet(s) = {s[i] : i \in 1..n} /\ ToSet(t) = {t[i] : i \in 1..(n - 1)}
    BY <1>4 DEF ToSet
  <2>2. ToSet(t) = {s[i + 1] : i \in 1..(n - 1)}
    BY <1>4, <2>1
  <2>3. \A i \in 1..n : i = 1 \/ (i - 1 \in 1..(n - 1) /\ (i - 1) + 1 = i)
    BY <1>4
  <2>4. 1 \in 1..n /\ \A i \in 1..(n - 1) : i + 1 \in 1..n
    BY <1>4
  <2> QED
    BY <2>1, <2>2, <2>3, <2>4
<1>6. ASSUME IsInjective(s) PROVE IsInjective(t) /\ s[1] \notin ToSet(t)
  <2>1. \A i \in 1..(n - 1) : i + 1 \in 1..n /\ i + 1 # 1
    BY <1>4
  <2>2. \A i, j \in 1..(n - 1) : t[i] = t[j] => i = j
    <3> SUFFICES ASSUME NEW i \in 1..(n - 1), NEW j \in 1..(n - 1), t[i] = t[j] PROVE i = j
      OBVIOUS
    <3>1. i + 1 = j + 1
      BY <1>4, <1>6, <2>1 DEF IsInjective
    <3> QED
      BY <3>1
  <2>3. \A i \in 1..(n - 1) : t[i] # s[1]
    <3>1. 1 \in 1..n
      BY <1>4
    <3> QED
      BY <1>4, <1>6, <2>1, <3>1 DEF IsInjective
  <2> QED
    BY <1>4, <2>2, <2>3 DEF IsInjective, ToSet
<1> QED
  BY <1>2, <1>3, <1>5, <1>6 DEF t

\* What is left of it after some.
LEMMA RestOfList ==
  ASSUME NEW list, List(list), NEW k \in 0..Len(list), NEW rest, rest = SubSeq(list, k + 1, Len(list))
  PROVE  /\ List(rest) /\ (rest = << >> => k = Len(list))
         /\ rest # << >> => /\ k + 1 \in 1..Len(list) /\ Head(rest) = list[k + 1]
                            /\ Tail(rest) = SubSeq(list, k + 2, Len(list))
<1> DEFINE n == Len(list)
<1>1. n \in Nat /\ k \in Nat /\ k <= n
  BY ListIs
<1>2. List(rest) /\ Len(rest) = n - k /\ \A i \in 1..(n - k) : rest[i] = list[k + i]
  <2>1. n <= Len(list)
    BY <1>1
  <2>2. List(SubSeq(list, k + 1, n)) /\ Len(SubSeq(list, k + 1, n)) = (IF k <= n THEN n - k ELSE 0)
        /\ \A i \in 1..(n - k) : SubSeq(list, k + 1, n)[i] = list[k + i]
    <3> HIDE DEF n
    <3> QED
      BY <1>1, <2>1, PartOfList
  <2> QED
    BY <1>1, <2>2
<1> HIDE DEF n
<1>3. rest = << >> => k = n
  <2>1. rest = << >> => Len(rest) = 0
    BY EmptyList
  <2> QED
    BY <1>1, <1>2, <2>1
<1>4. ASSUME rest # << >> PROVE k + 1 \in 1..n /\ Head(rest) = list[k + 1] /\ Tail(rest) = SubSeq(list, k + 2, n)
  <2>1. /\ List(Tail(rest)) /\ Len(rest) >= 1 /\ Len(Tail(rest)) = Len(rest) - 1 /\ Head(rest) = rest[1]
        /\ \A i \in 1..(Len(rest) - 1) : Tail(rest)[i] = rest[i + 1]
    <3>1. List(rest) /\ rest # << >>
      BY <1>2, <1>4
    <3> QED
      BY ONLY <3>1, TailOfList
  <2>2. k + 1 \in Nat /\ k + 1 \in 1..n /\ k + 1 <= n
    BY <1>1, <1>2, <2>1
  <2>3. /\ List(SubSeq(list, (k + 1) + 1, n)) /\ Len(SubSeq(list, (k + 1) + 1, n)) = n - (k + 1)
        /\ \A i \in 1..(n - (k + 1)) : SubSeq(list, (k + 1) + 1, n)[i] = list[(k + 1) + i]
    <3>1. n <= Len(list)
      BY <1>1 DEF n
    <3> DEFINE m == k + 1
    <3>2. List(list) /\ m \in Nat /\ n \in Nat /\ n <= Len(list) /\ m <= n
      BY <1>1, <2>2, <3>1
    <3> HIDE DEF m, n
    <3>3. /\ List(SubSeq(list, m + 1, n)) /\ Len(SubSeq(list, m + 1, n)) = (IF m <= n THEN n - m ELSE 0)
          /\ \A i \in 1..(n - m) : SubSeq(list, m + 1, n)[i] = list[m + i]
      BY ONLY <3>2, PartOfList
    <3> QED
      BY <3>2, <3>3 DEF m
  <2>4. (k + 1) + 1 = k + 2
    BY <1>1
  <2>5. \A i \in 1..Len(Tail(rest)) : Tail(rest)[i] = SubSeq(list, k + 2, n)[i]
    <3> SUFFICES ASSUME NEW i \in 1..Len(Tail(rest)) PROVE Tail(rest)[i] = SubSeq(list, k + 2, n)[i]
      OBVIOUS
    <3>1. i \in 1..(Len(rest) - 1) /\ i + 1 \in 1..(n - k) /\ i \in 1..(n - (k + 1)) /\ k + (i + 1) = (k + 1) + i
      BY <1>1, <1>2, <2>1
    <3>2. Tail(rest)[i] = list[k + (i + 1)]
      BY <1>2, <2>1, <3>1
    <3>3. SubSeq(list, k + 2, n)[i] = list[(k + 1) + i]
      BY <2>3, <2>4, <3>1
    <3> QED
      BY <3>1, <3>2, <3>3
  <2>6. Tail(rest) = SubSeq(list, k + 2, n)
    <3>1. Len(Tail(rest)) = Len(SubSeq(list, k + 2, n)) /\ List(SubSeq(list, k + 2, n))
      BY <1>1, <1>2, <2>1, <2>3, <2>4
    <3> QED
      BY <2>1, <2>5, <3>1, SameList
  <2>7. Head(rest) = list[k + 1]
    <3>1. 1 \in 1..(n - k)
      BY <1>1, <1>2, <2>1
    <3> QED
      BY <1>2, <2>1, <3>1
  <2> QED
    BY <2>2, <2>6, <2>7
<1> QED
  BY <1>2, <1>3, <1>4 DEF n

-----------------------------------------------------------------------------
(* A cursor, whatever is asked: what was told so far is a list of pages, no *)
(* page with anything twice.                                               *)
Asking == Fields \cup {"tool", "limit", "edited"}
Naming == Asking \cup {"id", "name", "file", "scope"}
ToldOK(c) ==
  /\ c.limit \in Nat /\ c.offset \in Nat /\ c.edited \in BOOLEAN
  /\ Lists(c.told) /\ \A i \in 1..Len(c.told) : IsInjective(c.told[i])

\* A turn tells one more.
LEMMA TurnIsOK ==
  ASSUME NEW c, Asking \subseteq DOMAIN c, ToldOK(c), NEW page, List(page), IsInjective(page),
         NEW more \in BOOLEAN, NEW d, d = Turn(c, page, more)
  PROVE  /\ DOMAIN d = DOMAIN c /\ ToldOK(d)
         /\ d.pc = (IF more THEN "more" ELSE "done")
         /\ d.told = Append(c.told, page) /\ d.offset = (IF more THEN c.offset + c.limit ELSE c.offset)
         /\ d.usages = << >> /\ d.todo = << >> /\ d.searched = {}
         /\ \A x \in DOMAIN c \ Fields : d[x] = c[x]
         /\ d.limit = c.limit /\ d.edited = c.edited /\ d.tool = c.tool
<1>1. Fields \subseteq DOMAIN c /\ \A x \in {"tool", "limit", "edited"} : x \in DOMAIN c \ Fields
  BY DEF Asking, Fields
<1>2. /\ DOMAIN d = DOMAIN c /\ d.pc = (IF more THEN "more" ELSE "done")
      /\ d.told = Append(c.told, page) /\ d.offset = (IF more THEN c.offset + c.limit ELSE c.offset)
      /\ d.usages = << >> /\ d.todo = << >> /\ d.searched = {}
      /\ \A x \in DOMAIN c \ Fields : d[x] = c[x]
  BY <1>1, TurnIs
<1>3. d.limit = c.limit /\ d.edited = c.edited /\ d.tool = c.tool
  BY <1>1, <1>2
<1>4. Lists(c.told) /\ List(c.told) /\ Len(c.told) \in Nat /\ \A i \in 1..Len(c.told) : IsInjective(c.told[i])
  BY ListIs DEF ToldOK, Lists
<1>5. /\ Lists(d.told) /\ Len(d.told) = Len(c.told) + 1
      /\ \A i \in 1..Len(c.told) : d.told[i] = c.told[i]
      /\ d.told[Len(c.told) + 1] = page
  <2>1. Lists(Append(c.told, page))
    BY <1>4, FlattenMore
  <2>2. /\ Len(Append(c.told, page)) = Len(c.told) + 1
        /\ \A i \in 1..Len(c.told) : Append(c.told, page)[i] = c.told[i]
        /\ Append(c.told, page)[Len(c.told) + 1] = page
    BY <1>4, LongerList
  <2> QED
    BY <1>2, <2>1, <2>2
<1>6. \A i \in 1..Len(d.told) : i \in 1..Len(c.told) \/ i = Len(c.told) + 1
  BY <1>4, <1>5
<1>7. \A i \in 1..Len(d.told) : IsInjective(d.told[i])
  BY <1>4, <1>5, <1>6
<1>8. d.offset \in Nat /\ d.limit \in Nat /\ d.edited \in BOOLEAN
  BY <1>2, <1>3 DEF ToldOK
<1> QED
  BY <1>2, <1>3, <1>5, <1>7, <1>8 DEF ToldOK

-----------------------------------------------------------------------------
(* The usages told of a name: while files change none is told twice, and   *)
(* while none does they are gathered in the order of their keys.           *)
Uses(c) == Behind(Usages(c), UsageKey(c))
UsagesApart(c) ==
  /\ c.pc \in {"asked", "more", "indexed", "walk", "done"}
  /\ c.pc \in {"asked", "more"} => c.usages = << >> /\ c.searched = {}
  /\ c.pc \in {"indexed", "walk"} =>
       /\ List(c.usages) /\ IsInjective(c.usages)
       /\ List(c.todo) /\ IsInjective(c.todo) /\ ToSet(c.todo) \subseteq ToSet(ByWalk)
  /\ c.pc = "indexed" =>
       c.searched \cap ToSet(c.todo) = {} /\ \A u \in ToSet(c.usages) : u.file \in c.searched
  /\ c.pc = "walk" => \A u \in ToSet(c.usages) : u.file \in c.searched \/ u.file \notin ToSet(c.todo)
UsagesFound(c) ==
  \E all :
    /\ Sorted(Usages(c), Uses(c), all)
    /\ IF c.pc = "done" THEN FlattenSeq(c.told) = all ELSE Paged(c, all)
    /\ c.pc = "indexed" => \E k \in 0..Len(IndexedFiles(c)) :
         /\ c.todo = SubSeq(IndexedFiles(c), k + 1, Len(IndexedFiles(c)))
         /\ c.searched = ToSet(SubSeq(IndexedFiles(c), 1, k))
         /\ Gathered(Usages(c), UsageKey(c), c.usages, k + 1)
    /\ c.pc = "walk" => \E k \in 0..Len(ByWalk) :
         /\ c.todo = SubSeq(ByWalk, k + 1, Len(ByWalk))
         /\ c.searched = ToSet(IndexedFiles(c))
         /\ Gathered(Usages(c), UsageKey(c), c.usages, Len(IndexedFiles(c)) + k + 1)
UsagesOK(c) ==
  Naming \subseteq DOMAIN c /\ ToldOK(c) /\ UsagesApart(c) /\ (~c.edited => UsagesFound(c))

\* What a change of some fields leaves.
LEMMA NamingIs ==
  ASSUME NEW c, UsagesOK(c)
  PROVE  /\ Asking \subseteq DOMAIN c /\ Fields \subseteq DOMAIN c
         /\ \A x \in {"tool", "limit", "edited", "id", "name", "file", "scope"} : x \in DOMAIN c \ Fields
         /\ c.limit \in Nat /\ c.offset \in Nat
BY DEF UsagesOK, Naming, Asking, Fields, ToldOK

\* While no file changes, a search for usages is as it was.
LEMMA SameFound ==
  ASSUME UNCHANGED <<tree, listed>>
  PROVE  \A c : UsagesOK(c)' = UsagesOK(c)
<1>1. \A c : Uses(c)' = Uses(c) /\ Usages(c)' = Usages(c) /\ IndexedFiles(c)' = IndexedFiles(c)
             /\ UsageKey(c)' = UsageKey(c)
  BY SameUsages DEF Uses
<1>2. \A c : UsagesFound(c)' = UsagesFound(c)
  BY <1>1 DEF UsagesFound
<1> QED
  BY <1>2 DEF UsagesOK

\* A call begins with the files of the index.
LEMMA UsagesAsked ==
  ASSUME TreeOK, NEW c, UsagesOK(c), c.pc \in {"asked", "more"},
         NEW d, d = [c EXCEPT !.pc = "indexed", !.todo = IndexedFiles(c)]
  PROVE  UsagesOK(d)
<1> DEFINE I == IndexedFiles(c)
<1>1. /\ DOMAIN d = DOMAIN c /\ d.pc = "indexed" /\ d.todo = I /\ d.told = c.told /\ d.offset = c.offset
      /\ d.usages = << >> /\ d.searched = {} /\ d.limit = c.limit /\ d.edited = c.edited
      /\ d.name = c.name /\ d.file = c.file /\ d.scope = c.scope
  BY NamingIs DEF UsagesOK, UsagesApart, Fields
<1>2. List(I) /\ IsInjective(I) /\ ToSet(I) = {f \in listed : ShouldSearch(f, c.scope)}
  BY IndexedFilesAre
<1>3. /\ Usages(d) = Usages(c) /\ IndexedFiles(d) = I /\ UsageKey(d) = UsageKey(c) /\ Uses(d) = Uses(c)
  BY <1>1, SameQuestion DEF Uses
<1>4. ToldOK(d)
  BY <1>1 DEF UsagesOK, ToldOK
<1>5. ToSet(I) \subseteq ToSet(ByWalk)
  BY <1>2 DEF TreeOK
<1> HIDE DEF I
<1>6. UsagesApart(d)
  <2>1. IsInjective(<< >>)
    BY EmptyList DEF IsInjective
  <2> QED
    BY <1>1, <1>2, <1>5, <2>1, EmptyList DEF UsagesApart
<1>7. ASSUME ~c.edited PROVE UsagesFound(d)
  <2>1. PICK all : Sorted(Usages(c), Uses(c), all) /\ Paged(c, all)
    BY <1>7 DEF UsagesOK, UsagesFound
  <2>2. Len(I) \in Nat /\ I \in Seq(ToSet(I))
    BY <1>2, ListIs
  <2>3. 0 \in 0..Len(I) /\ SubSeq(I, 0 + 1, Len(I)) = I /\ ToSet(SubSeq(I, 1, 0)) = {}
    <3>1. ToSet(SubSeq(I, 1, 0)) = {}
      <4>1. 0 \in Nat /\ 0 <= Len(I)
        BY <2>2
      <4>2. DOMAIN SubSeq(I, 1, 0) = 1..0
        BY <1>2, <4>1, StartOfList
      <4> QED
        BY <4>2 DEF ToSet
    <3> QED
      BY <2>2, <3>1, SubSeqFull
  <2>4. \A u \in Usages(c) : ~(UsageKey(c)[u][1] < 1)
    <3> SUFFICES ASSUME NEW u \in Usages(c) PROVE ~(UsageKey(c)[u][1] < 1)
      OBVIOUS
    <3>1. UsageKey(c)[u][1] = Turned(c, u.file) /\ u.file \in DOMAIN tree
      BY UsagesKeyed
    <3>2. Len(ByWalk) \in Nat
      BY TreesAssumption, ListIs DEF List
    <3>3. Turned(c, u.file) \in 1..Len(I) \/ Turned(c, u.file) \in (Len(I) + 1)..(Len(I) + Len(ByWalk))
      BY <3>1, TurnsAre DEF I
    <3> QED
      BY <2>2, <3>1, <3>2, <3>3
  <2>5. Gathered(Usages(c), UsageKey(c), << >>, 0 + 1)
    BY <2>4, GatheredNothing
  <2>6. Paged(d, all)
    BY <1>1, <2>1 DEF Paged
  <2> QED
    BY <1>1, <1>3, <2>1, <2>3, <2>5, <2>6 DEF UsagesFound
<1> QED
  BY <1>1, <1>4, <1>6, <1>7 DEF UsagesOK

\* What is found in a file is there once, and more of another is not there yet.
LEMMA FoundApart ==
  ASSUME NEW f, NEW name, WellFormed(tree[f])
  PROVE  /\ List(SearchFile(f, name)) /\ IsInjective(SearchFile(f, name))
         /\ \A u \in ToSet(SearchFile(f, name)) : u.file = f
<1> DEFINE v == SearchFile(f, name)
<1>1. /\ List(v) /\ ToSet(v) = {[file |-> f, place |-> p] : p \in IF tree[f].is = "regular" THEN PlacesIn(tree[f], name) ELSE {}}
      /\ \A i, j \in 1..Len(v) : i < j => Earlier(v[i].place, v[j].place)
  BY FileIsSearched
<1>2. \A p \in PlacesIn(tree[f], name) : p = <<p[1], p[2]>> /\ p[1] \in Nat /\ p[2] \in Nat
  BY PlacesArePairs
<1> HIDE DEF v
<1>3. Len(v) \in Nat /\ DOMAIN v = 1..Len(v) /\ \A i \in 1..Len(v) : v[i] \in ToSet(v)
  BY <1>1, ListIs
<1>4. \A u \in ToSet(v) : u.file = f /\ u.place[1] \in Nat /\ u.place[2] \in Nat
  BY <1>1, <1>2
<1>5. ASSUME NEW i \in 1..Len(v), NEW j \in 1..Len(v), i < j PROVE v[i] # v[j]
  <2>1. Earlier(v[i].place, v[j].place) /\ v[i].place[1] \in Nat /\ v[i].place[2] \in Nat
    BY <1>1, <1>3, <1>4, <1>5
  <2> QED
    BY <2>1 DEF Earlier
<1>6. IsInjective(v)
  <2>1. \A i, j \in 1..Len(v) : i = j \/ i < j \/ j < i
    BY <1>3
  <2> QED
    BY <1>3, <1>5, <2>1 DEF IsInjective
<1> QED
  BY <1>1, <1>4, <1>6 DEF v

\* Two lists with nothing in common, joined.
LEMMA ApartMore ==
  ASSUME NEW s, List(s), IsInjective(s), NEW v, List(v), IsInjective(v), ToSet(s) \cap ToSet(v) = {}
  PROVE  List(s \o v) /\ IsInjective(s \o v) /\ ToSet(s \o v) = ToSet(s) \cup ToSet(v)
<1> DEFINE m == Len(s)
           n == Len(v)
           w == s \o v
<1>1. /\ m \in Nat /\ n \in Nat /\ DOMAIN s = 1..m /\ DOMAIN v = 1..n
      /\ \A i \in 1..m : s[i] \in ToSet(s)
      /\ \A i \in 1..n : v[i] \in ToSet(v)
  BY ListIs
<1>2. /\ List(w) /\ DOMAIN w = 1..(m + n) /\ ToSet(w) = ToSet(s) \cup ToSet(v)
      /\ \A i \in 1..m : w[i] = s[i]
      /\ \A i \in 1..n : w[m + i] = v[i]
  BY JoinedList
<1> HIDE DEF m, n, w
<1>3. \A i \in 1..(m + n) : i \in 1..m \/ (i - m \in 1..n /\ m + (i - m) = i)
  BY <1>1
<1>4. ASSUME NEW i \in 1..(m + n), NEW j \in 1..(m + n), w[i] = w[j] PROVE i = j
  <2>1. CASE i \in 1..m /\ j \in 1..m
    BY <1>1, <1>2, <1>4, <2>1 DEF IsInjective
  <2>2. CASE i - m \in 1..n /\ j - m \in 1..n
    <3>0. m + (i - m) = i /\ m + (j - m) = j
      BY <1>1
    <3>1. v[i - m] = v[j - m]
      BY <1>2, <1>4, <2>2, <3>0
    <3>2. i - m = j - m
      BY <1>1, <2>2, <3>1 DEF IsInjective
    <3> QED
      BY <1>1, <3>2
  <2>3. CASE i \in 1..m /\ j - m \in 1..n /\ m + (j - m) = j
    <3>1. w[i] \in ToSet(s) /\ w[j] \in ToSet(v)
      BY <1>1, <1>2, <2>3
    <3> QED
      BY <1>4, <3>1
  <2>4. CASE j \in 1..m /\ i - m \in 1..n /\ m + (i - m) = i
    <3>1. w[j] \in ToSet(s) /\ w[i] \in ToSet(v)
      BY <1>1, <1>2, <2>4
    <3> QED
      BY <1>4, <3>1
  <2> QED
    BY <1>3, <2>1, <2>2, <2>3, <2>4
<1>5. IsInjective(w)
  BY <1>2, <1>4 DEF IsInjective
<1> QED
  BY <1>2, <1>5 DEF w

\* And in the order of the keys.
LEMMA FoundInOrder ==
  ASSUME TreeOK, NEW c, NEW f \in DOMAIN tree, NEW v, v = Searched(c, f)
  PROVE  \A i, j \in 1..Len(v) : i < j => Lex(UsageKey(c)[v[i]], UsageKey(c)[v[j]])
<1>1. /\ List(v) /\ ToSet(v) = {u \in Usages(c) : u.file = f}
      /\ \A i, j \in 1..Len(v) : i < j => Earlier(v[i].place, v[j].place)
  BY SearchedIs
<1>2. \A i \in 1..Len(v) : v[i] \in Usages(c) /\ v[i].file = f
  BY <1>1, ListIs
<1>3. \A u \in Usages(c) : /\ UsageKey(c)[u][1] = Turned(c, u.file)
                           /\ UsageKey(c)[u][2] = u.place[1] /\ UsageKey(c)[u][3] = u.place[2]
  BY DEF UsageKey
<1> SUFFICES ASSUME NEW i \in 1..Len(v), NEW j \in 1..Len(v), i < j PROVE Lex(UsageKey(c)[v[i]], UsageKey(c)[v[j]])
  OBVIOUS
<1>4. Earlier(v[i].place, v[j].place) /\ UsageKey(c)[v[i]][1] = UsageKey(c)[v[j]][1]
  BY <1>1, <1>2, <1>3
<1>5. /\ UsageKey(c)[v[i]][2] = v[i].place[1] /\ UsageKey(c)[v[i]][3] = v[i].place[2]
      /\ UsageKey(c)[v[j]][2] = v[j].place[1] /\ UsageKey(c)[v[j]][3] = v[j].place[2]
  BY <1>2, <1>3
<1> QED
  BY <1>4, <1>5 DEF Earlier, Lex

\* The next file of the index is searched.
LEMMA IndexedRead ==
  ASSUME TreeOK, NEW c, UsagesOK(c), c.pc = "indexed", c.todo # << >>,
         NEW d, d = [c EXCEPT !.todo = Tail(@), !.searched = @ \cup {Head(c.todo)},
                       !.usages = @ \o SearchFile(Head(c.todo), c.name)]
  PROVE  UsagesOK(d)
<1> DEFINE I == IndexedFiles(c)
           f == Head(c.todo)
           v == SearchFile(f, c.name)
<1>1. /\ DOMAIN d = DOMAIN c /\ d.pc = "indexed" /\ d.todo = Tail(c.todo) /\ d.told = c.told /\ d.offset = c.offset
      /\ d.usages = c.usages \o v /\ d.searched = c.searched \cup {f} /\ d.limit = c.limit /\ d.edited = c.edited
      /\ d.name = c.name /\ d.file = c.file /\ d.scope = c.scope
  BY NamingIs DEF Fields
<1>2. /\ List(c.usages) /\ IsInjective(c.usages) /\ List(c.todo) /\ IsInjective(c.todo)
      /\ ToSet(c.todo) \subseteq DOMAIN tree
      /\ c.searched \cap ToSet(c.todo) = {} /\ \A u \in ToSet(c.usages) : u.file \in c.searched
  BY DEF UsagesOK, UsagesApart, TreeOK
<1>3. /\ List(Tail(c.todo)) /\ IsInjective(Tail(c.todo)) /\ f \notin ToSet(Tail(c.todo))
      /\ ToSet(c.todo) = {f} \cup ToSet(Tail(c.todo))
  BY <1>2, TailOfList
<1>4. f \in DOMAIN tree /\ WellFormed(tree[f])
  BY <1>2, <1>3 DEF TreeOK
<1>5. List(v) /\ IsInjective(v) /\ \A u \in ToSet(v) : u.file = f
  BY <1>4, FoundApart
<1>6. List(d.usages) /\ IsInjective(d.usages) /\ ToSet(d.usages) = ToSet(c.usages) \cup ToSet(v)
  <2>1. ToSet(c.usages) \cap ToSet(v) = {}
    BY <1>2, <1>3, <1>5
  <2> QED
    BY <1>1, <1>2, <1>5, <2>1, ApartMore
<1>7. UsagesApart(d)
  <2>1. ToSet(d.todo) \subseteq ToSet(ByWalk)
    BY <1>1, <1>2, <1>3 DEF TreeOK
  <2>2. d.searched \cap ToSet(d.todo) = {}
    BY <1>1, <1>2, <1>3
  <2>3. \A u \in ToSet(d.usages) : u.file \in d.searched
    BY <1>1, <1>2, <1>5, <1>6
  <2> QED
    BY <1>1, <1>3, <1>6, <2>1, <2>2, <2>3 DEF UsagesApart
<1>8. ToldOK(d)
  BY <1>1 DEF UsagesOK, ToldOK
<1>9. /\ Usages(d) = Usages(c) /\ IndexedFiles(d) = I /\ UsageKey(d) = UsageKey(c) /\ Uses(d) = Uses(c)
  BY <1>1, SameQuestion DEF Uses
<1>10. ASSUME ~c.edited PROVE UsagesFound(d)
  <2>1. PICK all : /\ Sorted(Usages(c), Uses(c), all) /\ Paged(c, all)
                   /\ \E k \in 0..Len(I) :
                        /\ c.todo = SubSeq(I, k + 1, Len(I)) /\ c.searched = ToSet(SubSeq(I, 1, k))
                        /\ Gathered(Usages(c), UsageKey(c), c.usages, k + 1)
    BY <1>10 DEF UsagesOK, UsagesFound
  <2>2. PICK k \in 0..Len(I) :
          /\ c.todo = SubSeq(I, k + 1, Len(I)) /\ c.searched = ToSet(SubSeq(I, 1, k))
          /\ Gathered(Usages(c), UsageKey(c), c.usages, k + 1)
    BY <2>1
  <2>3. List(I) /\ IsInjective(I) /\ ToSet(I) = {x \in listed : ShouldSearch(x, c.scope)}
    BY IndexedFilesAre
  <2>4. Len(I) \in Nat /\ DOMAIN I = 1..Len(I)
    BY <2>3, ListIs
  <2> HIDE DEF I
  <2>5. k + 1 \in 1..Len(I) /\ f = I[k + 1] /\ Tail(c.todo) = SubSeq(I, k + 2, Len(I))
    BY <2>2, <2>3, RestOfList
  <2>6. f \in ToSet(I) /\ v = Searched(c, f)
    <3>1. f \in ToSet(I)
      BY <2>4, <2>5 DEF ToSet
    <3> QED
      BY <2>3, <3>1 DEF Searched
  <2>7. Turned(c, f) = k + 1
    <3>1. Turned(c, f) = PositionIn(I, f)
      BY <2>6 DEF Turned, I
    <3>2. PositionIn(I, f) \in 1..Len(I) /\ I[PositionIn(I, f)] = f
      BY <2>3, <2>6, PositionIs
    <3> QED
      BY <2>3, <2>4, <2>5, <3>1, <3>2 DEF IsInjective
  <2>8. ToSet(v) = {u \in Usages(c) : UsageKey(c)[u][1] = k + 1}
    <3>1. ToSet(v) = {u \in Usages(c) : u.file = f}
      BY <1>4, <2>6, SearchedIs
    <3>2. \A x, y \in DOMAIN tree : Turned(c, x) = Turned(c, y) => x = y
      BY TurnsAre
    <3>3. \A u \in Usages(c) : UsageKey(c)[u][1] = k + 1 <=> u.file = f
      BY <1>4, <2>7, <3>2, UsagesKeyed
    <3> QED
      BY <3>1, <3>3
  <2>9. \A i, j \in 1..Len(v) : i < j => Lex(UsageKey(c)[v[i]], UsageKey(c)[v[j]])
    BY <1>4, <2>6, FoundInOrder
  <2>10. Gathered(Usages(c), UsageKey(c), c.usages \o v, (k + 1) + 1)
    <3>1. k + 1 \in Int
      BY <2>4
    <3>2. Keyed(Usages(c), UsageKey(c))
      BY UsagesKeyed
    <3> HIDE DEF v
    <3> QED
      BY <1>5, <2>2, <2>8, <2>9, <3>1, <3>2, GatherMore
  <2>11. d.searched = ToSet(SubSeq(I, 1, k + 1))
    <3>1. k \in Nat /\ k <= Len(I) /\ k + 1 \in Nat /\ k + 1 <= Len(I) /\ 1..(k + 1) = 1..k \cup {k + 1}
      BY <2>4, <2>5
    <3>2. DOMAIN SubSeq(I, 1, k) = 1..k /\ \A i \in 1..k : SubSeq(I, 1, k)[i] = I[i]
      BY <2>3, <3>1, StartOfList
    <3>3. DOMAIN SubSeq(I, 1, k + 1) = 1..(k + 1) /\ \A i \in 1..(k + 1) : SubSeq(I, 1, k + 1)[i] = I[i]
      BY <2>3, <3>1, StartOfList
    <3>4. ToSet(SubSeq(I, 1, k)) = {I[i] : i \in 1..k}
      BY <3>2 DEF ToSet
    <3>5. ToSet(SubSeq(I, 1, k + 1)) = {I[i] : i \in 1..(k + 1)}
      BY <3>3 DEF ToSet
    <3>6. {I[i] : i \in 1..(k + 1)} = {I[i] : i \in 1..k} \cup {I[k + 1]}
      BY <3>1
    <3>7. d.searched = c.searched \cup {f}
      BY <1>1
    <3> QED
      BY <2>2, <2>5, <3>4, <3>5, <3>6, <3>7
  <2>12. (k + 1) + 1 = k + 2 /\ k + 1 \in 0..Len(I)
    BY <2>4, <2>5
  <2>13. Paged(d, all)
    BY <1>1, <2>1 DEF Paged
  <2>14. \E k2 \in 0..Len(I) :
           /\ d.todo = SubSeq(I, k2 + 1, Len(I)) /\ d.searched = ToSet(SubSeq(I, 1, k2))
           /\ Gathered(Usages(c), UsageKey(c), d.usages, k2 + 1)
    <3>1. d.todo = SubSeq(I, (k + 1) + 1, Len(I)) /\ d.usages = c.usages \o v
      BY <1>1, <2>5, <2>12
    <3>2. Gathered(Usages(c), UsageKey(c), d.usages, (k + 1) + 1)
      BY <2>10, <3>1
    <3> HIDE DEF v, f
    <3> QED
      BY <2>11, <2>12, <3>1, <3>2
  <2>15. /\ Sorted(Usages(d), Uses(d), all) /\ Paged(d, all) /\ d.pc = "indexed"
         /\ IndexedFiles(d) = I /\ Usages(d) = Usages(c) /\ UsageKey(d) = UsageKey(c)
    BY <1>1, <1>9, <2>1, <2>13
  <2> HIDE DEF v, f
  <2>16. \E k2 \in 0..Len(IndexedFiles(d)) :
           /\ d.todo = SubSeq(IndexedFiles(d), k2 + 1, Len(IndexedFiles(d)))
           /\ d.searched = ToSet(SubSeq(IndexedFiles(d), 1, k2))
           /\ Gathered(Usages(d), UsageKey(d), d.usages, k2 + 1)
    BY <2>14, <2>15
  <2> QED
    BY ONLY <2>15, <2>16 DEF UsagesFound
<1> QED
  BY <1>1, <1>7, <1>8, <1>10 DEF UsagesOK

\* When the index is searched the walk begins.
LEMMA WalkStarted ==
  ASSUME TreeOK, NEW c, UsagesOK(c), c.pc = "indexed", c.todo = << >>,
         NEW d, d = [c EXCEPT !.pc = "walk", !.todo = ByWalk]
  PROVE  UsagesOK(d)
<1> DEFINE I == IndexedFiles(c)
<1>1. /\ DOMAIN d = DOMAIN c /\ d.pc = "walk" /\ d.todo = ByWalk /\ d.told = c.told /\ d.offset = c.offset
      /\ d.usages = c.usages /\ d.searched = c.searched /\ d.limit = c.limit /\ d.edited = c.edited
      /\ d.name = c.name /\ d.file = c.file /\ d.scope = c.scope
  BY NamingIs DEF Fields
<1>2. List(ByWalk) /\ IsInjective(ByWalk)
  BY TreesAssumption DEF List
<1>3. UsagesApart(d)
  BY <1>1, <1>2 DEF UsagesOK, UsagesApart
<1>4. ToldOK(d)
  BY <1>1 DEF UsagesOK, ToldOK
<1>5. /\ Usages(d) = Usages(c) /\ IndexedFiles(d) = I /\ UsageKey(d) = UsageKey(c) /\ Uses(d) = Uses(c)
  BY <1>1, SameQuestion DEF Uses
<1>6. ASSUME ~c.edited PROVE UsagesFound(d)
  <2>1. PICK all : /\ Sorted(Usages(c), Uses(c), all) /\ Paged(c, all)
                   /\ \E k \in 0..Len(I) :
                        /\ c.todo = SubSeq(I, k + 1, Len(I)) /\ c.searched = ToSet(SubSeq(I, 1, k))
                        /\ Gathered(Usages(c), UsageKey(c), c.usages, k + 1)
    BY <1>6 DEF UsagesOK, UsagesFound
  <2>2. PICK k \in 0..Len(I) :
          /\ c.todo = SubSeq(I, k + 1, Len(I)) /\ c.searched = ToSet(SubSeq(I, 1, k))
          /\ Gathered(Usages(c), UsageKey(c), c.usages, k + 1)
    BY <2>1
  <2>3. List(I)
    BY IndexedFilesAre
  <2> HIDE DEF I
  <2>4. k = Len(I)
    BY <2>2, <2>3, RestOfList
  <2>5. Len(I) \in Nat /\ Len(ByWalk) \in Nat /\ I \in Seq(ToSet(I)) /\ ByWalk \in Seq(ToSet(ByWalk))
    BY <1>2, <2>3, ListIs
  <2>6. SubSeq(I, 1, k) = I /\ SubSeq(ByWalk, 0 + 1, Len(ByWalk)) = ByWalk
    BY <2>4, <2>5, SubSeqFull
  <2>7. Len(I) + 0 + 1 = k + 1 /\ 0 \in 0..Len(ByWalk)
    BY <2>4, <2>5
  <2>8. /\ d.todo = SubSeq(ByWalk, 0 + 1, Len(ByWalk)) /\ d.searched = ToSet(IndexedFiles(d))
        /\ Gathered(Usages(d), UsageKey(d), d.usages, Len(IndexedFiles(d)) + 0 + 1)
    BY <1>1, <1>5, <2>2, <2>6, <2>7
  <2>9. Sorted(Usages(d), Uses(d), all) /\ Paged(d, all) /\ d.pc = "walk"
    BY <1>1, <1>5, <2>1 DEF Paged
  <2> QED
    BY ONLY <2>7, <2>8, <2>9 DEF UsagesFound
<1> QED
  BY <1>1, <1>3, <1>4, <1>6 DEF UsagesOK

\* The next file of the walk is searched, or was already.
LEMMA WalkedRead ==
  ASSUME TreeOK, NEW c, UsagesOK(c), c.pc = "walk", c.todo # << >>,
         NEW found, found = (IF ShouldSearch(Head(c.todo), c.scope) /\ Head(c.todo) \notin c.searched
                             THEN SearchFile(Head(c.todo), c.name) ELSE << >>),
         NEW d, d = [c EXCEPT !.todo = Tail(@), !.usages = @ \o found]
  PROVE  UsagesOK(d)
<1> DEFINE I == IndexedFiles(c)
           f == Head(c.todo)
<1>1. /\ DOMAIN d = DOMAIN c /\ d.pc = "walk" /\ d.todo = Tail(c.todo) /\ d.told = c.told /\ d.offset = c.offset
      /\ d.usages = c.usages \o found /\ d.searched = c.searched /\ d.limit = c.limit /\ d.edited = c.edited
      /\ d.name = c.name /\ d.file = c.file /\ d.scope = c.scope
  BY NamingIs DEF Fields
<1>2. /\ List(c.usages) /\ IsInjective(c.usages) /\ List(c.todo) /\ IsInjective(c.todo)
      /\ ToSet(c.todo) \subseteq DOMAIN tree
      /\ \A u \in ToSet(c.usages) : u.file \in c.searched \/ u.file \notin ToSet(c.todo)
  BY DEF UsagesOK, UsagesApart, TreeOK
<1>3. /\ List(Tail(c.todo)) /\ IsInjective(Tail(c.todo)) /\ f \notin ToSet(Tail(c.todo))
      /\ ToSet(c.todo) = {f} \cup ToSet(Tail(c.todo))
  BY <1>2, TailOfList
<1>4. f \in DOMAIN tree /\ WellFormed(tree[f])
  BY <1>2, <1>3 DEF TreeOK
<1>5. /\ List(found) /\ IsInjective(found) /\ \A u \in ToSet(found) : u.file = f
      /\ ToSet(found) # {} => f \notin c.searched
  <2>1. List(<< >>) /\ IsInjective(<< >>) /\ ToSet(<< >>) = {}
    BY EmptyList DEF IsInjective
  <2>2. List(SearchFile(f, c.name)) /\ IsInjective(SearchFile(f, c.name)) /\ \A u \in ToSet(SearchFile(f, c.name)) : u.file = f
    BY <1>4, FoundApart
  <2> QED
    BY <2>1, <2>2
<1> HIDE DEF f
<1>6. List(d.usages) /\ IsInjective(d.usages) /\ ToSet(d.usages) = ToSet(c.usages) \cup ToSet(found)
  <2>1. ToSet(c.usages) \cap ToSet(found) = {}
    BY <1>2, <1>3, <1>5
  <2> QED
    BY <1>1, <1>2, <1>5, <2>1, ApartMore
<1>7. UsagesApart(d)
  <2>1. ToSet(d.todo) \subseteq ToSet(ByWalk)
    BY <1>1, <1>2, <1>3 DEF TreeOK
  <2>2. \A u \in ToSet(d.usages) : u.file \in d.searched \/ u.file \notin ToSet(d.todo)
    BY <1>1, <1>2, <1>3, <1>5, <1>6
  <2> QED
    BY <1>1, <1>3, <1>6, <2>1, <2>2 DEF UsagesApart
<1>8. ToldOK(d)
  BY <1>1 DEF UsagesOK, ToldOK
<1>9. /\ Usages(d) = Usages(c) /\ IndexedFiles(d) = I /\ UsageKey(d) = UsageKey(c) /\ Uses(d) = Uses(c)
  BY <1>1, SameQuestion DEF Uses
<1>10. ASSUME ~c.edited PROVE UsagesFound(d)
  <2>1. PICK all : /\ Sorted(Usages(c), Uses(c), all) /\ Paged(c, all)
                   /\ \E k \in 0..Len(ByWalk) :
                        /\ c.todo = SubSeq(ByWalk, k + 1, Len(ByWalk)) /\ c.searched = ToSet(I)
                        /\ Gathered(Usages(c), UsageKey(c), c.usages, Len(I) + k + 1)
    BY <1>10 DEF UsagesOK, UsagesFound
  <2>2. PICK k \in 0..Len(ByWalk) :
          /\ c.todo = SubSeq(ByWalk, k + 1, Len(ByWalk)) /\ c.searched = ToSet(I)
          /\ Gathered(Usages(c), UsageKey(c), c.usages, Len(I) + k + 1)
    BY <2>1
  <2>3. List(I) /\ ToSet(I) = {x \in listed : ShouldSearch(x, c.scope)} /\ List(ByWalk) /\ IsInjective(ByWalk)
    BY IndexedFilesAre, TreesAssumption DEF List
  <2>4. Len(I) \in Nat /\ Len(ByWalk) \in Nat /\ DOMAIN ByWalk = 1..Len(ByWalk)
    BY <2>3, ListIs
  <2> HIDE DEF I
  <2>5. k + 1 \in 1..Len(ByWalk) /\ f = ByWalk[k + 1] /\ Tail(c.todo) = SubSeq(ByWalk, k + 2, Len(ByWalk))
    BY <2>2, <2>3, RestOfList DEF f
  <2>6. PositionIn(ByWalk, f) = k + 1
    <3>1. f \in ToSet(ByWalk)
      BY <2>4, <2>5 DEF ToSet
    <3>2. PositionIn(ByWalk, f) \in 1..Len(ByWalk) /\ ByWalk[PositionIn(ByWalk, f)] = f
      BY <2>3, <3>1, PositionIs
    <3> QED
      BY <2>3, <2>4, <2>5, <3>2 DEF IsInjective
  <2>7. /\ ToSet(found) = {u \in Usages(c) : UsageKey(c)[u][1] = Len(I) + k + 1}
        /\ \A i, j \in 1..Len(found) : i < j => Lex(UsageKey(c)[found[i]], UsageKey(c)[found[j]])
    <3>1. \A x, y \in DOMAIN tree : Turned(c, x) = Turned(c, y) => x = y
      BY TurnsAre
    <3>2. CASE f \in ToSet(I)
      <4>1. found = << >>
        BY <2>2, <3>2 DEF f
      <4>2. ASSUME NEW u \in Usages(c), UsageKey(c)[u][1] = Len(I) + k + 1 PROVE FALSE
        <5>1. Turned(c, u.file) = Len(I) + k + 1 /\ u.file \in DOMAIN tree
          BY <4>2, UsagesKeyed
        <5>2. IF u.file \in ToSet(I) THEN Turned(c, u.file) \in 1..Len(I)
              ELSE Turned(c, u.file) = Len(I) + PositionIn(ByWalk, u.file)
          <6>1. u.file \in ToSet(I) => Turned(c, u.file) \in 1..Len(I)
            BY <5>1, TurnsAre DEF I
          <6> QED
            BY <6>1 DEF Turned, I
        <5>3. u.file \notin ToSet(I)
          BY <2>4, <5>1, <5>2
        <5>4. PositionIn(ByWalk, u.file) \in 1..Len(ByWalk) /\ ByWalk[PositionIn(ByWalk, u.file)] = u.file
          BY <2>3, <5>1, PositionIs DEF TreeOK
        <5>5. PositionIn(ByWalk, u.file) = k + 1
          BY <2>4, <5>1, <5>2, <5>3, <5>4
        <5> QED
          BY <2>5, <3>2, <5>3, <5>4, <5>5
      <4> QED
        BY <4>1, <4>2, EmptyList
    <3>3. CASE f \notin ToSet(I)
      <4>1. found = Searched(c, f)
        BY <2>2, <3>3 DEF Searched, f
      <4>2. Turned(c, f) = Len(I) + k + 1
        <5>1. Turned(c, f) = Len(I) + (k + 1)
          BY <2>6, <3>3 DEF Turned, I
        <5> QED
          BY <2>4, <5>1
      <4>3. ToSet(found) = {u \in Usages(c) : u.file = f}
        BY <1>4, <4>1, SearchedIs
      <4>4. \A u \in Usages(c) : UsageKey(c)[u][1] = Len(I) + k + 1 <=> u.file = f
        BY <1>4, <3>1, <4>2, UsagesKeyed
      <4> QED
        BY <1>4, <4>1, <4>3, <4>4, FoundInOrder
    <3> QED
      BY <3>2, <3>3
  <2>8. Gathered(Usages(c), UsageKey(c), c.usages \o found, (Len(I) + k + 1) + 1)
    <3>1. Len(I) + k + 1 \in Int
      BY <2>4
    <3>2. Keyed(Usages(c), UsageKey(c))
      BY UsagesKeyed
    <3>3. List(found)
      BY <1>5
    <3> QED
      BY ONLY <2>2, <2>7, <3>1, <3>2, <3>3, GatherMore
  <2>9. /\ (Len(I) + k + 1) + 1 = Len(I) + (k + 1) + 1 /\ (k + 1) + 1 = k + 2 /\ k + 1 \in 0..Len(ByWalk)
    BY <2>4, <2>5
  <2>10. /\ d.todo = SubSeq(ByWalk, (k + 1) + 1, Len(ByWalk)) /\ d.searched = ToSet(IndexedFiles(d))
         /\ Gathered(Usages(d), UsageKey(d), d.usages, Len(IndexedFiles(d)) + (k + 1) + 1)
    <3>1. d.todo = SubSeq(ByWalk, (k + 1) + 1, Len(ByWalk))
      BY <1>1, <2>5, <2>9
    <3>2. Gathered(Usages(c), UsageKey(c), d.usages, Len(I) + (k + 1) + 1)
      BY <1>1, <2>8, <2>9
    <3> QED
      BY <1>1, <1>9, <2>2, <3>1, <3>2 DEF I
  <2>11. Sorted(Usages(d), Uses(d), all) /\ Paged(d, all) /\ d.pc = "walk"
    BY <1>1, <1>9, <2>1 DEF Paged
  <2> QED
    BY ONLY <2>9, <2>10, <2>11 DEF UsagesFound
<1> QED
  BY <1>1, <1>7, <1>8, <1>10 DEF UsagesOK

\* A page that is full is the same of the start that was collected.
LEMMA PageOfStart ==
  ASSUME NEW c, c.offset \in Nat, c.limit \in Nat, NEW list, List(list),
         NEW n \in Nat, n <= Len(list), c.offset + c.limit <= n
  PROVE  Page(SubSeq(list, 1, n), c) = Page(list, c)
<1> DEFINE u == SubSeq(list, 1, n)
           m == c.offset
           to == c.offset + c.limit
           a == SubSeq(u, m + 1, to)
           b == SubSeq(list, m + 1, to)
<1>1. List(u) /\ Len(u) = n /\ \A i \in 1..n : u[i] = list[i]
  BY StartOfList
<1>2. Len(list) \in Nat /\ to \in Nat /\ m \in Nat /\ m <= to /\ to <= n /\ to <= Len(list)
  BY ListIs
<1> HIDE DEF u
<1>3. Page(u, c) = a /\ Page(list, c) = b
  BY <1>1, <1>2, PageIs
<1> HIDE DEF to, m
<1>4. to <= Len(u)
  BY <1>1, <1>2
<1>5. /\ List(a) /\ Len(a) = (IF m <= to THEN to - m ELSE 0)
      /\ \A i \in 1..(to - m) : a[i] = u[m + i]
  BY ONLY <1>1, <1>2, <1>4, PartOfList
<1>6. /\ List(b) /\ Len(b) = (IF m <= to THEN to - m ELSE 0)
      /\ \A i \in 1..(to - m) : b[i] = list[m + i]
  BY ONLY List(list), <1>2, PartOfList
<1> HIDE DEF a, b
<1>7. \A i \in 1..(to - m) : m + i \in 1..n
  BY <1>2
<1>8. \A i \in 1..(to - m) : a[i] = b[i]
  BY <1>1, <1>5, <1>6, <1>7
<1>9. a = b
  BY ONLY <1>2, <1>5, <1>6, <1>8, SameList
<1> QED
  BY <1>3, <1>9 DEF u

\* What was collected of the usages is the start of them, all at the end of
\* the walk.
LEMMA UsagesCollected ==
  ASSUME TreeOK, NEW c, UsagesOK(c), ~c.edited, c.pc \in {"indexed", "walk"}
  PROVE  \E all : /\ Sorted(Usages(c), Uses(c), all) /\ Paged(c, all)
                  /\ Len(c.usages) <= Len(all) /\ c.usages = SubSeq(all, 1, Len(c.usages))
                  /\ c.pc = "walk" /\ c.todo = << >> => c.usages = all
<1> DEFINE I == IndexedFiles(c)
           K == UsageKey(c)
           S == Usages(c)
<1>1. PICK all :
        /\ Sorted(S, Uses(c), all) /\ Paged(c, all)
        /\ c.pc = "indexed" => \E k \in 0..Len(I) : Gathered(S, K, c.usages, k + 1)
        /\ c.pc = "walk" => \E k \in 0..Len(ByWalk) :
             c.todo = SubSeq(ByWalk, k + 1, Len(ByWalk)) /\ Gathered(S, K, c.usages, Len(I) + k + 1)
  BY DEF UsagesOK, UsagesFound
<1>2. Len(I) \in Nat /\ Len(ByWalk) \in Nat /\ List(ByWalk)
  BY IndexedFilesAre, TreesAssumption, ListIs DEF List
<1>3. Keyed(S, K) /\ \A u \in S : K[u][1] = Turned(c, u.file) /\ u.file \in DOMAIN tree
  BY UsagesKeyed
<1>4. Ranks(S, Uses(c)) /\ Uses(c) = Behind(S, K)
  BY <1>3, KeysRank DEF Uses
<1>5. \A u \in S : K[u][1] < Len(I) + Len(ByWalk) + 1
  <2> SUFFICES ASSUME NEW u \in S PROVE K[u][1] < Len(I) + Len(ByWalk) + 1
    OBVIOUS
  <2>1. IF u.file \in ToSet(I) THEN Turned(c, u.file) \in 1..Len(I)
        ELSE Turned(c, u.file) \in (Len(I) + 1)..(Len(I) + Len(ByWalk))
    BY <1>3, TurnsAre
  <2>2. Turned(c, u.file) \in Int /\ Turned(c, u.file) <= Len(I) + Len(ByWalk)
    BY <1>2, <2>1
  <2> QED
    BY <1>2, <1>3, <2>2
<1> HIDE DEF I, K, S
<1>6. PICK r \in Int : /\ Gathered(S, K, c.usages, r)
                       /\ c.pc = "walk" /\ c.todo = << >> => r = Len(I) + Len(ByWalk) + 1
  <2>1. CASE c.pc = "indexed"
    <3>1. PICK k \in 0..Len(I) : Gathered(S, K, c.usages, k + 1)
      BY <1>1, <2>1
    <3>2. k + 1 \in Int
      BY <1>2
    <3> QED
      BY <2>1, <3>1, <3>2
  <2>2. CASE c.pc = "walk"
    <3>1. PICK k \in 0..Len(ByWalk) :
            c.todo = SubSeq(ByWalk, k + 1, Len(ByWalk)) /\ Gathered(S, K, c.usages, Len(I) + k + 1)
      BY <1>1, <2>2
    <3>2. Len(I) + k + 1 \in Int
      BY <1>2
    <3>3. c.todo = << >> => k = Len(ByWalk)
      BY <1>2, <3>1, RestOfList
    <3> QED
      BY <3>1, <3>2, <3>3
  <2> QED
    BY <2>1, <2>2
<1>7. Begins(S, Uses(c), c.usages)
  BY <1>3, <1>4, <1>6, GatheredBegins
<1>8. Len(c.usages) <= Len(all) /\ c.usages = SubSeq(all, 1, Len(c.usages))
  BY <1>1, <1>4, <1>7, BegunIsStart
<1>9. ASSUME c.pc = "walk", c.todo = << >> PROVE c.usages = all
  <2>1. ToSet(c.usages) = {x \in S : K[x][1] < Len(I) + Len(ByWalk) + 1}
    BY <1>6, <1>9 DEF Gathered
  <2>2. S \subseteq ToSet(c.usages)
    BY <1>5, <2>1
  <2> QED
    BY <1>1, <1>4, <1>7, <2>2, BegunIsAll
<1> QED
  BY <1>1, <1>8, <1>9 DEF S

\* A page of the usages is told.
LEMMA UsagesPaged ==
  ASSUME TreeOK, NEW c, UsagesOK(c), c.pc \in {"indexed", "walk"},
         Enough(c) \/ (c.pc = "walk" /\ c.todo = << >>),
         NEW d, d = Turn(c, Page(c.usages, c), Enough(c))
  PROVE  UsagesOK(d)
<1> DEFINE page == Page(c.usages, c)
<1>1. /\ Asking \subseteq DOMAIN c /\ Fields \subseteq DOMAIN c /\ ToldOK(c)
      /\ c.limit \in Nat /\ c.offset \in Nat /\ Naming \subseteq DOMAIN c
      /\ \A x \in {"name", "file", "scope"} : x \in DOMAIN c \ Fields
  BY NamingIs DEF UsagesOK
<1>2. List(c.usages) /\ IsInjective(c.usages)
  BY DEF UsagesOK, UsagesApart
<1>3. List(page) /\ IsInjective(page) /\ Enough(c) \in BOOLEAN
  BY <1>1, <1>2, PageIs DEF Enough
<1> HIDE DEF page
<1>4. /\ DOMAIN d = DOMAIN c /\ ToldOK(d)
      /\ d.pc = (IF Enough(c) THEN "more" ELSE "done")
      /\ d.usages = << >> /\ d.todo = << >> /\ d.searched = {}
      /\ \A x \in DOMAIN c \ Fields : d[x] = c[x]
      /\ d.limit = c.limit /\ d.edited = c.edited
  BY <1>1, <1>3, TurnIsOK DEF page
<1>5. d.name = c.name /\ d.file = c.file /\ d.scope = c.scope
  BY <1>1, <1>4
<1>6. UsagesApart(d)
  BY <1>4 DEF UsagesApart
<1>7. /\ Usages(d) = Usages(c) /\ Uses(d) = Uses(c)
  BY <1>5, SameQuestion DEF Uses
<1>8. ASSUME ~c.edited PROVE UsagesFound(d)
  <2>1. PICK all : /\ Sorted(Usages(c), Uses(c), all) /\ Paged(c, all)
                   /\ Len(c.usages) <= Len(all) /\ c.usages = SubSeq(all, 1, Len(c.usages))
                   /\ c.pc = "walk" /\ c.todo = << >> => c.usages = all
    BY <1>8, UsagesCollected
  <2>2. List(all) /\ Len(all) \in Nat /\ Len(c.usages) \in Nat
    BY <1>2, <2>1, ListIs DEF Sorted
  <2>3. page = Page(all, c)
    <3>1. CASE Enough(c)
      <4>1. c.offset + c.limit <= Len(c.usages)
        BY <1>1, <2>2, <3>1 DEF Enough
      <4> QED
        BY <1>1, <2>1, <2>2, <4>1, PageOfStart DEF page
    <3>2. CASE ~Enough(c)
      BY <2>1, <3>2 DEF page
    <3> QED
      BY <3>1, <3>2
  <2>4. /\ Enough(c) => c.offset + c.limit <= Len(all)
        /\ ~Enough(c) => Len(all) <= c.offset + c.limit
    BY <1>1, <2>1, <2>2 DEF Enough
  <2>5. Lists(c.told)
    BY <1>1 DEF ToldOK
  <2>6. /\ d.pc \in {"more", "done"}
        /\ d.pc = "more" => Paged(d, all)
        /\ d.pc = "done" => FlattenSeq(d.told) = all
    BY <1>1, <1>3, <1>4, <2>1, <2>2, <2>3, <2>4, <2>5, TurnTells DEF page
  <2> QED
    BY <1>7, <2>1, <2>6 DEF UsagesFound
<1> QED
  BY <1>1, <1>4, <1>6, <1>8 DEF UsagesOK

\* A file that changes leaves what was told once.
LEMMA UsagesEdited ==
  ASSUME NEW c, UsagesOK(c), NEW d, d = [c EXCEPT !.edited = TRUE]
  PROVE  UsagesOK(d) /\ UsagesOK(d)'
<1>1. /\ DOMAIN d = DOMAIN c /\ \A x \in DOMAIN c \ {"edited"} : d[x] = c[x]
      /\ d.edited = TRUE
  BY DEF UsagesOK, Naming, Asking
<1>2. \A x \in {"pc", "usages", "todo", "searched", "told", "limit", "offset"} : x \in DOMAIN c \ {"edited"}
  BY DEF UsagesOK, Naming, Asking, Fields
<1>3. ToldOK(d)
  BY <1>1, <1>2 DEF UsagesOK, ToldOK
<1>4. UsagesApart(d)
  BY <1>1, <1>2 DEF UsagesOK, UsagesApart
<1> QED
  BY <1>1, <1>3, <1>4 DEF UsagesOK

\* Nothing is told at first.
LEMMA UsagesBegin ==
  ASSUME TreeOK, NEW c, Naming \subseteq DOMAIN c, c.pc = "asked", c.limit \in Nat, c.offset = 0,
         c.usages = << >>, c.searched = {}, c.told = << >>, c.edited = FALSE
  PROVE  UsagesOK(c)
<1>1. Lists(<< >>) /\ FlattenSeq(<< >>) = << >> /\ Len(<< >>) = 0
  BY FlattenNothing
<1>2. ToldOK(c)
  <2>1. \A i \in 1..Len(c.told) : IsInjective(c.told[i])
    BY <1>1
  <2>2. c.offset \in Nat /\ Lists(c.told)
    BY <1>1
  <2>3. c.edited \in BOOLEAN
    OBVIOUS
  <2> QED
    BY <2>1, <2>2, <2>3 DEF ToldOK
<1>3. UsagesApart(c)
  BY DEF UsagesApart
<1>4. Ranks(Usages(c), Uses(c))
  BY UsagesKeyed, KeysRank DEF Uses
<1>5. PICK all : Sorted(Usages(c), Uses(c), all)
  BY <1>4, SortedExists
<1>6. Paged(c, all)
  <2>1. List(all) /\ Len(all) \in Nat
    BY <1>5, ListIs DEF Sorted
  <2>2. List(SubSeq(all, 1, 0)) /\ Len(SubSeq(all, 1, 0)) = 0
    BY <2>1, StartOfList
  <2>3. SubSeq(all, 1, 0) = << >>
    BY <2>2, EmptyList, SameList
  <2>4. c.offset <= Len(all) /\ SubSeq(all, 1, c.offset) = << >> /\ FlattenSeq(c.told) = << >>
    BY <1>1, <2>1, <2>3
  <2> QED
    BY <2>4 DEF Paged
<1>7. UsagesFound(c)
  BY <1>5, <1>6 DEF UsagesFound
<1> QED
  BY <1>2, <1>3, <1>7 DEF UsagesOK

\* At the end the pages have them all, those of the defining file first.
LEMMA UsagesAllTold ==
  ASSUME TreeOK, NEW c, UsagesOK(c), ~c.edited, c.pc = "done"
  PROVE  IsInjective(Told1(c)) /\ UsagesTold(c, Told1(c))
<1> DEFINE all == Told1(c)
           I == IndexedFiles(c)
<1>1. Sorted(Usages(c), Uses(c), all)
  BY DEF UsagesOK, UsagesFound, Told1
<1> HIDE DEF all
<1>2. List(all) /\ IsInjective(all) /\ ToSet(all) = Usages(c) /\ DOMAIN all = 1..Len(all) /\ Len(all) \in Nat
  BY <1>1, ListIs DEF Sorted
<1>3. ASSUME c.file \in listed, NEW i \in DOMAIN all, NEW j \in DOMAIN all, all[j].file = c.file, i < j
      PROVE  all[i].file = c.file
  <2>1. all[i] \in Usages(c) /\ all[j] \in Usages(c) /\ all[i] \in Uses(c)[all[j]]
    BY <1>1, <1>2, <1>3, ListIs DEF Sorted
  <2>2. Lex(UsageKey(c)[all[i]], UsageKey(c)[all[j]])
    BY <2>1 DEF Uses, Behind
  <2>3. /\ UsageKey(c)[all[i]][1] = Turned(c, all[i].file) /\ UsageKey(c)[all[j]][1] = Turned(c, c.file)
        /\ all[i].file \in DOMAIN tree /\ c.file \in DOMAIN tree
    BY <1>3, <2>1, UsagesKeyed
  <2>4. List(I) /\ IsInjective(I) /\ c.file \in ToSet(I) /\ \A k \in 1..Len(I) : I[k] = c.file => k = 1
    <3>1. ShouldSearch(c.file, c.scope)
      <4>1. \E f \in DOMAIN tree : /\ ShouldSearch(f, c.scope)
                                   /\ \E p \in PlacesIn(tree[f], c.name) : all[j] = [file |-> f, place |-> p]
        BY <2>1, UsagesAre
      <4> QED
        BY <1>3, <4>1
    <3> QED
      BY <1>3, <3>1, IndexedFilesAre
  <2>5. Turned(c, c.file) = 1
    <3>1. PositionIn(I, c.file) \in 1..Len(I) /\ I[PositionIn(I, c.file)] = c.file
      BY <2>4, PositionIs
    <3> QED
      BY <2>4, <3>1 DEF Turned
  <2>6. Turned(c, all[i].file) \in Nat \ {0}
    <3>1. Len(I) \in Nat /\ Len(ByWalk) \in Nat
      BY <2>4, TreesAssumption, ListIs DEF List
    <3>2. IF all[i].file \in ToSet(I) THEN Turned(c, all[i].file) \in 1..Len(I)
          ELSE Turned(c, all[i].file) \in (Len(I) + 1)..(Len(I) + Len(ByWalk))
      BY <2>3, TurnsAre
    <3> QED
      BY <3>1, <3>2
  <2>7. Turned(c, all[i].file) = Turned(c, c.file)
    BY <2>2, <2>3, <2>5, <2>6 DEF Lex
  <2> QED
    BY <2>3, <2>7, TurnsAre
<1> QED
  BY <1>2, <1>3 DEF UsagesTold, all

-----------------------------------------------------------------------------
(* Callers and callees: a finite set of references, by falling confidence. *)
LEMMA FallingIs ==
  ASSUME NEW refs, IsFiniteSet(refs), \A r \in refs : r.confidence \in Nat, NEW s, s = Falling(refs)
  PROVE  /\ List(s) /\ IsInjective(s)
         /\ \A i, j \in DOMAIN s : i < j => s[i].confidence >= s[j].confidence
<1> DEFINE n == Cardinality(refs)
           Good(t) == \A i, j \in DOMAIN t : i < j => t[i] # t[j] /\ t[i].confidence >= t[j].confidence
<1>1. n \in Nat /\ \E f \in Bijection(1..n, refs) : TRUE
  BY FS_CardinalityType DEF ExistsBijection
<1>2. PICK b \in Bijection(1..n, refs) : TRUE
  BY <1>1
<1>3. \A r \in refs : \E i \in 1..n : b[i] = r
  BY <1>2 DEF Bijection, Surjection
<1> DEFINE at(r) == CHOOSE i \in 1..n : b[i] = r
           K == [r \in refs |-> <<0 - r.confidence, at(r), 0>>]
<1>4. \A r \in refs : at(r) \in 1..n /\ b[at(r)] = r
  BY <1>3
<1> HIDE DEF at
<1>5. \A r \in refs : K[r][1] = 0 - r.confidence /\ K[r][2] = at(r) /\ K[r][3] = 0
  OBVIOUS
<1> HIDE DEF K
<1>6. Keyed(refs, K)
  <2>1. \A r \in refs : K[r][1] \in Int /\ K[r][2] \in Int /\ K[r][3] \in Int
    BY <1>1, <1>4, <1>5
  <2>2. \A x, y \in refs : K[x][2] = K[y][2] => x = y
    BY <1>4, <1>5
  <2> QED
    BY <2>1, <2>2 DEF Keyed
<1>7. PICK all : Sorted(refs, Behind(refs, K), all)
  BY <1>6, KeysRank, SortedExists
<1>8. List(all) /\ DOMAIN all = 1..n /\ \A i \in 1..n : all[i] \in refs
  BY <1>7, ListIs DEF Sorted
<1>9. all \in [1..n -> refs]
  <2>1. all \in Seq(ToSet(all))
    BY <1>8 DEF List
  <2> QED
    BY <1>8, <2>1
<1>10. Good(all)
  <2> SUFFICES ASSUME NEW i \in 1..n, NEW j \in 1..n, i < j
               PROVE  all[i] # all[j] /\ all[i].confidence >= all[j].confidence
    BY <1>8
  <2>1. all[i] \in refs /\ all[j] \in refs /\ Lex(K[all[i]], K[all[j]])
    BY <1>7, <1>8 DEF Sorted, Behind
  <2>2. all[i].confidence \in Nat /\ all[j].confidence \in Nat
    BY <2>1
  <2>3. 0 - all[i].confidence <= 0 - all[j].confidence
    <3> DEFINE x == all[i]
               y == all[j]
    <3>1. K[x][1] = 0 - x.confidence /\ K[y][1] = 0 - y.confidence /\ Lex(K[x], K[y])
      BY <1>5, <2>1
    <3> HIDE DEF x, y
    <3>2. K[x][1] < K[y][1] \/ K[x][1] = K[y][1]
      BY <3>1 DEF Lex
    <3>3. x.confidence \in Nat /\ y.confidence \in Nat
      BY <2>2 DEF x, y
    <3> QED
      BY <3>1, <3>2, <3>3 DEF x, y
  <2>4. all[i] # all[j]
    BY <1>7, <1>8 DEF Sorted, IsInjective
  <2> QED
    BY <2>2, <2>3, <2>4
<1>11. s = CHOOSE t \in [1..n -> refs] : Good(t)
  BY DEF Falling
<1>12. s \in [1..n -> refs] /\ Good(s)
  <2> HIDE DEF Good, n
  <2> QED
    BY <1>9, <1>10, <1>11
<1>13. List(s)
  <2>1. DOMAIN s = 1..n /\ s = [i \in 1..n |-> s[i]]
    BY <1>12
  <2> QED
    BY <1>1, <2>1, ListMade
<1>14. IsInjective(s)
  <2>1. \A i, j \in 1..n : i = j \/ i < j \/ j < i
    BY <1>1
  <2> QED
    BY <1>12, <2>1 DEF IsInjective
<1> QED
  BY <1>12, <1>13, <1>14

\* What a symbol calls is finite: one of a symbol and a confidence.
LEMMA CallsAreFinite ==
  ASSUME ProjectOK, IsFiniteSet(project.symbols), NEW s \in project.symbols
  PROVE  IsFiniteSet(ScannedCallees(s)) /\ \A r \in ScannedCallees(s) : Calls(s, r) /\ r.confidence \in 86..100
<1> DEFINE C == ScannedCallees(s)
           ids == {t.id : t \in project.symbols}
           T == ids \X (0..100)
           f == [r \in C |-> <<r.id, r.confidence>>]
<1>1. \A r \in C : Calls(s, r)
  BY CalleesRead
<1>2. \A r \in C : r.confidence \in 86..100 /\ r.id \in ids
  BY <1>1, CallIsCertain DEF Indexed
<1>3. IsFiniteSet(ids)
  <2> DEFINE of == [t \in project.symbols |-> t.id]
  <2>1. DOMAIN of = project.symbols /\ ids = {of[t] : t \in project.symbols}
    OBVIOUS
  <2> HIDE DEF of, ids
  <2> QED
    BY <2>1, ImageIsFinite
<1>4. IsFiniteSet(T)
  <2>1. IsFiniteSet(0..100)
    <3>1. \A n \in Nat : IsFiniteSet(0..n)
      BY FS_Interval
    <3> QED
      BY <3>1
  <2> HIDE DEF ids
  <2> QED
    BY <1>3, <2>1, FS_Product
<1>5. \A x, y \in C : x.id = y.id /\ x.confidence = y.confidence => x = y
  BY <1>1, CallIsGood
<1> HIDE DEF C
<1>6. f \in Injection(C, T)
  <2>1. f \in [C -> T]
    BY <1>2
  <2>2. \A x, y \in C : f[x] = f[y] => x = y
    BY <1>5
  <2> QED
    BY <2>1, <2>2 DEF Injection, IsInjective
<1>7. IsFiniteSet(C)
  <2> HIDE DEF f, T
  <2> QED
    BY <1>4, <1>6, FS_Injection
<1> QED
  BY <1>1, <1>2, <1>7 DEF C

\* And so is what calls it.
LEMMA CallersAreFinite ==
  ASSUME ProjectOK, IsFiniteSet(project.symbols), NEW s \in project.symbols
  PROVE  IsFiniteSet(ScannedCallers(s)) /\ \A r \in ScannedCallers(s) : r.confidence \in 86..100
<1> DEFINE of == [c \in project.symbols |-> FirstCall(c.id, {r \in ScannedCallees(c) : r.id = s.id})]
           all == {of[c] : c \in project.symbols}
<1>1. ASSUME NEW c \in project.symbols PROVE IsFiniteSet(of[c]) /\ \A x \in of[c] : x.confidence \in 86..100
  <2> DEFINE calls == {r \in ScannedCallees(c) : r.id = s.id}
             first == CHOOSE r \in calls : \A other \in calls : other.confidence <= r.confidence
  <2>1. of[c] = FirstCall(c.id, calls)
    OBVIOUS
  <2>2. \A r \in calls : Calls(c, r) /\ r.id = s.id /\ r.confidence \in 86..100
    BY CallsAreFinite
  <2>3. \A r \in calls : r.confidence \in 0..100
    BY <2>2
  <2>4. \A a, b \in calls : a.confidence = b.confidence => a = b
    BY <2>2, CallIsGood
  <2>5. of[c] = {} \/ \E x : of[c] = {x}
    BY <2>1 DEF FirstCall
  <2> HIDE DEF of
  <2>6. IsFiniteSet(of[c])
    <3>1. IsFiniteSet({}) /\ \A x : IsFiniteSet({x})
      BY FS_EmptySet, FS_Singleton
    <3> QED
      BY ONLY <2>5, <3>1
  <2> HIDE DEF calls
  <2>7. \A x \in of[c] : \E r \in calls : x = Told(c.id, r)
    BY <2>1, <2>3, <2>4, FirstCallIs
  <2>8. \A x \in of[c] : x.confidence \in 86..100
    <3>1. \A r : Told(c.id, r).confidence = r.confidence
      BY DEF Told
    <3> QED
      BY ONLY <2>2, <2>7, <3>1
  <2> QED
    BY <2>6, <2>8
<1>2. DOMAIN of = project.symbols
  OBVIOUS
<1>3. \A r \in ScannedCallers(s) : \E c \in project.symbols : r \in of[c]
  BY DEF ScannedCallers
<1> HIDE DEF of
<1>4. IsFiniteSet(all)
  BY <1>2, ImageIsFinite
<1>5. \A T \in all : IsFiniteSet(T)
  BY <1>1
<1>6. ScannedCallers(s) \subseteq UNION all
  BY <1>3
<1>7. IsFiniteSet(UNION all)
  <2> HIDE DEF all
  <2> QED
    BY <1>4, <1>5, FS_UNION
<1>8. IsFiniteSet(ScannedCallers(s))
  BY <1>6, <1>7, FS_Subset
<1> QED
  BY <1>1, <1>3, <1>8

\* What is told of callers and callees.
Referred(c) ==
  IF c.tool = "callers"
  THEN {r \in IncomingCallableReferences(SymbolOf(c.id)) : SymbolOf(r.id).file \in c.scope}
  ELSE DirectCallableReferences(SymbolOf(c.id))

\* What is told of callers or callees is a list without repetition, and falls.
LEMMA ReferencesAre ==
  ASSUME GraphOK, IsFiniteSet(project.symbols), NEW c, Indexed(c.id), NEW s, s = References(c)
  PROVE  /\ List(s) /\ IsInjective(s)
         /\ \A i, j \in DOMAIN s : i < j => s[i].confidence >= s[j].confidence
<1>1. PICK t \in project.symbols : t.id = c.id
  BY DEF Indexed
<1>2. SymbolOf(c.id) = t /\ ProjectOK
  BY <1>1, SymbolFound DEF GraphOK
<1>3. IncomingCallableReferences(t) \subseteq ScannedCallers(t)
  BY <1>2, CallersAgree DEF IncomingCallableReferences, GraphOK
<1>4. DirectCallableReferences(t) \subseteq ScannedCallees(t)
  <2>1. CASE graph # Unbuilt
    <3>1. GraphCallees(t) \subseteq FirstOf({r \in ScannedCallees(t) : Telling(SymbolOf(r.id))})
      BY <1>2, <2>1, CalleesAgree DEF GraphOK
    <3> QED
      BY <2>1, <3>1 DEF FirstOf, DirectCallableReferences
  <2>2. CASE graph = Unbuilt
    BY <2>2 DEF DirectCallableReferences
  <2> QED
    BY <2>1, <2>2
<1>5. IsFiniteSet(Referred(c)) /\ \A r \in Referred(c) : r.confidence \in Nat
  <2>1. CASE c.tool = "callers"
    <3>1. Referred(c) \subseteq ScannedCallers(t)
      BY <1>2, <1>3, <2>1 DEF Referred
    <3>2. IsFiniteSet(ScannedCallers(t)) /\ \A r \in ScannedCallers(t) : r.confidence \in 86..100
      BY <1>2, CallersAreFinite
    <3> QED
      BY <3>1, <3>2, FS_Subset
  <2>2. CASE c.tool # "callers"
    <3>1. Referred(c) \subseteq ScannedCallees(t)
      BY <1>2, <1>4, <2>2 DEF Referred
    <3>2. IsFiniteSet(ScannedCallees(t)) /\ \A r \in ScannedCallees(t) : r.confidence \in 86..100
      BY <1>2, CallsAreFinite
    <3> QED
      BY <3>1, <3>2, FS_Subset
  <2> QED
    BY <2>1, <2>2
<1>6. s = Falling(Referred(c))
  BY DEF References, Referred
<1> QED
  BY <1>5, <1>6, FallingIs

ReferencesOK(c) ==
  /\ Naming \subseteq DOMAIN c /\ ToldOK(c) /\ Indexed(c.id) /\ c.pc \in {"asked", "more", "done"}
  /\ IF c.pc = "done" THEN FlattenSeq(c.told) = References(c) ELSE Paged(c, References(c))

\* While index and graph stay, so do callers and callees.
LEMMA SameReferences ==
  ASSUME UNCHANGED <<project, graph>>
  PROVE  \A c : ReferencesOK(c)' = ReferencesOK(c)
<1>1. \A id : SymbolOf(id)' = SymbolOf(id) /\ Indexed(id)' = Indexed(id)
  BY DEF SymbolOf, Indexed
<1>2. \A s : Opened(s)' = Opened(s) /\ Readable(s)' = Readable(s) /\ ScanDirectReferences(s)' = ScanDirectReferences(s)
  BY SameScan DEF Readable, Opened
<1>3. \A s : ScannedCallees(s)' = ScannedCallees(s)
  BY <1>1, <1>2 DEF ScannedCallees
<1>4. \A told : ResolveEdges(told)' = ResolveEdges(told)
  BY <1>1 DEF ResolveEdges
<1>5. ASSUME NEW s PROVE GraphCallees(s)' = GraphCallees(s) /\ GraphCallers(s)' = GraphCallers(s)
  <2>1. ResolveEdges(CallEdges(graph.outgoing[s.id]))' = ResolveEdges(CallEdges(graph.outgoing[s.id]))
    BY <1>4
  <2>2. ResolveEdges(CallEdges(graph.incoming[s.id]))' = ResolveEdges(CallEdges(graph.incoming[s.id]))
    BY <1>4
  <2>3. GraphCallees(s)' = GraphCallees(s)
    BY <1>1, <2>1 DEF GraphCallees
  <2>4. GraphCallers(s)' = GraphCallers(s)
    BY <1>1, <2>2 DEF GraphCallers
  <2> QED
    BY <2>3, <2>4
<1>6. \A s : ScannedCallers(s)' = ScannedCallers(s)
  BY <1>3 DEF ScannedCallers
<1>7. \A s : DirectCallableReferences(s)' = DirectCallableReferences(s)
  BY <1>3, <1>5 DEF DirectCallableReferences
<1>8. \A s : IncomingCallableReferences(s)' = IncomingCallableReferences(s)
  BY <1>5, <1>6 DEF IncomingCallableReferences
<1>9. ASSUME NEW c PROVE References(c)' = References(c)
  <2>1. DirectCallableReferences(SymbolOf(c.id))' = DirectCallableReferences(SymbolOf(c.id))
    BY <1>1, <1>7
  <2>2. IncomingCallableReferences(SymbolOf(c.id))' = IncomingCallableReferences(SymbolOf(c.id))
    BY <1>1, <1>8
  <2>3. Referred(c)' = Referred(c)
    BY <1>1, <2>1, <2>2 DEF Referred
  <2>4. References(c) = Falling(Referred(c)) /\ References(c)' = Falling(Referred(c)')
    BY DEF References, Referred
  <2> QED
    BY <2>3, <2>4
<1> QED
  BY <1>1, <1>9 DEF ReferencesOK

\* A page of them is told.
LEMMA ReferencesPaged ==
  ASSUME GraphOK, IsFiniteSet(project.symbols), NEW c, ReferencesOK(c), c.pc \in {"asked", "more"},
         NEW d, d = Turn(c, Page(References(c), c), Len(References(c)) > c.offset + c.limit)
  PROVE  ReferencesOK(d)
<1> DEFINE all == References(c)
           page == Page(all, c)
           more == Len(all) > c.offset + c.limit
<1>1. /\ Asking \subseteq DOMAIN c /\ Fields \subseteq DOMAIN c /\ ToldOK(c)
      /\ c.limit \in Nat /\ c.offset \in Nat /\ Lists(c.told)
      /\ \A x \in {"id", "tool", "scope"} : x \in DOMAIN c \ Fields
  BY DEF ReferencesOK, Naming, Asking, Fields, ToldOK
<1>2. List(all) /\ IsInjective(all) /\ Len(all) \in Nat
  BY ReferencesAre, ListIs DEF ReferencesOK
<1> HIDE DEF all
<1>3. List(page) /\ IsInjective(page) /\ more \in BOOLEAN
  BY <1>1, <1>2, PageIs
<1>4. d = Turn(c, page, more)
  BY DEF all
<1>9. /\ more => c.offset + c.limit <= Len(all)
      /\ ~more => Len(all) <= c.offset + c.limit
  BY <1>1, <1>2
<1> HIDE DEF page, more
<1>5. /\ DOMAIN d = DOMAIN c /\ ToldOK(d)
      /\ d.pc = (IF more THEN "more" ELSE "done")
      /\ \A x \in DOMAIN c \ Fields : d[x] = c[x]
      /\ d.limit = c.limit
  BY <1>1, <1>3, <1>4, TurnIsOK
<1>6. d.id = c.id /\ d.tool = c.tool /\ d.scope = c.scope
  BY <1>1, <1>5
<1>7. References(d) = all
  BY <1>6 DEF References, all
<1>8. Paged(c, all)
  BY DEF ReferencesOK, all
<1>10. /\ d.pc \in {"more", "done"}
       /\ d.pc = "more" => Paged(d, all)
       /\ d.pc = "done" => FlattenSeq(d.told) = all
  BY <1>1, <1>2, <1>3, <1>4, <1>5, <1>8, <1>9, TurnTells DEF page
<1> QED
  BY <1>1, <1>5, <1>6, <1>7, <1>10 DEF ReferencesOK

\* Files that change are nothing to them.
LEMMA ReferencesEdited ==
  ASSUME NEW c, ReferencesOK(c), NEW d, d = [c EXCEPT !.edited = TRUE]
  PROVE  ReferencesOK(d)
<1>1. /\ DOMAIN d = DOMAIN c /\ \A x \in DOMAIN c \ {"edited"} : d[x] = c[x]
      /\ d.edited = TRUE
  BY DEF ReferencesOK, Naming, Asking
<1>2. \A x \in {"pc", "told", "limit", "offset", "id", "tool", "scope"} : x \in DOMAIN c \ {"edited"}
  BY DEF ReferencesOK, Naming, Asking, Fields
<1>3. ToldOK(d)
  BY <1>1, <1>2 DEF ReferencesOK, ToldOK
<1>4. References(d) = References(c)
  BY <1>1, <1>2 DEF References
<1> QED
  BY <1>1, <1>2, <1>3, <1>4 DEF ReferencesOK, Paged

\* Nothing is told of them at first.
LEMMA ReferencesBegin ==
  ASSUME GraphOK, IsFiniteSet(project.symbols), NEW c, Naming \subseteq DOMAIN c, c.pc = "asked",
         c.limit \in Nat, c.offset = 0, c.told = << >>, c.edited = FALSE, Indexed(c.id)
  PROVE  ReferencesOK(c)
<1>1. Lists(<< >>) /\ FlattenSeq(<< >>) = << >> /\ Len(<< >>) = 0
  BY FlattenNothing
<1>2. ToldOK(c)
  <2>1. \A i \in 1..Len(c.told) : IsInjective(c.told[i])
    BY <1>1
  <2>2. c.offset \in Nat /\ Lists(c.told)
    BY <1>1
  <2>3. c.edited \in BOOLEAN
    OBVIOUS
  <2> QED
    BY <2>1, <2>2, <2>3 DEF ToldOK
<1>3. Paged(c, References(c))
  <2> DEFINE all == References(c)
  <2>1. List(all) /\ Len(all) \in Nat
    BY ReferencesAre, ListIs
  <2> HIDE DEF all
  <2>2. List(SubSeq(all, 1, 0)) /\ Len(SubSeq(all, 1, 0)) = 0
    BY <2>1, StartOfList
  <2>3. SubSeq(all, 1, 0) = << >>
    BY <2>2, EmptyList, SameList
  <2>4. c.offset <= Len(all) /\ SubSeq(all, 1, c.offset) = << >> /\ FlattenSeq(c.told) = << >>
    BY <1>1, <2>1, <2>3
  <2> QED
    BY <2>4 DEF Paged, all
<1> QED
  BY <1>2, <1>3 DEF ReferencesOK

\* At the end the pages have them all.
LEMMA ReferencesAllTold ==
  ASSUME GraphOK, IsFiniteSet(project.symbols), NEW c, ReferencesOK(c), c.pc = "done"
  PROVE  IsInjective(Told1(c)) /\ ReferencesTold(c, Told1(c))
<1>1. Told1(c) = References(c)
  BY DEF ReferencesOK, Told1
<1>2. /\ IsInjective(References(c))
      /\ \A i, j \in DOMAIN References(c) : i < j => References(c)[i].confidence >= References(c)[j].confidence
  BY ReferencesAre DEF ReferencesOK
<1> QED
  BY <1>1, <1>2 DEF ReferencesTold

-----------------------------------------------------------------------------
(* A search for contents: the lines of a file that hold what is looked for, *)
(* from the first to the last.                                             *)
Holding(lines, q) == {i \in DOMAIN lines : Columns(q, lines[i]) # {}}

\* A match is one of these lines.
HeldBy(m, f, lines, q) == \E i \in Holding(lines, q) : m = ContentMatch(f, lines, q, i)

\* What is found in the lines of a file: each line that holds it, in order.
LEMMA MatchesAre ==
  ASSUME NEW f, NEW lines, List(lines), NEW q, NEW v, v = MatchesIn(f, lines, q)
  PROVE  /\ List(v) /\ IsInjective(v)
         /\ \A m : m \in ToSet(v) <=> HeldBy(m, f, lines, q)
         /\ \A m \in ToSet(v) : m.file = f /\ m.line \in Nat
         /\ \A i, j \in 1..Len(v) : i < j => v[i].line < v[j].line
<1> DEFINE S == Holding(lines, q)
           hits == Ordered(S, LAMBDA i, j : i < j)
           n == Cardinality(S)
<1>1. DOMAIN lines = 1..Len(lines) /\ Len(lines) \in Nat
  BY ListIs
<1>2. S \in SUBSET Nat /\ IsFiniteSet(S)
  <2>1. S \subseteq 1..Len(lines)
    BY <1>1 DEF Holding
  <2>2. IsFiniteSet(1..Len(lines))
    <3>1. \A k \in Nat : IsFiniteSet(1..k)
      BY FS_Interval
    <3> QED
      BY <1>1, <3>1
  <2> QED
    BY <2>1, <2>2, FS_Subset
<1>3. v = [i \in DOMAIN hits |-> ContentMatch(f, lines, q, hits[i])]
  BY Zenon DEF MatchesIn, Holding
<1> HIDE DEF S
<1>4. /\ List(hits) /\ Len(hits) = n /\ ToSet(hits) = S
      /\ \A i, j \in 1..Len(hits) : i < j => hits[i] < hits[j]
  BY <1>2, NumbersSorted, Zenon
<1> HIDE DEF hits
<1>5. DOMAIN hits = 1..n /\ n \in Nat /\ \A i \in 1..n : hits[i] \in S
  BY <1>4, ListIs
<1> HIDE DEF n
<1>6. \A i : ContentMatch(f, lines, q, i).file = f /\ ContentMatch(f, lines, q, i).line = i
  BY DEF ContentMatch
<1>7. DOMAIN v = 1..n /\ v = [i \in 1..n |-> v[i]] /\ \A i \in 1..n : v[i] = ContentMatch(f, lines, q, hits[i])
  <2> DEFINE at(i) == ContentMatch(f, lines, q, hits[i])
  <2>1. v = [i \in 1..n |-> at(i)]
    BY <1>3, <1>5
  <2>2. \A i \in 1..n : at(i) = ContentMatch(f, lines, q, hits[i])
    OBVIOUS
  <2> HIDE DEF at
  <2> QED
    BY <2>1, <2>2
<1>8. List(v) /\ Len(v) = n
  BY <1>5, <1>7, ListMade
<1>9. \A m : m \in ToSet(v) <=> \E i \in S : m = ContentMatch(f, lines, q, i)
  <2>1. S = {hits[i] : i \in 1..n}
    BY <1>4, <1>5 DEF ToSet
  <2>2. ToSet(v) = {v[i] : i \in 1..n}
    BY <1>7 DEF ToSet
  <2>3. \A m : m \in ToSet(v) <=> \E i \in 1..n : m = ContentMatch(f, lines, q, hits[i])
    BY <1>7, <2>2
  <2> QED
    BY <2>1, <2>3
<1>10. \A i, j \in 1..n : i < j => v[i].line < v[j].line
  <2> SUFFICES ASSUME NEW i \in 1..n, NEW j \in 1..n, i < j PROVE v[i].line < v[j].line
    OBVIOUS
  <2>1. v[i].line = hits[i] /\ v[j].line = hits[j]
    BY <1>6, <1>7
  <2> QED
    BY <1>4, <2>1
<1>11. \A m \in ToSet(v) : m.file = f /\ m.line \in Nat
  BY <1>2, <1>6, <1>9
<1>12. IsInjective(v)
  <2>1. \A i \in 1..n : v[i].line \in Nat
    BY <1>8, <1>11, ListIs
  <2>2. \A i, j \in 1..n : i = j \/ i < j \/ j < i
    BY <1>5
  <2>3. \A i, j \in 1..n : i < j => v[i] # v[j]
    BY <1>10, <2>1
  <2> QED
    BY <1>7, <2>2, <2>3 DEF IsInjective
<1> QED
  BY <1>8, <1>9, <1>10, <1>11, <1>12 DEF S, HeldBy

\* What is held, of which files, in the order it is found.
Searched1(q) == {f \in DOMAIN tree : Searchable(f, tree[f], q, DOMAIN tree)}
LinesFound(q) == UNION {{ContentMatch(f, tree[f].lines, q, i) : i \in Holding(tree[f].lines, q)} : f \in Searched1(q)}
MatchKey(q) == [m \in LinesFound(q) |-> <<PositionIn(SearchedFiles(q), m.file), m.line, 0>>]

\* The files that are searched, as the walk meets them.
LEMMA SearchedFilesAre ==
  ASSUME TreeOK, NEW q
  PROVE  LET F == SearchedFiles(q)
         IN /\ List(F) /\ IsInjective(F) /\ ToSet(F) = Searched1(q) /\ IsFiniteSet(Searched1(q))
            /\ \A i, j \in 1..Len(F) : i < j => PositionIn(ByWalk, F[i]) < PositionIn(ByWalk, F[j])
<1> DEFINE F == SearchedFiles(q)
<1>1. List(ByWalk) /\ IsInjective(ByWalk) /\ ToSet(ByWalk) = DOMAIN tree
  BY TreesAssumption DEF List, TreeOK
<1>2. F = InTurn(ByWalk, Searched1(q))
  BY DEF SearchedFiles, Searched1
<1>3. Searched1(q) \subseteq DOMAIN tree
  BY DEF Searched1
<1> HIDE DEF F
<1>4. /\ List(F) /\ IsInjective(F) /\ ToSet(F) = Searched1(q) \cap ToSet(ByWalk)
      /\ \A i, j \in 1..Len(F) : i < j => PositionIn(ByWalk, F[i]) < PositionIn(ByWalk, F[j])
  BY <1>1, <1>2, SomeInTurn
<1>5. ToSet(F) = Searched1(q)
  BY <1>1, <1>3, <1>4
<1>6. IsFiniteSet(Searched1(q))
  BY <1>4, <1>5, MembersAreFinite
<1> QED
  BY <1>4, <1>5, <1>6 DEF F

\* A match has the file and the line it was found in.
LEMMA MatchIs ==
  ASSUME NEW q, NEW m
  PROVE  m \in LinesFound(q) <=> \E f \in Searched1(q) : \E i \in Holding(tree[f].lines, q) : m = ContentMatch(f, tree[f].lines, q, i)
BY DEF LinesFound

\* The matches of a search that are in one file are what is found in it.
LEMMA MatchesOfFile ==
  ASSUME TreeOK, NEW q, NEW f \in Searched1(q), NEW v, v = MatchesIn(f, tree[f].lines, q)
  PROVE  /\ List(v) /\ IsInjective(v) /\ ToSet(v) = {m \in LinesFound(q) : m.file = f}
         /\ \A m \in ToSet(v) : m.file = f /\ m.line \in Nat
         /\ \A i, j \in 1..Len(v) : i < j => v[i].line < v[j].line
<1> DEFINE lines == tree[f].lines
<1>1. List(lines)
  BY DEF TreeOK, WellFormed, List, Searched1
<1>2. /\ List(v) /\ IsInjective(v)
      /\ \A m : m \in ToSet(v) <=> \E i \in Holding(lines, q) : m = ContentMatch(f, lines, q, i)
      /\ \A m \in ToSet(v) : m.file = f /\ m.line \in Nat
      /\ \A i, j \in 1..Len(v) : i < j => v[i].line < v[j].line
  <2>1. List(lines) /\ v = MatchesIn(f, lines, q)
    BY <1>1
  <2> HIDE DEF lines
  <2>2. List(v) /\ IsInjective(v) /\ \A m \in ToSet(v) : m.file = f /\ m.line \in Nat
    BY ONLY <2>1, MatchesAre
  <2>3. \A m : m \in ToSet(v) <=> HeldBy(m, f, lines, q)
    BY ONLY <2>1, MatchesAre
  <2>4. \A i, j \in 1..Len(v) : i < j => v[i].line < v[j].line
    BY ONLY <2>1, MatchesAre
  <2> QED
    BY ONLY <2>2, <2>3, <2>4 DEF HeldBy
<1>3. \A g, i : ContentMatch(g, tree[g].lines, q, i).file = g
  BY DEF ContentMatch
<1>4. \A m : m \in ToSet(v) <=> m \in LinesFound(q) /\ m.file = f
  <2> SUFFICES ASSUME NEW m PROVE m \in ToSet(v) <=> m \in LinesFound(q) /\ m.file = f
    OBVIOUS
  <2>1. m \in LinesFound(q) /\ m.file = f <=> \E i \in Holding(tree[f].lines, q) : m = ContentMatch(f, tree[f].lines, q, i)
    <3>1. m \in LinesFound(q) <=> \E g \in Searched1(q) : \E i \in Holding(tree[g].lines, q) : m = ContentMatch(g, tree[g].lines, q, i)
      BY MatchIs
    <3> QED
      BY <1>3, <3>1
  <2>2. m \in ToSet(v) <=> \E i \in Holding(tree[f].lines, q) : m = ContentMatch(f, tree[f].lines, q, i)
    BY <1>2
  <2> QED
    BY <2>1, <2>2
<1> QED
  BY <1>2, <1>4

\* LinesFound are told apart by file and line.
LEMMA MatchesKeyed ==
  ASSUME TreeOK, NEW q
  PROVE  /\ Keyed(LinesFound(q), MatchKey(q))
         /\ \A m \in LinesFound(q) : /\ m.file \in Searched1(q)
                                  /\ MatchKey(q)[m][1] = PositionIn(SearchedFiles(q), m.file)
                                  /\ MatchKey(q)[m][1] \in 1..Len(SearchedFiles(q))
                                  /\ MatchKey(q)[m][2] = m.line /\ MatchKey(q)[m][3] = 0
<1> DEFINE K == MatchKey(q)
           F == SearchedFiles(q)
           M == LinesFound(q)
<1>1. \A m \in M : K[m][1] = PositionIn(F, m.file) /\ K[m][2] = m.line /\ K[m][3] = 0
  BY DEF MatchKey
<1>2. List(F) /\ ToSet(F) = Searched1(q) /\ IsFiniteSet(Searched1(q)) /\ Len(F) \in Nat
  BY SearchedFilesAre, ListIs
<1>3. \A m \in M : m.file \in Searched1(q)
  <2> SUFFICES ASSUME NEW m \in M PROVE m.file \in Searched1(q)
    OBVIOUS
  <2>1. PICK g \in Searched1(q) : \E i \in Holding(tree[g].lines, q) : m = ContentMatch(g, tree[g].lines, q, i)
    BY MatchIs
  <2>2. m.file = g
    BY <2>1 DEF ContentMatch
  <2> QED
    BY <2>2
<1> DEFINE of == [f \in Searched1(q) |-> ToSet(MatchesIn(f, tree[f].lines, q))]
           all == {of[f] : f \in Searched1(q)}
<1>4. \A f \in Searched1(q) : /\ of[f] = {m \in M : m.file = f} /\ IsFiniteSet(of[f])
                              /\ \A m \in of[f] : m.line \in Nat
  <2> SUFFICES ASSUME NEW f \in Searched1(q)
               PROVE  of[f] = {m \in M : m.file = f} /\ IsFiniteSet(of[f]) /\ \A m \in of[f] : m.line \in Nat
    OBVIOUS
  <2> DEFINE v == MatchesIn(f, tree[f].lines, q)
  <2>1. List(v) /\ ToSet(v) = {m \in M : m.file = f} /\ \A m \in ToSet(v) : m.line \in Nat
    BY MatchesOfFile
  <2>2. of[f] = ToSet(v)
    OBVIOUS
  <2> HIDE DEF v, of
  <2> QED
    BY <2>1, <2>2, MembersAreFinite
<1>5. DOMAIN of = Searched1(q)
  OBVIOUS
<1> HIDE DEF of
<1>6. IsFiniteSet(all)
  BY <1>2, <1>5, ImageIsFinite
<1>7. \A T \in all : IsFiniteSet(T)
  BY <1>4
<1>8. IsFiniteSet(UNION all)
  <2> HIDE DEF all
  <2> QED
    BY <1>6, <1>7, FS_UNION
<1>9. M \subseteq UNION all
  BY <1>3, <1>4
<1>10. IsFiniteSet(M)
  BY <1>8, <1>9, FS_Subset
<1>11. \A m \in M : m.line \in Nat /\ PositionIn(F, m.file) \in 1..Len(F)
  <2>1. \A f \in ToSet(F) : PositionIn(F, f) \in 1..Len(F)
    BY <1>2, PositionIs
  <2>2. \A m \in M : m.line \in Nat
    BY <1>3, <1>4
  <2> QED
    BY <1>2, <1>3, <2>1, <2>2
<1>12. ASSUME NEW m \in M, NEW o \in M, K[m][1] = K[o][1], K[m][2] = K[o][2] PROVE m = o
  <2>1. m.file = o.file /\ m.line = o.line
    <3>1. PositionIn(F, m.file) = PositionIn(F, o.file) /\ m.line = o.line
      BY <1>1, <1>12
    <3>2. \A f, g \in ToSet(F) : PositionIn(F, f) = PositionIn(F, g) => f = g
      BY <1>2, PositionIs
    <3> QED
      BY <1>2, <1>3, <3>1, <3>2
  <2>2. ASSUME NEW x \in M PROVE x = ContentMatch(x.file, tree[x.file].lines, q, x.line)
    <3>1. PICK g \in Searched1(q) : \E i \in Holding(tree[g].lines, q) : x = ContentMatch(g, tree[g].lines, q, i)
      BY MatchIs
    <3>2. PICK i \in Holding(tree[g].lines, q) : x = ContentMatch(g, tree[g].lines, q, i)
      BY <3>1
    <3>3. x.file = g /\ x.line = i
      BY <3>2 DEF ContentMatch
    <3> QED
      BY <3>2, <3>3
  <2> QED
    BY <2>1, <2>2
<1> HIDE DEF K
<1>13. Keyed(M, K)
  <2>1. \A m \in M : K[m][1] \in Int /\ K[m][2] \in Int /\ K[m][3] \in Int
    BY <1>1, <1>2, <1>11
  <2> QED
    BY <1>10, <1>12, <2>1 DEF Keyed
<1> QED
  BY <1>1, <1>3, <1>11, <1>13 DEF K

-----------------------------------------------------------------------------
(* What is skipped of a list, and what is taken of it, when more is found. *)
LEMMA SkipCounts ==
  ASSUME NEW n \in Nat, NEW l \in Nat, NEW offset \in Nat,
         NEW s, s = (IF offset <= n THEN offset ELSE n),
         NEW skip, skip = (IF l <= offset - s THEN l ELSE offset - s),
         NEW t, t = s + skip, NEW m, m = n + l
  PROVE  /\ s \in Nat /\ s <= n /\ skip \in Nat /\ skip <= l /\ t \in Nat /\ m \in Nat
         /\ t = (IF offset <= m THEN offset ELSE m) /\ t <= m /\ n <= m
         /\ (s < n => skip = 0 /\ t = s) /\ (n - s) + (l - skip) = m - t
<1>1. CASE offset <= n
  <2>1. s = offset /\ offset - s = 0 /\ skip = 0
    BY <1>1
  <2> QED
    BY <1>1, <2>1
<1>2. CASE ~(offset <= n)
  <2>1. s = n
    BY <1>2
  <2>2. CASE l <= offset - n
    BY <1>2, <2>1, <2>2
  <2>3. CASE ~(l <= offset - n)
    BY <1>2, <2>1, <2>3
  <2> QED
    BY <2>2, <2>3
<1> QED
  BY <1>1, <1>2

(* A page of an answer that is gathered part by part: all[1..n] is had, v  *)
(* is the next part, and what is before the offset is skipped.             *)
Part(s, m, n) == SubSeq(s, m + 1, n)
Took(all, n, v, l, m, offset, limit, s, usages, skip, t, fresh, room, upto) ==
  /\ List(all) /\ n \in Nat /\ List(v) /\ l = Len(v) /\ m = n + l /\ m <= Len(all)
  /\ \A i \in 1..l : v[i] = all[n + i]
  /\ offset \in Nat /\ limit \in Nat /\ s = (IF offset <= n THEN offset ELSE n)
  /\ usages = SubSeq(all, s + 1, n) /\ Len(usages) <= limit
  /\ skip = (IF l <= offset - s THEN l ELSE offset - s) /\ t = s + skip
  /\ fresh = SubSeq(v, skip + 1, l) /\ room = limit - Len(usages) /\ upto = offset + limit

\* What was taken so far, and what is fresh of the next part, is a part of all.
LEMMA SkipAndTake ==
  ASSUME NEW all, NEW n, NEW v, NEW l, NEW m, NEW offset, NEW limit, NEW s, NEW usages, NEW skip, NEW t,
         NEW fresh, NEW room, NEW upto, Took(all, n, v, l, m, offset, limit, s, usages, skip, t, fresh, room, upto)
  PROVE  /\ t = (IF offset <= m THEN offset ELSE m)
         /\ usages \o fresh = Part(all, t, m)
         /\ Len(fresh) <= room => Len(usages \o fresh) <= limit
         /\ Len(fresh) > room => usages \o Part(fresh, 0, room) = Part(all, offset, upto) /\ upto <= Len(all)
<1> SUFFICES ASSUME List(all), n \in Nat, List(v), l = Len(v), m = n + l, m <= Len(all),
                    \A i \in 1..l : v[i] = all[n + i], offset \in Nat, limit \in Nat,
                    s = (IF offset <= n THEN offset ELSE n),
                    usages = SubSeq(all, s + 1, n), Len(usages) <= limit,
                    skip = (IF l <= offset - s THEN l ELSE offset - s), t = s + skip,
                    fresh = SubSeq(v, skip + 1, l), room = limit - Len(usages),
                    upto = offset + limit
             PROVE  /\ t = (IF offset <= m THEN offset ELSE m)
                    /\ usages \o fresh = SubSeq(all, t + 1, m)
                    /\ Len(fresh) <= room => Len(usages \o fresh) <= limit
                    /\ Len(fresh) > room =>
                         /\ usages \o SubSeq(fresh, 1, room) = SubSeq(all, offset + 1, offset + limit)
                         /\ offset + limit <= Len(all)
  <2>1. 0 + 1 = 1
    OBVIOUS
  <2> QED
    BY <2>1 DEF Took, Part
<1> DEFINE w == usages \o fresh
<1>0. n \in Nat /\ offset \in Nat /\ limit \in Nat
  OBVIOUS
<1>1. l \in Nat /\ Len(all) \in Nat
  BY ListIs
<1>2. /\ s \in Nat /\ s <= n /\ skip \in Nat /\ skip <= l /\ t \in Nat /\ m \in Nat
      /\ t = (IF offset <= m THEN offset ELSE m) /\ t <= m /\ n <= m
      /\ (s < n => skip = 0 /\ t = s) /\ (n - s) + (l - skip) = m - t
  <2>1. /\ n \in Nat /\ l \in Nat /\ offset \in Nat /\ s = (IF offset <= n THEN offset ELSE n)
        /\ skip = (IF l <= offset - s THEN l ELSE offset - s) /\ t = s + skip /\ m = n + l
    BY <1>1
  <2> QED
    BY ONLY <1>0, <2>1, SkipCounts
<1>3. List(usages) /\ Len(usages) = n - s /\ \A i \in 1..(n - s) : usages[i] = all[s + i]
  <2>1. n <= Len(all)
    BY <1>1, <1>2
  <2>2. /\ List(SubSeq(all, s + 1, n)) /\ Len(SubSeq(all, s + 1, n)) = (IF s <= n THEN n - s ELSE 0)
        /\ \A i \in 1..(n - s) : SubSeq(all, s + 1, n)[i] = all[s + i]
    <3>1. s \in Nat /\ n \in Nat /\ n <= Len(all) /\ List(all)
      BY <1>0, <1>2, <2>1
    <3> QED
      BY ONLY <3>1, PartOfList
  <2> QED
    BY ONLY <1>0, <1>2, <2>2, usages = SubSeq(all, s + 1, n)
<1>4. List(fresh) /\ Len(fresh) = l - skip /\ \A i \in 1..(l - skip) : fresh[i] = v[skip + i]
  <2>1. l <= Len(v)
    BY <1>1
  <2>2. /\ List(SubSeq(v, skip + 1, l)) /\ Len(SubSeq(v, skip + 1, l)) = (IF skip <= l THEN l - skip ELSE 0)
        /\ \A i \in 1..(l - skip) : SubSeq(v, skip + 1, l)[i] = v[skip + i]
    BY ONLY <1>0, <1>1, <1>2, <2>1, List(v), PartOfList
  <2> QED
    BY ONLY <1>0, <1>2, <2>2, fresh = SubSeq(v, skip + 1, l)
<1>5. \A i \in 1..(l - skip) : fresh[i] = all[n + skip + i]
  <2> SUFFICES ASSUME NEW i \in 1..(l - skip) PROVE fresh[i] = all[n + skip + i]
    OBVIOUS
  <2>1. skip + i \in 1..l /\ n + (skip + i) = n + skip + i
    BY ONLY <1>0, <1>1, <1>2, i \in 1..(l - skip), n \in Nat
  <2> QED
    BY <1>4, <2>1
<1>6. /\ List(w) /\ Len(w) = m - t
      /\ \A i \in 1..(n - s) : w[i] = usages[i]
      /\ \A i \in 1..(l - skip) : w[(n - s) + i] = fresh[i]
  <2>1. /\ List(w) /\ Len(w) = Len(usages) + Len(fresh)
        /\ \A i \in 1..Len(usages) : w[i] = usages[i]
        /\ \A i \in 1..Len(fresh) : w[Len(usages) + i] = fresh[i]
    <3>1. List(usages) /\ List(fresh)
      BY <1>3, <1>4
    <3> QED
      BY ONLY <1>0, <3>1, JoinedList
  <2> HIDE DEF w
  <2> QED
    BY ONLY <1>0, <1>2, <1>3, <1>4, <2>1
<1>7. List(SubSeq(all, t + 1, m)) /\ Len(SubSeq(all, t + 1, m)) = m - t /\ \A i \in 1..(m - t) : SubSeq(all, t + 1, m)[i] = all[t + i]
  <2>1. /\ List(SubSeq(all, t + 1, m)) /\ Len(SubSeq(all, t + 1, m)) = (IF t <= m THEN m - t ELSE 0)
        /\ \A i \in 1..(m - t) : SubSeq(all, t + 1, m)[i] = all[t + i]
    BY ONLY <1>0, <1>2, m <= Len(all), List(all), PartOfList
  <2> QED
    BY ONLY <1>0, <1>2, <2>1
<1> HIDE DEF w
<1>8. \A i \in 1..(m - t) : w[i] = all[t + i]
  <2> SUFFICES ASSUME NEW i \in 1..(m - t) PROVE w[i] = all[t + i]
    OBVIOUS
  <2>1. CASE i <= n - s
    <3>1. i \in 1..(n - s) /\ t = s
      BY ONLY <1>0, <1>2, <2>1, i \in 1..(m - t), n \in Nat
    <3> QED
      BY ONLY <1>0, <1>3, <1>6, <3>1
  <2>2. CASE i > n - s
    <3>1. i - (n - s) \in 1..(l - skip) /\ (n - s) + (i - (n - s)) = i /\ n + skip + (i - (n - s)) = t + i
      BY ONLY <1>0, <1>1, <1>2, <2>2, i \in 1..(m - t), n \in Nat, t = s + skip
    <3>2. w[(n - s) + (i - (n - s))] = fresh[i - (n - s)] /\ fresh[i - (n - s)] = all[n + skip + (i - (n - s))]
      BY ONLY <1>0, <1>5, <1>6, <3>1
    <3> QED
      BY ONLY <1>0, <3>1, <3>2
  <2>3. i <= n - s \/ i > n - s
    BY ONLY <1>0, <1>2, i \in 1..(m - t), n \in Nat
  <2> QED
    BY ONLY <1>0, <2>1, <2>2, <2>3
<1>9. w = SubSeq(all, t + 1, m)
  BY ONLY <1>0, <1>6, <1>7, <1>8, SameList
<1>10. Len(fresh) <= room => Len(w) <= limit
  BY ONLY <1>0, <1>1, <1>2, <1>3, <1>4, <1>6, room = limit - Len(usages), limit \in Nat, n \in Nat
<1>11. ASSUME Len(fresh) > room
       PROVE  usages \o SubSeq(fresh, 1, room) = SubSeq(all, offset + 1, offset + limit) /\ offset + limit <= Len(all)
  <2> DEFINE some == SubSeq(fresh, 1, room)
             u == usages \o some
             x == SubSeq(all, offset + 1, offset + limit)
  <2>1. room \in Nat /\ room <= Len(fresh) /\ room = limit - (n - s) /\ limit < m - t
    <3>1. room = limit - (n - s) /\ n - s <= limit /\ l - skip > room
      BY <1>3, <1>4, <1>11
    <3>2. room \in Nat /\ room <= l - skip
      BY <1>1, <1>2, <3>1
    <3>3. limit < m - t
      <4>1. /\ n \in Int /\ s \in Int /\ l \in Int /\ skip \in Int /\ limit \in Int /\ m - t \in Int
            /\ (n - s) + (l - skip) = m - t /\ l - skip > limit - (n - s)
        BY <1>1, <1>2, <3>1
      <4> QED
        BY ONLY <1>0, <4>1
    <3> QED
      BY <1>4, <3>1, <3>2, <3>3
  <2>2. t = offset /\ offset + limit <= m /\ offset + limit <= Len(all)
    BY ONLY <1>0, <1>1, <1>2, <2>1, limit \in Nat, offset \in Nat, m <= Len(all)
  <2>3. List(some) /\ Len(some) = room /\ \A i \in 1..room : some[i] = fresh[i]
    BY ONLY <1>0, <1>4, <2>1, StartOfList
  <2> HIDE DEF some
  <2>4. /\ List(u) /\ Len(u) = limit
        /\ \A i \in 1..(n - s) : u[i] = usages[i]
        /\ \A i \in 1..room : u[(n - s) + i] = some[i]
    <3>1. /\ List(u) /\ Len(u) = Len(usages) + Len(some)
          /\ \A i \in 1..Len(usages) : u[i] = usages[i]
          /\ \A i \in 1..Len(some) : u[Len(usages) + i] = some[i]
      <4>1. List(usages) /\ List(some)
        BY <1>3, <2>3
      <4> QED
        BY ONLY <1>0, <4>1, JoinedList
    <3> HIDE DEF u
    <3> QED
      BY ONLY <1>0, <1>2, <1>3, <2>1, <2>3, <3>1, n \in Nat, limit \in Nat
  <2> HIDE DEF u
  <2>5. List(x) /\ Len(x) = limit /\ \A i \in 1..limit : x[i] = all[offset + i]
    <3> DEFINE e == offset + limit
    <3>1. e \in Nat /\ e - offset = limit /\ offset <= e /\ e <= Len(all)
      BY ONLY <1>0, <2>2, limit \in Nat, offset \in Nat
    <3> HIDE DEF e
    <3>2. /\ List(SubSeq(all, offset + 1, e)) /\ Len(SubSeq(all, offset + 1, e)) = (IF offset <= e THEN e - offset ELSE 0)
          /\ \A i \in 1..(e - offset) : SubSeq(all, offset + 1, e)[i] = all[offset + i]
      BY ONLY <1>0, <3>1, offset \in Nat, List(all), PartOfList
    <3>3. x = SubSeq(all, offset + 1, e)
      BY DEF e
    <3> HIDE DEF x
    <3> QED
      BY ONLY <1>0, <3>1, <3>2, <3>3
  <2> HIDE DEF x
  <2>6. \A i \in 1..limit : u[i] = w[i]
    <3> SUFFICES ASSUME NEW i \in 1..limit PROVE u[i] = w[i]
      OBVIOUS
    <3>1. CASE i <= n - s
      <4>1. i \in 1..(n - s)
        BY ONLY <1>0, <1>2, <3>1, i \in 1..limit, n \in Nat
      <4> QED
        BY ONLY <1>0, <1>6, <2>4, <4>1
    <3>2. CASE i > n - s
      <4>1. i - (n - s) \in 1..room /\ i - (n - s) \in 1..(l - skip) /\ (n - s) + (i - (n - s)) = i
        BY ONLY <1>0, <1>1, <1>2, <1>4, <2>1, <3>2, i \in 1..limit, n \in Nat
      <4>2. /\ u[(n - s) + (i - (n - s))] = some[i - (n - s)] /\ some[i - (n - s)] = fresh[i - (n - s)]
            /\ w[(n - s) + (i - (n - s))] = fresh[i - (n - s)]
        BY ONLY <1>0, <1>6, <2>3, <2>4, <4>1
      <4> QED
        BY ONLY <1>0, <4>1, <4>2
    <3>3. i <= n - s \/ i > n - s
      BY ONLY <1>0, <1>2, i \in 1..limit, n \in Nat
    <3> QED
      BY ONLY <1>0, <3>1, <3>2, <3>3
  <2>7. \A i \in 1..limit : u[i] = x[i]
    <3>1. \A i \in 1..limit : i \in 1..(m - t)
      BY ONLY <1>0, <1>2, <2>1
    <3> QED
      BY ONLY <1>0, <1>8, <2>2, <2>5, <2>6, <3>1
  <2>8. u = x
    <3>1. Len(u) = Len(x) /\ \A i \in 1..Len(u) : u[i] = x[i]
      BY ONLY <1>0, <2>4, <2>5, <2>7
    <3> QED
      BY ONLY <1>0, <2>4, <2>5, <3>1, SameList
  <2> QED
    BY ONLY <1>0, <2>2, <2>8 DEF u, x, some
<1> QED
  BY ONLY <1>0, <1>2, <1>9, <1>10, <1>11 DEF w

Searching == Asking \cup {"query", "skipped", "steady"}
Asks(q) == Behind(LinesFound(q), MatchKey(q))
ContentApart(c) ==
  /\ c.pc \in {"asked", "more", "content", "done", "failed"}
  /\ c.pc \in {"asked", "more"} => c.usages = << >>
  /\ c.pc = "content" =>
       /\ List(c.usages) /\ IsInjective(c.usages) /\ Len(c.usages) <= c.limit
       /\ List(c.todo) /\ IsInjective(c.todo) /\ ToSet(c.todo) \subseteq ToSet(ByWalk)
       /\ \A u \in ToSet(c.usages) : u.file \notin ToSet(c.todo)
       /\ c.skipped \in Nat /\ c.skipped <= c.offset
ContentFound(c) ==
  \E all :
    /\ Sorted(LinesFound(c.query), Asks(c.query), all)
    /\ c.pc = "done" => FlattenSeq(c.told) = all
    /\ c.pc \in {"asked", "more", "content"} => Paged(c, all)
    /\ c.pc = "content" => \E k \in 0..Len(SearchedFiles(c.query)) : \E n \in 0..Len(all) :
         /\ c.todo = SubSeq(SearchedFiles(c.query), k + 1, Len(SearchedFiles(c.query)))
         /\ Gathered(LinesFound(c.query), MatchKey(c.query), SubSeq(all, 1, n), k + 1)
         /\ c.skipped = (IF c.offset <= n THEN c.offset ELSE n)
         /\ c.usages = SubSeq(all, c.skipped + 1, n)
ContentOK(c) ==
  Searching \subseteq DOMAIN c /\ ToldOK(c) /\ ContentApart(c) /\ (~c.edited => ContentFound(c))

\* What a search has.
LEMMA SearchingIs ==
  ASSUME NEW c, ContentOK(c)
  PROVE  /\ Asking \subseteq DOMAIN c /\ Fields \subseteq DOMAIN c
         /\ \A x \in {"tool", "limit", "edited", "query", "skipped", "steady"} : x \in DOMAIN c \ Fields
         /\ c.limit \in Nat /\ c.offset \in Nat
BY DEF ContentOK, Searching, Asking, Fields, ToldOK

\* While no file changes, a search for contents is as it was.
LEMMA SameContent ==
  ASSUME UNCHANGED tree
  PROVE  \A c : ContentOK(c)' = ContentOK(c)
<1>1. \A q : Searched1(q)' = Searched1(q) /\ SearchedFiles(q)' = SearchedFiles(q)
  BY DEF Searched1, SearchedFiles
<1>2. \A q : LinesFound(q)' = LinesFound(q)
  BY <1>1 DEF LinesFound
<1>3. \A q : MatchKey(q)' = MatchKey(q)
  BY <1>1, <1>2 DEF MatchKey
<1>4. \A q : Asks(q)' = Asks(q)
  BY <1>2, <1>3 DEF Asks
<1>5. ASSUME NEW c PROVE ContentFound(c)' = ContentFound(c)
  <2> DEFINE q == c.query
  <2>1. /\ Searched1(q)' = Searched1(q) /\ SearchedFiles(q)' = SearchedFiles(q) /\ LinesFound(q)' = LinesFound(q)
        /\ MatchKey(q)' = MatchKey(q) /\ Asks(q)' = Asks(q)
    BY <1>1, <1>2, <1>3, <1>4
  <2> QED
    BY ONLY <2>1 DEF ContentFound
<1> QED
  BY <1>5 DEF ContentOK

\* A call fails, and nothing more is told.
LEMMA ContentFails ==
  ASSUME NEW c, ContentOK(c), NEW d, d = [c EXCEPT !.pc = "failed"]
  PROVE  ContentOK(d)
<1>1. /\ DOMAIN d = DOMAIN c /\ \A x \in DOMAIN c \ {"pc"} : d[x] = c[x]
      /\ d.pc = "failed"
  BY SearchingIs DEF Fields
<1>2. \A x \in {"told", "limit", "offset", "edited", "query"} : x \in DOMAIN c \ {"pc"}
  BY DEF ContentOK, Searching, Asking, Fields
<1>3. ToldOK(d)
  BY <1>1, <1>2 DEF ContentOK, ToldOK
<1>4. ContentApart(d)
  BY <1>1 DEF ContentApart
<1>5. ~c.edited => ContentFound(d)
  BY <1>1, <1>2 DEF ContentOK, ContentFound
<1> QED
  BY <1>1, <1>2, <1>3, <1>4, <1>5 DEF ContentOK

\* A call begins with the files there are to search.
LEMMA ContentAsked ==
  ASSUME TreeOK, NEW c, ContentOK(c), c.pc \in {"asked", "more"},
         NEW d, d = [c EXCEPT !.pc = "content", !.skipped = 0, !.todo = SearchedFiles(c.query)]
  PROVE  ContentOK(d)
<1> DEFINE F == SearchedFiles(c.query)
           M == LinesFound(c.query)
           K == MatchKey(c.query)
<1>1. /\ DOMAIN d = DOMAIN c /\ d.pc = "content" /\ d.todo = F /\ d.skipped = 0
      /\ d.told = c.told /\ d.offset = c.offset /\ d.usages = << >> /\ d.limit = c.limit
      /\ d.edited = c.edited /\ d.query = c.query
  BY SearchingIs DEF ContentOK, ContentApart, Fields
<1>2. List(F) /\ IsInjective(F) /\ ToSet(F) \subseteq ToSet(ByWalk) /\ Len(F) \in Nat
  BY SearchedFilesAre, ListIs DEF TreeOK, Searched1
<1>3. ToldOK(d)
  BY <1>1 DEF ContentOK, ToldOK
<1> HIDE DEF F
<1>4. ContentApart(d)
  <2>1. IsInjective(<< >>) /\ Len(<< >>) = 0 /\ ToSet(<< >>) = {} /\ List(<< >>)
    BY EmptyList DEF IsInjective
  <2>2. c.limit \in Nat /\ c.offset \in Nat
    BY SearchingIs
  <2> QED
    BY <1>1, <1>2, <2>1, <2>2 DEF ContentApart
<1>5. ASSUME ~c.edited PROVE ContentFound(d)
  <2>1. PICK all : Sorted(M, Asks(c.query), all) /\ Paged(c, all)
    BY <1>5 DEF ContentOK, ContentFound
  <2>2. List(all) /\ Len(all) \in Nat
    BY <2>1, ListIs DEF Sorted
  <2>3. SubSeq(all, 1, 0) = << >>
    <3>1. List(SubSeq(all, 1, 0)) /\ Len(SubSeq(all, 1, 0)) = 0
      BY <2>2, StartOfList
    <3> QED
      BY <3>1, EmptyList, SameList
  <2>4. Gathered(M, K, SubSeq(all, 1, 0), 0 + 1)
    <3>1. \A m \in M : ~(K[m][1] < 1)
      <4>1. \A m \in M : K[m][1] \in 1..Len(SearchedFiles(c.query))
        BY MatchesKeyed
      <4> QED
        BY <1>2, <4>1 DEF F
    <3> HIDE DEF M, K
    <3>2. 1 \in Int /\ 0 + 1 = 1
      OBVIOUS
    <3>3. Gathered(M, K, << >>, 1)
      BY ONLY <3>1, <3>2, GatheredNothing
    <3> QED
      BY <2>3, <3>2, <3>3
  <2>5. /\ 0 \in 0..Len(F) /\ 0 \in 0..Len(all) /\ d.skipped = (IF d.offset <= 0 THEN d.offset ELSE 0)
    BY <1>1, <1>2, <2>2, SearchingIs
  <2>6. d.todo = SubSeq(F, 0 + 1, Len(F)) /\ d.usages = SubSeq(all, d.skipped + 1, 0)
    <3>1. F \in Seq(ToSet(F))
      BY <1>2 DEF List
    <3>2. SubSeq(F, 1, Len(F)) = F /\ 0 + 1 = 1
      BY <3>1, SubSeqFull
    <3>3. d.todo = SubSeq(F, 0 + 1, Len(F))
      BY <1>1, <3>2 DEF F
    <3>4. d.usages = SubSeq(all, d.skipped + 1, 0)
      BY <1>1, <2>3, <3>2
    <3> QED
      BY <3>3, <3>4
  <2>7. /\ Paged(d, all) /\ d.pc = "content" /\ d.query = c.query /\ F = SearchedFiles(d.query)
        /\ M = LinesFound(d.query) /\ K = MatchKey(d.query)
    BY <1>1, <2>1 DEF Paged, F
  <2> HIDE DEF M, K
  <2> QED
    BY ONLY <2>1, <2>4, <2>5, <2>6, <2>7 DEF ContentFound
<1> QED
  BY <1>1, <1>3, <1>4, <1>5 DEF ContentOK

\* What is found in the next file is what comes next in the order.
Gathers(c, v, all, k, n) ==
  LET F == SearchedFiles(c.query)
  IN /\ Sorted(LinesFound(c.query), Asks(c.query), all) /\ Paged(c, all)
     /\ k + 1 \in 0..Len(F) /\ Tail(c.todo) = SubSeq(F, k + 2, Len(F))
     /\ n + Len(v) <= Len(all) /\ \A i \in 1..Len(v) : v[i] = all[n + i]
     /\ Gathered(LinesFound(c.query), MatchKey(c.query), SubSeq(all, 1, n + Len(v)), k + 2)
     /\ c.skipped = (IF c.offset <= n THEN c.offset ELSE n)
     /\ c.usages = SubSeq(all, c.skipped + 1, n)

\* The next file's matches are the next of all of them.
LEMMA ContentGathers ==
  ASSUME TreeOK, NEW c, ContentOK(c), ~c.edited, c.pc = "content", c.todo # << >>,
         NEW v, v = Found(c)
  PROVE  \E all : \E k \in 0..Len(SearchedFiles(c.query)) : \E n \in 0..Len(all) : Gathers(c, v, all, k, n)
<1> DEFINE q == c.query
           F == SearchedFiles(q)
           M == LinesFound(q)
           K == MatchKey(q)
           f == Head(c.todo)
<1>1. PICK all : /\ Sorted(M, Asks(q), all) /\ Paged(c, all)
                 /\ \E k \in 0..Len(F) : \E n \in 0..Len(all) :
                      /\ c.todo = SubSeq(F, k + 1, Len(F)) /\ Gathered(M, K, SubSeq(all, 1, n), k + 1)
                      /\ c.skipped = (IF c.offset <= n THEN c.offset ELSE n)
                      /\ c.usages = SubSeq(all, c.skipped + 1, n)
  BY DEF ContentOK, ContentFound
<1>2. PICK k \in 0..Len(F), n \in 0..Len(all) :
        /\ c.todo = SubSeq(F, k + 1, Len(F)) /\ Gathered(M, K, SubSeq(all, 1, n), k + 1)
        /\ c.skipped = (IF c.offset <= n THEN c.offset ELSE n)
        /\ c.usages = SubSeq(all, c.skipped + 1, n)
  BY <1>1
<1>3. List(F) /\ IsInjective(F) /\ ToSet(F) = Searched1(q) /\ Len(F) \in Nat /\ DOMAIN F = 1..Len(F)
  BY SearchedFilesAre, ListIs
<1>4. List(all) /\ Len(all) \in Nat
  BY <1>1, ListIs DEF Sorted
<1> HIDE DEF F
<1>5. k + 1 \in 1..Len(F) /\ f = F[k + 1] /\ Tail(c.todo) = SubSeq(F, k + 2, Len(F))
  BY <1>2, <1>3, RestOfList
<1>6. f \in Searched1(q)
  <2>1. f \in ToSet(F)
    BY <1>3, <1>5 DEF ToSet
  <2> QED
    BY <1>3, <2>1
<1>7. /\ List(v) /\ ToSet(v) = {m \in M : m.file = f}
      /\ \A i, j \in 1..Len(v) : i < j => v[i].line < v[j].line
  <2>1. v = MatchesIn(f, tree[f].lines, q)
    BY DEF Found
  <2> HIDE DEF f, q
  <2> QED
    BY <1>6, <2>1, MatchesOfFile
<1> HIDE DEF f
<1>8. Keyed(M, K) /\ \A m \in M : /\ m.file \in Searched1(q) /\ K[m][1] = PositionIn(F, m.file)
                                  /\ K[m][2] = m.line /\ K[m][3] = 0
  BY MatchesKeyed DEF F
<1> HIDE DEF M, K
<1>9. PositionIn(F, f) = k + 1 /\ \A g \in Searched1(q) : PositionIn(F, g) = k + 1 => g = f
  <2>1. /\ \A g \in ToSet(F) : PositionIn(F, g) \in 1..Len(F) /\ F[PositionIn(F, g)] = g
    BY <1>3, PositionIs
  <2> QED
    BY <1>3, <1>5, <1>6, <2>1 DEF IsInjective
<1>10. ToSet(v) = {m \in M : K[m][1] = k + 1}
  <2>1. \A m \in M : K[m][1] = k + 1 <=> m.file = f
    BY <1>8, <1>9
  <2> QED
    BY <1>7, <2>1
<1>11. \A i, j \in 1..Len(v) : i < j => Lex(K[v[i]], K[v[j]])
  <2> SUFFICES ASSUME NEW i \in 1..Len(v), NEW j \in 1..Len(v), i < j PROVE Lex(K[v[i]], K[v[j]])
    OBVIOUS
  <2>1. v[i] \in M /\ v[j] \in M /\ v[i].file = f /\ v[j].file = f /\ v[i].line < v[j].line
    BY <1>7, ListIs
  <2> QED
    BY <1>8, <2>1 DEF Lex
<1> DEFINE u == SubSeq(all, 1, n)
           w == u \o v
<1>12. Gathered(M, K, w, k + 2)
  <2>1. k + 1 \in Int /\ (k + 1) + 1 = k + 2
    BY <1>3
  <2> HIDE DEF u
  <2>2. Gathered(M, K, u \o v, (k + 1) + 1)
    BY ONLY <1>2, <1>7, <1>8, <1>10, <1>11, <2>1, GatherMore DEF u
  <2> QED
    BY <2>1, <2>2
<1>13. Len(w) <= Len(all) /\ w = SubSeq(all, 1, Len(w))
  <2>1. Asks(q) = Behind(M, K) /\ Ranks(M, Behind(M, K))
    <3>1. Ranks(M, Behind(M, K))
      BY <1>8, KeysRank
    <3> QED
      BY <3>1 DEF Asks, M, K
  <2>2. k + 2 \in Int
    BY <1>3
  <2> HIDE DEF w, q
  <2>3. Begins(M, Behind(M, K), w)
    BY <1>8, <1>12, <2>2, GatheredBegins
  <2>4. Sorted(M, Behind(M, K), all)
    BY <1>1, <2>1
  <2> QED
    BY <2>1, <2>3, <2>4, BegunIsStart
<1>14. List(u) /\ Len(u) = n
  BY <1>4, StartOfList
<1> HIDE DEF u
<1>15. Len(w) = n + Len(v) /\ \A i \in 1..Len(v) : w[n + i] = v[i]
  <2>1. Len(u \o v) = Len(u) + Len(v) /\ \A i \in 1..Len(v) : (u \o v)[Len(u) + i] = v[i]
    <3>1. List(u) /\ List(v)
      BY <1>7, <1>14
    <3> QED
      BY ONLY <3>1, JoinedList
  <2> QED
    BY <1>14, <2>1
<1> HIDE DEF w
<1>16. Len(v) \in Nat
  BY <1>7, ListIs
<1>17. \A i \in 1..Len(v) : v[i] = all[n + i]
  <2>1. \A i \in 1..Len(w) : SubSeq(all, 1, Len(w))[i] = all[i]
    BY <1>4, <1>13, <1>15, <1>16, StartOfList
  <2>2. \A i \in 1..Len(v) : n + i \in 1..Len(w)
    BY <1>15, <1>16
  <2> QED
    BY <1>13, <1>15, <2>1, <2>2
<1>18. /\ k + 1 \in 0..Len(F) /\ n + Len(v) <= Len(all)
       /\ Gathered(M, K, SubSeq(all, 1, n + Len(v)), k + 2)
  <2>1. k + 1 \in 0..Len(F)
    BY <1>3, <1>5
  <2> QED
    BY <1>12, <1>13, <1>15, <2>1
<1>19. Gathers(c, v, all, k, n)
  BY <1>1, <1>2, <1>5, <1>17, <1>18 DEF Gathers, F, M, K
<1> QED
  BY <1>2, <1>19 DEF F

\* What is read of the next file, whether it may have changed or not.
LEMMA ContentIsFresh ==
  ASSUME TreeOK, NEW c, ContentOK(c), c.pc = "content", c.todo # << >>,
         NEW skip, skip = Min({Len(Found(c)), c.offset - c.skipped}),
         NEW fresh, fresh = SubSeq(Found(c), skip + 1, Len(Found(c)))
  PROVE  /\ skip \in Nat /\ c.skipped + skip <= c.offset
         /\ skip = (IF Len(Found(c)) <= c.offset - c.skipped THEN Len(Found(c)) ELSE c.offset - c.skipped)
         /\ List(fresh) /\ IsInjective(fresh) /\ \A u \in ToSet(fresh) : u.file = Head(c.todo)
         /\ List(c.usages \o fresh) /\ IsInjective(c.usages \o fresh)
         /\ ToSet(c.usages \o fresh) = ToSet(c.usages) \cup ToSet(fresh)
<1> DEFINE f == Head(c.todo)
           v == Found(c)
           n == Len(v)
<1>1. /\ List(c.usages) /\ IsInjective(c.usages) /\ Len(c.usages) <= c.limit
      /\ List(c.todo) /\ IsInjective(c.todo) /\ ToSet(c.todo) \subseteq ToSet(ByWalk)
      /\ \A u \in ToSet(c.usages) : u.file \notin ToSet(c.todo)
      /\ c.skipped \in Nat /\ c.skipped <= c.offset /\ c.offset \in Nat
  BY SearchingIs DEF ContentOK, ContentApart
<1>2. f \in ToSet(c.todo)
  BY <1>1, TailOfList
<1>3. List(tree[f].lines)
  BY <1>1, <1>2 DEF TreeOK, WellFormed, List
<1>4. List(v) /\ IsInjective(v) /\ \A m \in ToSet(v) : m.file = f
  <2> DEFINE lines == tree[f].lines
  <2>1. v = MatchesIn(f, lines, c.query) /\ List(lines)
    BY <1>3 DEF Found
  <2> DEFINE q == c.query
  <2>2. v = MatchesIn(f, lines, q) /\ List(lines)
    BY <2>1
  <2> HIDE DEF f, v, lines, q
  <2> QED
    BY ONLY <2>2, MatchesAre
<1> HIDE DEF f, v
<1>5. n \in Nat
  BY <1>4, ListIs
<1>6. skip = (IF n <= c.offset - c.skipped THEN n ELSE c.offset - c.skipped)
  <2>1. skip = Min({n, c.offset - c.skipped})
    BY DEF v
  <2>2. c.offset - c.skipped \in Int /\ n \in Int
    BY <1>1, <1>5
  <2> HIDE DEF n
  <2> QED
    BY <2>1, <2>2, LeastOfTwo
<1>7. skip \in Nat /\ c.skipped + skip <= c.offset
  BY <1>1, <1>5, <1>6
<1>8. List(fresh) /\ IsInjective(fresh) /\ ToSet(fresh) \subseteq ToSet(v)
  <2>1. fresh = SubSeq(v, skip + 1, n) /\ n <= Len(v)
    BY <1>5 DEF v
  <2> HIDE DEF n
  <2> QED
    <3>1. List(v) /\ IsInjective(v) /\ skip \in Nat /\ n \in Nat
      BY <1>4, <1>5, <1>7
    <3>2. List(SubSeq(v, skip + 1, n)) /\ ToSet(SubSeq(v, skip + 1, n)) \subseteq ToSet(v)
      BY ONLY <2>1, <3>1, PartOfList
    <3>3. IsInjective(SubSeq(v, skip + 1, n))
      BY ONLY <2>1, <3>1, PartIsInjective
    <3> QED
      BY ONLY <2>1, <3>2, <3>3
<1>9. \A u \in ToSet(fresh) : u.file = f
  BY <1>4, <1>8
<1>10. ToSet(c.usages) \cap ToSet(fresh) = {}
  BY <1>1, <1>2, <1>9
<1>11. /\ List(c.usages \o fresh) /\ IsInjective(c.usages \o fresh)
       /\ ToSet(c.usages \o fresh) = ToSet(c.usages) \cup ToSet(fresh)
  BY <1>1, <1>8, <1>10, ApartMore
<1> QED
  BY <1>6, <1>7, <1>8, <1>9, <1>11 DEF f, v, n

\* A file has more than the page has room for.
LEMMA ContentFull ==
  ASSUME TreeOK, NEW c, ContentOK(c), c.pc = "content", c.todo # << >>, NEW v, v = Found(c),
         NEW skip, skip = Min({Len(Found(c)), c.offset - c.skipped}),
         NEW fresh, fresh = SubSeq(Found(c), skip + 1, Len(Found(c))),
         NEW room, room = c.limit - Len(c.usages), Len(fresh) > room,
         NEW d, d = Turn(c, c.usages \o SubSeq(fresh, 1, room), TRUE)
  PROVE  ContentOK(d)
<1> DEFINE page == c.usages \o SubSeq(fresh, 1, room)
<1>1. /\ Asking \subseteq DOMAIN c /\ Fields \subseteq DOMAIN c /\ ToldOK(c) /\ Searching \subseteq DOMAIN c
      /\ c.limit \in Nat /\ c.offset \in Nat /\ "query" \in DOMAIN c \ Fields
  BY SearchingIs DEF ContentOK
<1>2. /\ skip \in Nat /\ c.skipped + skip <= c.offset
      /\ skip = (IF Len(Found(c)) <= c.offset - c.skipped THEN Len(Found(c)) ELSE c.offset - c.skipped)
      /\ List(fresh) /\ IsInjective(fresh) /\ \A u \in ToSet(fresh) : u.file = Head(c.todo)
  BY ContentIsFresh
<1>3. /\ List(c.usages) /\ IsInjective(c.usages) /\ Len(c.usages) <= c.limit /\ Len(c.usages) \in Nat
      /\ List(c.todo) /\ IsInjective(c.todo) /\ ToSet(c.todo) \subseteq ToSet(ByWalk)
      /\ \A u \in ToSet(c.usages) : u.file \notin ToSet(c.todo)
  BY ListIs DEF ContentOK, ContentApart
<1>4. room \in Nat /\ room <= Len(fresh)
  <2>1. Len(fresh) \in Nat
    BY <1>2, ListIs
  <2>2. c.limit \in Nat /\ Len(c.usages) \in Nat /\ Len(c.usages) <= c.limit
    BY <1>1, <1>3
  <2>3. room = c.limit - Len(c.usages) /\ Len(fresh) > room
    OBVIOUS
  <2> QED
    BY ONLY <2>1, <2>2, <2>3
<1>5. List(page) /\ IsInjective(page)
  <2> DEFINE some == SubSeq(fresh, 1, room)
  <2>1. List(SubSeq(fresh, 0 + 1, room)) /\ ToSet(SubSeq(fresh, 0 + 1, room)) \subseteq ToSet(fresh)
    BY <1>2, <1>4, PartOfList
  <2>2. IsInjective(SubSeq(fresh, 0 + 1, room))
    BY <1>2, <1>4, PartIsInjective
  <2>3. List(some) /\ ToSet(some) \subseteq ToSet(fresh) /\ IsInjective(some)
    <3>1. 0 + 1 = 1
      OBVIOUS
    <3> QED
      BY ONLY <2>1, <2>2, <3>1
  <2> HIDE DEF some
  <2>4. Head(c.todo) \in ToSet(c.todo)
    BY <1>3, TailOfList
  <2>5. ToSet(c.usages) \cap ToSet(some) = {}
    BY <1>2, <1>3, <2>3, <2>4
  <2>6. List(c.usages) /\ IsInjective(c.usages)
    BY <1>3
  <2>7. List(c.usages \o some) /\ IsInjective(c.usages \o some)
    BY ONLY <2>3, <2>5, <2>6, ApartMore
  <2> QED
    BY <2>7 DEF some
<1> HIDE DEF page
<1>6. /\ DOMAIN d = DOMAIN c /\ ToldOK(d) /\ d.pc = "more" /\ d.usages = << >>
      /\ \A x \in DOMAIN c \ Fields : d[x] = c[x]
      /\ d.limit = c.limit /\ d.edited = c.edited
  <2> DEFINE more == TRUE
  <2>1. /\ Asking \subseteq DOMAIN c /\ ToldOK(c) /\ List(page) /\ IsInjective(page)
        /\ more \in BOOLEAN /\ d = Turn(c, page, more)
    BY <1>1, <1>5 DEF page
  <2> HIDE DEF more
  <2>2. /\ DOMAIN d = DOMAIN c /\ ToldOK(d) /\ d.pc = (IF more THEN "more" ELSE "done") /\ d.usages = << >>
        /\ (\A x \in DOMAIN c \ Fields : d[x] = c[x]) /\ d.limit = c.limit /\ d.edited = c.edited
    BY ONLY <2>1, TurnIsOK
  <2> QED
    BY <2>2 DEF more
<1>7. d.query = c.query
  BY <1>1, <1>6
<1>8. ContentApart(d)
  BY <1>6 DEF ContentApart
<1>9. ASSUME ~c.edited PROVE ContentFound(d)
  <2> DEFINE F == SearchedFiles(c.query)
  <2>1. PICK all : \E k \in 0..Len(F) : \E n \in 0..Len(all) : Gathers(c, v, all, k, n)
    <3>1. TreeOK /\ ContentOK(c) /\ ~c.edited /\ c.pc = "content" /\ c.todo # << >> /\ v = Found(c)
      BY <1>9
    <3> QED
      BY ONLY <3>1, ContentGathers
  <2>9. PICK k \in 0..Len(F), n \in 0..Len(all) : Gathers(c, v, all, k, n)
    BY <2>1
  <2>10. /\ Sorted(LinesFound(c.query), Asks(c.query), all) /\ Paged(c, all)
         /\ n + Len(v) <= Len(all) /\ \A i \in 1..Len(v) : v[i] = all[n + i]
         /\ c.skipped = (IF c.offset <= n THEN c.offset ELSE n)
         /\ c.usages = SubSeq(all, c.skipped + 1, n)
    BY <2>9 DEF Gathers
  <2>2. List(all) /\ Len(all) \in Nat /\ n \in Nat
    BY <2>10, ListIs DEF Sorted
  <2>3. List(v)
    <3>1. Head(c.todo) \in ToSet(c.todo)
      BY <1>3, TailOfList
    <3> DEFINE lines == tree[Head(c.todo)].lines
    <3>2. List(lines) /\ v = MatchesIn(Head(c.todo), lines, c.query)
      BY <1>3, <3>1 DEF TreeOK, WellFormed, List, Found
    <3> HIDE DEF lines
    <3> DEFINE f == Head(c.todo)
    <3>3. List(lines) /\ v = MatchesIn(f, lines, c.query)
      BY <3>2
    <3> HIDE DEF f, lines
    <3> QED
      BY ONLY <3>3, MatchesAre
  <2>4. page = SubSeq(all, c.offset + 1, c.offset + c.limit) /\ c.offset + c.limit <= Len(all)
    <3> DEFINE l == Len(v)
               m == n + l
               t == c.skipped + skip
    <3>1. /\ List(all) /\ n \in Nat /\ List(v) /\ n + l <= Len(all) /\ (\A i \in 1..l : v[i] = all[n + i])
          /\ c.offset \in Nat /\ c.limit \in Nat /\ c.skipped = (IF c.offset <= n THEN c.offset ELSE n)
          /\ c.usages = SubSeq(all, c.skipped + 1, n) /\ Len(c.usages) <= c.limit
          /\ skip = (IF l <= c.offset - c.skipped THEN l ELSE c.offset - c.skipped)
          /\ fresh = SubSeq(v, skip + 1, l) /\ room = c.limit - Len(c.usages) /\ Len(fresh) > room
      BY <1>1, <1>2, <1>3, <2>10, <2>2, <2>3
    <3>2. l = Len(v) /\ m = n + l /\ t = c.skipped + skip /\ m <= Len(all)
      BY <3>1
    <3> DEFINE o == c.offset
               lim == c.limit
               was == c.skipped
               us == c.usages
               upto == o + lim
    <3>3. /\ o \in Nat /\ lim \in Nat /\ was = (IF o <= n THEN o ELSE n)
          /\ us = SubSeq(all, was + 1, n) /\ Len(us) <= lim
          /\ skip = (IF l <= o - was THEN l ELSE o - was)
          /\ room = lim - Len(us) /\ t = was + skip /\ upto = o + lim
      BY ONLY <3>1, <3>2
    <3>4. /\ List(all) /\ n \in Nat /\ List(v) /\ (\A i \in 1..l : v[i] = all[n + i])
          /\ fresh = SubSeq(v, skip + 1, l) /\ Len(fresh) > room
      BY ONLY <3>1
    <3>5. page = us \o SubSeq(fresh, 1, room)
      BY DEF page
    <3> HIDE DEF l, m, t, o, lim, was, us, upto
    <3>7. Took(all, n, v, l, m, o, lim, was, us, skip, t, fresh, room, upto)
      BY ONLY <3>2, <3>3, <3>4 DEF Took
    <3>9. Len(fresh) > room
      OBVIOUS
    <3>8. us \o Part(fresh, 0, room) = Part(all, o, upto) /\ upto <= Len(all)
      BY ONLY <3>9, <3>7, SkipAndTake
    <3>6. us \o SubSeq(fresh, 1, room) = SubSeq(all, o + 1, o + lim) /\ o + lim <= Len(all)
      <4>1. 0 + 1 = 1
        OBVIOUS
      <4> QED
        BY ONLY <3>8, <4>1 DEF Part, upto
    <3> QED
      BY ONLY <3>5, <3>6 DEF o, lim
  <2>5. page = Page(all, c)
    <3>1. Page(all, c) = SubSeq(all, c.offset + 1, c.offset + c.limit)
      BY <1>1, <2>2, <2>4, PageIs
    <3> QED
      BY <2>4, <3>1
  <2>6. d = Turn(c, Page(all, c), TRUE) /\ TRUE \in BOOLEAN
    BY <2>5 DEF page
  <2>7. Paged(d, all)
    <3>1. Lists(c.told)
      BY <1>1 DEF ToldOK
    <3> QED
      BY <1>1, <1>6, <2>10, <2>2, <2>4, <2>6, <3>1, TurnTells
  <2>8. Sorted(LinesFound(d.query), Asks(d.query), all)
    BY <1>7, <2>10
  <2> QED
    BY ONLY <1>6, <2>7, <2>8 DEF ContentFound
<1> QED
  BY <1>1, <1>6, <1>8, <1>9 DEF ContentOK

\* Or it has not, and the next one is to come.
LEMMA ContentRead ==
  ASSUME TreeOK, NEW c, ContentOK(c), c.pc = "content", c.todo # << >>, NEW v, v = Found(c),
         NEW skip, skip = Min({Len(Found(c)), c.offset - c.skipped}),
         NEW fresh, fresh = SubSeq(Found(c), skip + 1, Len(Found(c))),
         NEW room, room = c.limit - Len(c.usages), ~(Len(fresh) > room),
         NEW d, d = [c EXCEPT !.todo = Tail(@), !.skipped = @ + skip, !.usages = @ \o fresh]
  PROVE  ContentOK(d)
<1>1. /\ Fields \subseteq DOMAIN c /\ ToldOK(c) /\ Searching \subseteq DOMAIN c
      /\ c.limit \in Nat /\ c.offset \in Nat
      /\ \A x \in {"skipped", "limit", "edited", "query"} : x \in DOMAIN c \ Fields
  BY SearchingIs DEF ContentOK
<1>2. /\ DOMAIN d = DOMAIN c /\ d.pc = "content" /\ d.todo = Tail(c.todo) /\ d.skipped = c.skipped + skip
      /\ d.usages = c.usages \o fresh /\ d.told = c.told /\ d.offset = c.offset /\ d.limit = c.limit
      /\ d.edited = c.edited /\ d.query = c.query
  BY <1>1 DEF Fields
<1>3. /\ skip \in Nat /\ c.skipped + skip <= c.offset
      /\ skip = (IF Len(Found(c)) <= c.offset - c.skipped THEN Len(Found(c)) ELSE c.offset - c.skipped)
      /\ List(fresh) /\ \A u \in ToSet(fresh) : u.file = Head(c.todo)
      /\ List(c.usages \o fresh) /\ IsInjective(c.usages \o fresh)
      /\ ToSet(c.usages \o fresh) = ToSet(c.usages) \cup ToSet(fresh)
  BY ContentIsFresh
<1>4. /\ List(c.usages) /\ Len(c.usages) <= c.limit /\ Len(c.usages) \in Nat
      /\ List(c.todo) /\ IsInjective(c.todo) /\ ToSet(c.todo) \subseteq ToSet(ByWalk)
      /\ (\A u \in ToSet(c.usages) : u.file \notin ToSet(c.todo))
      /\ c.skipped \in Nat
  BY ListIs DEF ContentOK, ContentApart
<1>5. ToldOK(d)
  BY <1>1, <1>2 DEF ToldOK
<1>6. /\ List(Tail(c.todo)) /\ IsInjective(Tail(c.todo)) /\ Head(c.todo) \notin ToSet(Tail(c.todo))
      /\ ToSet(c.todo) = {Head(c.todo)} \cup ToSet(Tail(c.todo))
  BY <1>4, TailOfList
<1>7. Len(d.usages) <= d.limit
  <2>1. Len(c.usages \o fresh) = Len(c.usages) + Len(fresh) /\ Len(fresh) \in Nat
    <3>1. List(c.usages) /\ List(fresh)
      BY <1>3, <1>4
    <3> QED
      BY ONLY <3>1, JoinedList, ListIs
  <2>2. Len(c.usages) \in Nat /\ Len(c.usages) <= c.limit /\ c.limit \in Nat
    BY <1>1, <1>4
  <2>3. room = c.limit - Len(c.usages) /\ ~(Len(fresh) > room)
    OBVIOUS
  <2>4. Len(c.usages \o fresh) <= c.limit
    BY ONLY <2>1, <2>2, <2>3
  <2> QED
    BY <1>2, <2>4
<1>8. ContentApart(d)
  <2>1. \A u \in ToSet(d.usages) : u.file \notin ToSet(d.todo)
    BY <1>2, <1>3, <1>4, <1>6
  <2>2. List(d.usages) /\ IsInjective(d.usages) /\ List(d.todo) /\ IsInjective(d.todo) /\ ToSet(d.todo) \subseteq ToSet(ByWalk)
    BY <1>2, <1>3, <1>4, <1>6
  <2>3. d.skipped \in Nat /\ d.skipped <= d.offset
    <3>1. /\ d.skipped = c.skipped + skip /\ d.offset = c.offset /\ skip \in Nat /\ c.skipped \in Nat
          /\ c.skipped + skip <= c.offset
      BY <1>2, <1>3, <1>4
    <3> QED
      BY ONLY <3>1
  <2> QED
    BY <1>2, <1>7, <2>1, <2>2, <2>3 DEF ContentApart
<1>9. ASSUME ~c.edited PROVE ContentFound(d)
  <2> DEFINE F == SearchedFiles(c.query)
             M == LinesFound(c.query)
             K == MatchKey(c.query)
  <2>0. PICK all : \E k \in 0..Len(F) : \E n \in 0..Len(all) : Gathers(c, v, all, k, n)
    <3>1. TreeOK /\ ContentOK(c) /\ ~c.edited /\ c.pc = "content" /\ c.todo # << >> /\ v = Found(c)
      BY <1>9
    <3> QED
      BY ONLY <3>1, ContentGathers
  <2>9. PICK k \in 0..Len(F), n \in 0..Len(all) : Gathers(c, v, all, k, n)
    BY <2>0
  <2>1. /\ Sorted(M, Asks(c.query), all) /\ Paged(c, all)
        /\ k + 1 \in 0..Len(F) /\ Tail(c.todo) = SubSeq(F, k + 2, Len(F))
        /\ n + Len(v) <= Len(all) /\ \A i \in 1..Len(v) : v[i] = all[n + i]
        /\ Gathered(M, K, SubSeq(all, 1, n + Len(v)), k + 2)
        /\ c.skipped = (IF c.offset <= n THEN c.offset ELSE n)
        /\ c.usages = SubSeq(all, c.skipped + 1, n)
    BY <2>9 DEF Gathers
  <2>2. List(all) /\ Len(all) \in Nat /\ n \in Nat
    BY <2>1, ListIs DEF Sorted
  <2>3. List(v) /\ Len(v) \in Nat
    <3>1. Head(c.todo) \in ToSet(c.todo)
      BY <1>6
    <3> DEFINE lines == tree[Head(c.todo)].lines
    <3>2. List(lines) /\ v = MatchesIn(Head(c.todo), lines, c.query)
      BY <1>4, <3>1 DEF TreeOK, WellFormed, List, Found
    <3> HIDE DEF lines
    <3> DEFINE f == Head(c.todo)
    <3>4. List(lines) /\ v = MatchesIn(f, lines, c.query)
      BY <3>2
    <3> HIDE DEF f, lines
    <3>3. List(v)
      BY ONLY <3>4, MatchesAre
    <3> QED
      BY ONLY <3>3, ListIs
  <2> DEFINE m == n + Len(v)
             t == c.skipped + skip
  <2>4. t = (IF c.offset <= m THEN c.offset ELSE m) /\ c.usages \o fresh = SubSeq(all, t + 1, m)
    <3> DEFINE l == Len(v)
    <3>1. /\ List(all) /\ n \in Nat /\ List(v) /\ m <= Len(all) /\ (\A i \in 1..l : v[i] = all[n + i])
          /\ c.offset \in Nat /\ c.limit \in Nat /\ c.skipped = (IF c.offset <= n THEN c.offset ELSE n)
          /\ c.usages = SubSeq(all, c.skipped + 1, n) /\ Len(c.usages) <= c.limit
          /\ skip = (IF l <= c.offset - c.skipped THEN l ELSE c.offset - c.skipped)
          /\ fresh = SubSeq(v, skip + 1, l)
      BY <1>1, <1>3, <1>4, <2>1, <2>2, <2>3
    <3>2. l = Len(v) /\ m = n + l /\ t = c.skipped + skip /\ room = c.limit - Len(c.usages)
      OBVIOUS
    <3> DEFINE o == c.offset
               lim == c.limit
               was == c.skipped
               us == c.usages
               upto == o + lim
    <3>3. /\ o \in Nat /\ lim \in Nat /\ was = (IF o <= n THEN o ELSE n)
          /\ us = SubSeq(all, was + 1, n) /\ Len(us) <= lim
          /\ skip = (IF l <= o - was THEN l ELSE o - was)
          /\ room = lim - Len(us) /\ t = was + skip /\ upto = o + lim
      BY ONLY <3>1, <3>2
    <3>4. /\ List(all) /\ n \in Nat /\ List(v) /\ m <= Len(all) /\ (\A i \in 1..l : v[i] = all[n + i])
          /\ fresh = SubSeq(v, skip + 1, l)
      BY ONLY <3>1
    <3> HIDE DEF l, m, t, o, lim, was, us, upto
    <3>5. t = (IF o <= m THEN o ELSE m) /\ us \o fresh = SubSeq(all, t + 1, m)
      <4>1. Took(all, n, v, l, m, o, lim, was, us, skip, t, fresh, room, upto)
        BY ONLY <3>2, <3>3, <3>4 DEF Took
      <4>2. t = (IF o <= m THEN o ELSE m) /\ us \o fresh = Part(all, t, m)
        BY ONLY <4>1, SkipAndTake
      <4> QED
        BY ONLY <4>2 DEF Part
    <3> QED
      BY ONLY <3>5 DEF o, us
  <2>5. m \in 0..Len(all) /\ (k + 1) + 1 = k + 2
    <3>1. /\ n + Len(v) <= Len(all) /\ Len(v) \in Nat /\ Len(all) \in Nat /\ n \in Nat /\ k \in 0..Len(F)
          /\ k \in Int /\ m = n + Len(v)
      BY <2>1, <2>2, <2>3
    <3> HIDE DEF m, F
    <3> QED
      BY ONLY <3>1
  <2> HIDE DEF t
  <2>6. /\ d.skipped = t /\ d.usages = SubSeq(all, t + 1, m) /\ d.todo = SubSeq(F, (k + 1) + 1, Len(F))
    BY <1>2, <2>1, <2>4, <2>5, Zenon DEF t
  <2>7. Gathered(M, K, SubSeq(all, 1, m), (k + 1) + 1)
    BY <2>1, <2>5
  <2>8. /\ F = SearchedFiles(d.query) /\ M = LinesFound(d.query) /\ K = MatchKey(d.query)
        /\ Sorted(M, Asks(d.query), all) /\ Paged(d, all) /\ d.skipped = (IF d.offset <= m THEN d.offset ELSE m)
        /\ d.usages = SubSeq(all, d.skipped + 1, m) /\ d.pc = "content" /\ k + 1 \in 0..Len(F)
    BY <1>2, <2>1, <2>4, <2>6, Zenon DEF Paged
  <2> HIDE DEF F, M, K, m
  <2> QED
    BY ONLY <2>5, <2>6, <2>7, <2>8 DEF ContentFound
<1> QED
  BY <1>1, <1>2, <1>5, <1>8, <1>9 DEF ContentOK

\* The last page is told.
LEMMA ContentPaged ==
  ASSUME TreeOK, NEW c, ContentOK(c), c.pc = "content", c.todo = << >>,
         NEW d, d = Turn(c, c.usages, FALSE)
  PROVE  ContentOK(d)
<1>1. /\ Asking \subseteq DOMAIN c /\ Fields \subseteq DOMAIN c /\ ToldOK(c) /\ Searching \subseteq DOMAIN c
      /\ c.limit \in Nat /\ c.offset \in Nat /\ "query" \in DOMAIN c \ Fields
  BY SearchingIs DEF ContentOK
<1>2. List(c.usages) /\ IsInjective(c.usages) /\ Len(c.usages) <= c.limit
  BY DEF ContentOK, ContentApart
<1>3. /\ DOMAIN d = DOMAIN c /\ ToldOK(d) /\ d.pc = "done" /\ d.usages = << >>
      /\ \A x \in DOMAIN c \ Fields : d[x] = c[x]
      /\ d.limit = c.limit /\ d.edited = c.edited
  <2> DEFINE more == FALSE
  <2>1. /\ Asking \subseteq DOMAIN c /\ ToldOK(c) /\ List(c.usages) /\ IsInjective(c.usages)
        /\ more \in BOOLEAN /\ d = Turn(c, c.usages, more)
    BY <1>1, <1>2
  <2> HIDE DEF more
  <2>2. /\ DOMAIN d = DOMAIN c /\ ToldOK(d) /\ d.pc = (IF more THEN "more" ELSE "done") /\ d.usages = << >>
        /\ (\A x \in DOMAIN c \ Fields : d[x] = c[x]) /\ d.limit = c.limit /\ d.edited = c.edited
    BY ONLY <2>1, TurnIsOK
  <2> QED
    BY <2>2 DEF more
<1>4. d.query = c.query
  BY <1>1, <1>3
<1>5. ContentApart(d)
  BY <1>3 DEF ContentApart
<1>6. ASSUME ~c.edited PROVE ContentFound(d)
  <2> DEFINE F == SearchedFiles(c.query)
             M == LinesFound(c.query)
             K == MatchKey(c.query)
  <2>1. PICK all : /\ Sorted(M, Asks(c.query), all) /\ Paged(c, all)
                   /\ \E k \in 0..Len(F) : \E n \in 0..Len(all) :
                        /\ c.todo = SubSeq(F, k + 1, Len(F)) /\ Gathered(M, K, SubSeq(all, 1, n), k + 1)
                        /\ c.skipped = (IF c.offset <= n THEN c.offset ELSE n)
                        /\ c.usages = SubSeq(all, c.skipped + 1, n)
    BY <1>6 DEF ContentOK, ContentFound
  <2>2. PICK k \in 0..Len(F), n \in 0..Len(all) :
          /\ c.todo = SubSeq(F, k + 1, Len(F)) /\ Gathered(M, K, SubSeq(all, 1, n), k + 1)
          /\ c.skipped = (IF c.offset <= n THEN c.offset ELSE n)
          /\ c.usages = SubSeq(all, c.skipped + 1, n)
    BY <2>1
  <2>3. List(F) /\ Len(F) \in Nat /\ List(all) /\ Len(all) \in Nat
    BY <2>1, SearchedFilesAre, ListIs DEF Sorted
  <2>4. Keyed(M, K) /\ \A x \in M : K[x][1] \in 1..Len(F)
    BY MatchesKeyed
  <2>5. Asks(c.query) = Behind(M, K)
    BY DEF Asks
  <2> HIDE DEF F, M, K
  <2>6. k = Len(F)
    BY <2>2, <2>3, RestOfList
  <2> DEFINE u == SubSeq(all, 1, n)
  <2>7. M \subseteq ToSet(u)
    <3>1. ToSet(u) = {x \in M : K[x][1] < k + 1}
      BY <2>2 DEF Gathered
    <3>2. \A x \in M : K[x][1] < k + 1
      BY <2>3, <2>4, <2>6
    <3> QED
      BY <3>1, <3>2
  <2>8. u = all
    <3>1. k + 1 \in Int
      BY <2>3
    <3>2. Gathered(M, K, u, k + 1)
      BY <2>2
    <3> HIDE DEF u
    <3>3. Begins(M, Behind(M, K), u) /\ Ranks(M, Behind(M, K))
      BY <2>4, <3>1, <3>2, GatheredBegins, KeysRank
    <3> QED
      BY <2>1, <2>5, <2>7, <3>3, BegunIsAll
  <2>9. n = Len(all)
    <3>1. Len(u) = n
      BY <2>3, StartOfList
    <3> HIDE DEF u
    <3> QED
      BY <2>8, <3>1
  <2>10. c.offset <= Len(all) /\ c.skipped = c.offset
    BY <2>1, <2>2, <2>9 DEF Paged
  <2>11. c.usages = SubSeq(all, c.offset + 1, Len(all))
    BY <2>2, <2>9, <2>10
  <2>12. Len(all) <= c.offset + c.limit
    <3> DEFINE n2 == Len(all)
               o == c.offset
    <3>1. n2 \in Nat /\ o \in Nat /\ n2 <= Len(all) /\ o <= n2
      BY <1>1, <2>3, <2>10
    <3>2. c.usages = SubSeq(all, o + 1, n2)
      BY <2>11
    <3> HIDE DEF n2, o
    <3>3. Len(SubSeq(all, o + 1, n2)) = (IF o <= n2 THEN n2 - o ELSE 0)
      BY <2>3, <3>1, PartOfList
    <3> QED
      BY <1>1, <1>2, <3>1, <3>2, <3>3 DEF n2, o
  <2>13. c.usages = Page(all, c)
    <3>1. Page(all, c) = SubSeq(all, c.offset + 1, IF c.offset + c.limit <= Len(all) THEN c.offset + c.limit ELSE Len(all))
      BY <1>1, <2>3, PageIs
    <3>2. (IF c.offset + c.limit <= Len(all) THEN c.offset + c.limit ELSE Len(all)) = Len(all)
      BY <1>1, <2>3, <2>12
    <3> QED
      BY <2>11, <3>1, <3>2
  <2>14. d = Turn(c, Page(all, c), FALSE) /\ FALSE \in BOOLEAN
    BY <2>13
  <2>15. FlattenSeq(d.told) = all
    <3> DEFINE more == FALSE
    <3>1. /\ Fields \subseteq DOMAIN c /\ c.offset \in Nat /\ c.limit \in Nat /\ Lists(c.told)
          /\ List(all) /\ Paged(c, all) /\ more \in BOOLEAN /\ d = Turn(c, Page(all, c), more) /\ d.limit = c.limit
          /\ (more => c.offset + c.limit <= Len(all)) /\ (~more => Len(all) <= c.offset + c.limit) /\ ~more
      BY <1>1, <1>3, <2>1, <2>3, <2>12, <2>14 DEF ToldOK
    <3> HIDE DEF more
    <3>2. d.pc = "done" => FlattenSeq(d.told) = all
      BY ONLY <3>1, TurnTells
    <3>3. d.pc = "done"
      BY ONLY <3>1, TurnIs
    <3> QED
      BY <3>2, <3>3
  <2>16. Sorted(LinesFound(d.query), Asks(d.query), all)
    BY <1>4, <2>1 DEF M
  <2> QED
    BY ONLY <1>3, <2>15, <2>16 DEF ContentFound
<1> QED
  BY <1>1, <1>3, <1>5, <1>6 DEF ContentOK

\* A file that changes leaves what was told once.
LEMMA ContentEdited ==
  ASSUME NEW c, ContentOK(c), NEW d, d = [c EXCEPT !.edited = TRUE]
  PROVE  ContentOK(d) /\ ContentOK(d)'
<1>1. /\ DOMAIN d = DOMAIN c /\ \A x \in DOMAIN c \ {"edited"} : d[x] = c[x]
      /\ d.edited = TRUE
  BY DEF ContentOK, Searching, Asking
<1>2. \A x \in {"pc", "usages", "todo", "skipped", "told", "limit", "offset"} : x \in DOMAIN c \ {"edited"}
  BY DEF ContentOK, Searching, Asking, Fields
<1>3. ToldOK(d)
  BY <1>1, <1>2 DEF ContentOK, ToldOK
<1>4. ContentApart(d)
  BY <1>1, <1>2 DEF ContentOK, ContentApart
<1> QED
  BY <1>1, <1>3, <1>4 DEF ContentOK

\* Nothing is told at first.
LEMMA ContentBegin ==
  ASSUME TreeOK, NEW c, Searching \subseteq DOMAIN c, c.pc = "asked", c.limit \in Nat, c.offset = 0,
         c.usages = << >>, c.told = << >>, c.edited = FALSE
  PROVE  ContentOK(c)
<1>1. Lists(<< >>) /\ FlattenSeq(<< >>) = << >> /\ Len(<< >>) = 0
  BY FlattenNothing
<1>2. ToldOK(c)
  <2>1. \A i \in 1..Len(c.told) : IsInjective(c.told[i])
    BY <1>1
  <2>2. c.offset \in Nat /\ Lists(c.told)
    BY <1>1
  <2>3. c.edited \in BOOLEAN
    OBVIOUS
  <2> QED
    BY <2>1, <2>2, <2>3 DEF ToldOK
<1>3. ContentApart(c)
  BY DEF ContentApart
<1>4. Ranks(LinesFound(c.query), Asks(c.query))
  BY MatchesKeyed, KeysRank DEF Asks
<1>5. PICK all : Sorted(LinesFound(c.query), Asks(c.query), all)
  BY <1>4, SortedExists
<1>6. Paged(c, all)
  <2>1. List(all) /\ Len(all) \in Nat
    BY <1>5, ListIs DEF Sorted
  <2>2. List(SubSeq(all, 1, 0)) /\ Len(SubSeq(all, 1, 0)) = 0
    BY <2>1, StartOfList
  <2>3. SubSeq(all, 1, 0) = << >>
    BY <2>2, EmptyList, SameList
  <2>4. c.offset <= Len(all) /\ SubSeq(all, 1, c.offset) = << >> /\ FlattenSeq(c.told) = << >>
    BY <1>1, <2>1, <2>3
  <2> QED
    BY <2>4 DEF Paged
<1>7. ContentFound(c)
  BY <1>5, <1>6 DEF ContentFound
<1> QED
  BY <1>2, <1>3, <1>7 DEF ContentOK

\* At the end the pages have every line that holds what is looked for.
LEMMA ContentAllTold ==
  ASSUME TreeOK, NEW c, ContentOK(c), ~c.edited, c.pc = "done"
  PROVE  IsInjective(Told1(c)) /\ ContentTold(c, Told1(c))
<1> DEFINE all == Told1(c)
           q == c.query
           F == SearchedFiles(q)
           M == LinesFound(q)
           K == MatchKey(q)
<1>1. Sorted(M, Asks(q), all)
  BY DEF ContentOK, ContentFound, Told1
<1> HIDE DEF all
<1>2. List(all) /\ IsInjective(all) /\ ToSet(all) = M /\ DOMAIN all = 1..Len(all) /\ Len(all) \in Nat
  BY <1>1, ListIs DEF Sorted
<1>3. {<<m.file, m.line>> : m \in ToSet(all)} = LinesHeld(q)
  <2>1. \A g, i : ContentMatch(g, tree[g].lines, q, i).file = g /\ ContentMatch(g, tree[g].lines, q, i).line = i
    BY DEF ContentMatch
  <2>2. \A x : x \in LinesHeld(q) <=> \E f \in Searched1(q) : \E i \in Holding(tree[f].lines, q) : x = <<f, i>>
    BY DEF LinesHeld, Holding, Searched1
  <2>3. ASSUME NEW x PROVE (\E m \in M : x = <<m.file, m.line>>) <=> \E f \in Searched1(q) : \E i \in Holding(tree[f].lines, q) : x = <<f, i>>
    <3>1. ASSUME NEW m \in M, x = <<m.file, m.line>>
          PROVE  \E f \in Searched1(q) : \E i \in Holding(tree[f].lines, q) : x = <<f, i>>
      <4>1. PICK f \in Searched1(q) : \E i \in Holding(tree[f].lines, q) : m = ContentMatch(f, tree[f].lines, q, i)
        BY MatchIs
      <4>2. PICK i \in Holding(tree[f].lines, q) : m = ContentMatch(f, tree[f].lines, q, i)
        BY <4>1
      <4>3. x = <<f, i>>
        BY <2>1, <3>1, <4>2
      <4> QED
        BY <4>3
    <3>2. ASSUME NEW f \in Searched1(q), NEW i \in Holding(tree[f].lines, q), x = <<f, i>>
          PROVE  \E m \in M : x = <<m.file, m.line>>
      <4> DEFINE m == ContentMatch(f, tree[f].lines, q, i)
      <4>1. m.file = f /\ m.line = i
        BY <2>1
      <4>2. m \in M
        BY MatchIs
      <4> HIDE DEF m, M
      <4> QED
        BY <3>2, <4>1, <4>2
    <3> QED
      BY <3>1, <3>2
  <2> HIDE DEF M, q
  <2>4. \A x : x \in {<<m.file, m.line>> : m \in ToSet(all)} <=> \E m \in M : x = <<m.file, m.line>>
    BY <1>2
  <2> QED
    BY <2>2, <2>3, <2>4
<1>4. ASSUME NEW i \in DOMAIN all, NEW j \in DOMAIN all, i < j
      PROVE  \/ PositionIn(ByWalk, all[i].file) < PositionIn(ByWalk, all[j].file)
             \/ all[i].file = all[j].file /\ all[i].line < all[j].line
  <2>1. all[i] \in M /\ all[j] \in M /\ Lex(K[all[i]], K[all[j]])
    <3>1. all[i] \in M /\ all[j] \in M /\ i \in 1..Len(all) /\ j \in 1..Len(all)
      BY <1>2, ListIs
    <3>2. all[i] \in Asks(q)[all[j]]
      BY <1>1, <1>4, <3>1 DEF Sorted
    <3>3. Asks(q) = [x \in M |-> {y \in M : Lex(K[y], K[x])}]
      BY DEF Asks, Behind
    <3> HIDE DEF M, K, q
    <3> QED
      BY ONLY <3>1, <3>2, <3>3
  <2>2. /\ List(F) /\ ToSet(F) = Searched1(q)
        /\ \A x, y \in 1..Len(F) : x < y => PositionIn(ByWalk, F[x]) < PositionIn(ByWalk, F[y])
    BY SearchedFilesAre
  <2>3. \A m \in M : /\ m.file \in Searched1(q) /\ K[m][1] = PositionIn(F, m.file) /\ K[m][1] \in 1..Len(F)
                     /\ K[m][2] = m.line /\ K[m][3] = 0
    BY MatchesKeyed
  <2>4. \A f \in ToSet(F) : F[PositionIn(F, f)] = f
    BY <2>2, PositionIs
  <2> DEFINE a == all[i]
             b == all[j]
  <2>5. F[K[a][1]] = a.file /\ F[K[b][1]] = b.file /\ K[a][1] \in 1..Len(F) /\ K[b][1] \in 1..Len(F)
    BY <2>1, <2>2, <2>3, <2>4
  <2>6. K[a][1] < K[b][1] \/ (K[a][1] = K[b][1] /\ K[a][2] < K[b][2])
    <3>1. K[a][3] = 0 /\ K[b][3] = 0 /\ Lex(K[a], K[b])
      BY <2>1, <2>3
    <3> HIDE DEF a, b, K
    <3> QED
      BY <3>1 DEF Lex
  <2>7. K[a][2] = a.line /\ K[b][2] = b.line
    BY <2>1, <2>3
  <2> HIDE DEF a, b, K, F
  <2>8. \/ PositionIn(ByWalk, a.file) < PositionIn(ByWalk, b.file)
        \/ a.file = b.file /\ a.line < b.line
    BY <2>2, <2>5, <2>6, <2>7
  <2> QED
    BY <2>8 DEF a, b
<1> QED
  BY <1>2, <1>3, <1>4 DEF ContentTold, PositionIn, all

-----------------------------------------------------------------------------
(* The greatest and the least of some numbers.                             *)
LEMMA MaxIs ==
  ASSUME NEW S, S \subseteq Int, IsFiniteSet(S), S # {}
  PROVE  Max(S) \in S /\ Max(S) \in Int /\ \A y \in S : y <= Max(S)
<1>1. PICK k \in S : \A j \in S : j <= k
  BY GreatestExists
<1>2. \A y \in S : k >= y
  BY <1>1
<1>3. Max(S) \in S /\ \A y \in S : Max(S) >= y
  BY <1>2 DEF Max
<1> QED
  BY <1>3

\* Max of two numbers.
LEMMA MaxOfTwo ==
  ASSUME NEW a \in Int, NEW b \in Int
  PROVE  Max({a, b}) = (IF a <= b THEN b ELSE a) /\ Max({a, b}) \in Int
<1>1. IsFiniteSet({a, b})
  <2>1. IsFiniteSet({} \cup {a})
    BY FS_EmptySet, FS_AddElement
  <2>2. IsFiniteSet(({} \cup {a}) \cup {b}) /\ ({} \cup {a}) \cup {b} = {a, b}
    BY <2>1, FS_AddElement
  <2> QED
    BY <2>2
<1>2. Max({a, b}) \in {a, b} /\ a <= Max({a, b}) /\ b <= Max({a, b})
  BY <1>1, MaxIs
<1> QED
  BY <1>2

\* The greatest of more that are no greater is the same.
LEMMA MaxAmong ==
  ASSUME NEW S, S \subseteq Int, IsFiniteSet(S), NEW m \in S, \A y \in S : y <= m
  PROVE  Max(S) = m
<1>1. Max(S) \in S /\ m <= Max(S)
  BY MaxIs
<1>2. Max(S) <= m /\ Max(S) \in Int /\ m \in Int
  BY <1>1
<1> QED
  BY <1>1, <1>2

\* Numbers from zero have a least one.
LEMMA LeastExists ==
  ASSUME NEW D \in SUBSET Nat, D # {}
  PROVE  \E k \in D : \A j \in D : k <= j
<1> SUFFICES ASSUME ~ \E k \in D : \A j \in D : k <= j PROVE FALSE
  OBVIOUS
<1> DEFINE T == {n \in Nat : \A j \in D : n <= j}
<1>1. 0 \in T
  OBVIOUS
<1>2. ASSUME NEW n \in T PROVE n + 1 \in T
  <2>1. n \notin D
    OBVIOUS
  <2>2. \A j \in D : n <= j /\ n # j /\ j \in Nat
    BY <2>1
  <2>3. n \in Nat
    OBVIOUS
  <2>4. \A j \in D : n + 1 <= j
    BY <2>2, <2>3
  <2> QED
    BY <2>3, <2>4
<1> HIDE DEF T
<1>3. T = Nat
  BY <1>1, <1>2, Counting DEF T
<1>4. PICK d \in D : d \in Nat
  OBVIOUS
<1>5. d + 1 \in T
  BY <1>3, <1>4
<1> QED
  BY <1>4, <1>5 DEF T

\* Min is that.
LEMMA MinIs ==
  ASSUME NEW S, S \subseteq Nat, S # {}
  PROVE  Min(S) \in Nat
<1>1. PICK k \in S : \A j \in S : k <= j
  BY LeastExists
<1> QED
  BY <1>1 DEF Min

-----------------------------------------------------------------------------
(* What a role adds is a number.                                           *)
LEMMA RolesAreKnown ==
  ASSUME NEW f
  PROVE  Roles!ClassifyPathRole(f) \in DOMAIN Roles!RoleWorth
<1> DEFINE is == <<Roles!IsTestPath(f), Roles!IsConfigPath(f), Roles!IsHandlerPath(f), Roles!IsInfraPath(f),
                   Roles!IsEntrypointPath(f), Roles!IsCliPath(f), Roles!IsBootstrapPath(f), Bears(f, "=lib.rs"),
                   Roles!IsServicePath(f), TRUE>>
           D == {i \in 1..10 : is[i]}
           k == CHOOSE i \in DOMAIN is : is[i] /\ \A j \in 1..(i - 1) : ~is[j]
<1>1. Roles!ClassifyPathRole(f) = Roles!RolesInTurn[k]
  BY DEF Roles!ClassifyPathRole
<1>2. DOMAIN is = 1..10 /\ is[10] = TRUE
  OBVIOUS
<1> HIDE DEF is
<1>3. D \in SUBSET Nat /\ 10 \in D
  BY <1>2
<1>4. PICK n \in D : \A j \in D : n <= j
  <2> HIDE DEF D
  <2> QED
    BY <1>3, LeastExists
<1>5. n \in DOMAIN is /\ is[n] /\ \A j \in 1..(n - 1) : ~is[j]
  BY <1>2, <1>4
<1>6. k \in DOMAIN is
  BY <1>5
<1>7. k \in 1..10
  BY <1>2, <1>6
<1> HIDE DEF k
<1>8. \A i \in 1..10 : Roles!RolesInTurn[i] \in DOMAIN Roles!RoleWorth
  BY DEF Roles!RolesInTurn, Roles!RoleWorth
<1> QED
  BY <1>1, <1>7, <1>8

\* So that what a role adds is a number.
LEMMA BoostIsANumber ==
  ASSUME NEW f, NEW words
  PROVE  Roles!RoleBoostForPath(Profile, f, words) \in Int
<1> DEFINE role == Roles!RoleOf(Profile, f)
           archetype == Profile.archetype
<1>1. role \in DOMAIN Roles!RoleWorth
  BY RolesAreKnown, SearchAssumption DEF Roles!RoleOf
<1> HIDE DEF role
<1>2. Roles!RoleWorth[role] \in Int
  BY <1>1 DEF Roles!RoleWorth
<1>3. (IF archetype \in DOMAIN Roles!Favoured /\ role \in Roles!Favoured[archetype][2]
       THEN Roles!Favoured[archetype][1] ELSE 0) \in Int
  BY DEF Roles!Favoured
<1> DEFINE a == Roles!RoleWorth[role]
           b == IF archetype \in DOMAIN Roles!Favoured /\ role \in Roles!Favoured[archetype][2]
                THEN Roles!Favoured[archetype][1] ELSE 0
           t == IF words \cap Roles!Tracey # {} /\ role \in {"entrypoint", "bootstrap", "cli"} THEN 8 ELSE 0
           i == IF words \cap Roles!Impact # {} /\ role \in {"test", "config", "bootstrap"} THEN 4 ELSE 0
           g == IF words \cap Roles!Configy # {} /\ role \in {"config", "bootstrap"} THEN 6 ELSE 0
<1>4. Roles!RoleBoost(role, archetype, words) = a + b + t + i + g
  BY DEF Roles!RoleBoost
<1>5. t \in Int /\ i \in Int /\ g \in Int /\ a \in Int /\ b \in Int
  BY <1>2, <1>3
<1> HIDE DEF a, b, t, i, g
<1>6. Roles!RoleBoost(role, archetype, words) \in Int
  BY <1>4, <1>5
<1> QED
  BY <1>6 DEF Roles!RoleBoostForPath, role

-----------------------------------------------------------------------------
(* What a session adds to the score of a file, and that it is a number.    *)
Overlap(said, tokens) == Cardinality({j \in DOMAIN tokens : tokens[j] \in ToSet(said)})
Overlaps(queries, tokens) ==
  {0} \cup {3 + 2 * Overlap(queries[i].tokens, tokens) :
              i \in {x \in DOMAIN queries : Overlap(queries[x].tokens, tokens) > 0}}

\* How many tokens two texts share is a number,
LEMMA OverlapIs ==
  ASSUME NEW tokens, List(tokens), NEW said
  PROVE  Overlap(said, tokens) \in Nat
<1>1. DOMAIN tokens = 1..Len(tokens) /\ Len(tokens) \in Nat
  BY ListIs
<1>2. IsFiniteSet(1..Len(tokens))
  BY <1>1, FS_Interval
<1>3. IsFiniteSet({j \in DOMAIN tokens : tokens[j] \in ToSet(said)})
  BY <1>1, <1>2, FS_Subset
<1> QED
  BY <1>3, FS_CardinalityType DEF Overlap

\* what questions add by them is the greatest of some numbers,
LEMMA OverlapsAre ==
  ASSUME NEW tokens, List(tokens), NEW queries, List(queries)
  PROVE  /\ Overlaps(queries, tokens) \subseteq Int /\ IsFiniteSet(Overlaps(queries, tokens))
         /\ Overlaps(queries, tokens) # {}
         /\ QueryOverlapBoost(queries, tokens) = Max(Overlaps(queries, tokens))
         /\ QueryOverlapBoost(queries, tokens) \in Int
<1> DEFINE D == {x \in DOMAIN queries : Overlap(queries[x].tokens, tokens) > 0}
           g == [i \in D |-> 3 + 2 * Overlap(queries[i].tokens, tokens)]
           T == {g[i] : i \in D}
<1>1. DOMAIN queries = 1..Len(queries) /\ Len(queries) \in Nat
  BY ListIs
<1>2. IsFiniteSet(D)
  <2>1. IsFiniteSet(1..Len(queries))
    BY <1>1, FS_Interval
  <2> QED
    BY <1>1, <2>1, FS_Subset
<1>3. IsFiniteSet(T)
  <2>1. DOMAIN g = D
    OBVIOUS
  <2> HIDE DEF g, D
  <2> QED
    BY <1>2, <2>1, ImageIsFinite
<1>4. Overlaps(queries, tokens) = T \cup {0}
  BY DEF Overlaps
<1>5. \A i \in D : g[i] \in Int
  BY OverlapIs
<1> HIDE DEF g, D
<1>6. IsFiniteSet(T \cup {0}) /\ T \cup {0} \subseteq Int /\ T \cup {0} # {}
  BY <1>3, <1>5, FS_AddElement
<1>7. QueryOverlapBoost(queries, tokens) = Max(Overlaps(queries, tokens))
  BY DEF QueryOverlapBoost, Overlaps, Overlap
<1> HIDE DEF T
<1>8. Max(T \cup {0}) \in Int
  BY <1>6, MaxIs
<1> QED
  BY <1>4, <1>6, <1>7, <1>8

\* When the session has a tick for it at all.
LEMMA TicksAre ==
  ASSUME NEW s, Remembers(s)
  PROVE  /\ RecentTick(s) \in Int /\ RecentTick(s) <= s.clock
         /\ \A i \in DOMAIN s.queries : s.queries[i].tick <= RecentTick(s)
<1> DEFINE A == {s.files[k] : k \in DOMAIN s.files}
           B == {s.dirs[k] : k \in DOMAIN s.dirs}
           C == {s.queries[i].tick : i \in DOMAIN s.queries}
           ticks == A \cup B \cup C
<1>1. /\ s.clock \in Nat /\ IsFiniteSet(DOMAIN s.files) /\ IsFiniteSet(DOMAIN s.dirs)
      /\ \A k \in DOMAIN s.files : s.files[k] \in 0..s.clock
      /\ \A k \in DOMAIN s.dirs : s.dirs[k] \in 0..s.clock
  BY DEF Remembers, Dated
<1>2. DOMAIN s.queries = 1..Len(s.queries) /\ Len(s.queries) \in Nat /\ List(s.queries)
  BY ListIs DEF Remembers, List
<1>3. \A i \in DOMAIN s.queries : s.queries[i].tick \in 0..s.clock
  BY <1>2, ListIs DEF Remembers
<1>4. IsFiniteSet(A) /\ IsFiniteSet(B)
  BY <1>1, ImageIsFinite
<1>5. IsFiniteSet(C)
  <2> DEFINE t == [i \in DOMAIN s.queries |-> s.queries[i].tick]
  <2>1. IsFiniteSet(1..Len(s.queries))
    <3> DEFINE n == Len(s.queries)
    <3>1. n \in Int
      BY <1>2
    <3> HIDE DEF n
    <3>2. IsFiniteSet(1..n)
      BY <3>1, FS_Interval
    <3> QED
      BY <3>2 DEF n
  <2>2. IsFiniteSet({t[i] : i \in DOMAIN s.queries})
    <3>1. DOMAIN t = DOMAIN s.queries /\ IsFiniteSet(DOMAIN s.queries)
      BY <1>2, <2>1
    <3> HIDE DEF t
    <3> QED
      BY <3>1, ImageIsFinite
  <2> QED
    BY <2>2
<1>6. ticks \subseteq Int /\ \A x \in ticks : x <= s.clock
  BY <1>1, <1>3
<1>7. IsFiniteSet(ticks)
  <2> HIDE DEF A, B, C
  <2> QED
    BY <1>4, <1>5, FS_Union
<1>8. RecentTick(s) = IF ticks = {} THEN s.clock ELSE Max(ticks)
  BY DEF RecentTick
<1>9. \A i \in DOMAIN s.queries : s.queries[i].tick \in ticks
  OBVIOUS
<1> HIDE DEF ticks
<1>10. CASE ticks = {}
  BY <1>1, <1>8, <1>9, <1>10
<1>11. CASE ticks # {}
  <2>1. Max(ticks) \in ticks /\ Max(ticks) \in Int /\ \A y \in ticks : y <= Max(ticks)
    BY <1>6, <1>7, <1>11, MaxIs
  <2> QED
    BY <1>6, <1>8, <1>9, <1>11, <2>1
<1> QED
  BY <1>10, <1>11

\* and so is what was told recently.
LEMMA ScoreIs ==
  ASSUME NEW seen, NEW clock \in Nat, Dated(seen, clock), NEW key, NEW now \in Int, NEW base \in Int
  PROVE  /\ ScoreRecent(seen, key, now, base) \in Int
         /\ ScoreRecent(seen, key, now, base) >= 0
         /\ ScoreRecent(seen, key, now, base) = 0 <=> (key \in DOMAIN seen => base <= 2 * (now - seen[key]))
<1>1. CASE key \in DOMAIN seen
  <2> DEFINE n == base - 2 * (now - seen[key])
  <2>1. seen[key] \in Int
    BY <1>1 DEF Dated
  <2>2. n \in Int
    BY <2>1
  <2>3. ScoreRecent(seen, key, now, base) = Max({0, n})
    BY <1>1 DEF ScoreRecent
  <2>4. n <= 0 <=> base <= 2 * (now - seen[key])
    BY <2>1
  <2> HIDE DEF n
  <2>5. Max({0, n}) = (IF 0 <= n THEN n ELSE 0)
    BY <2>2, MaxOfTwo
  <2> QED
    BY <1>1, <2>2, <2>3, <2>4, <2>5
<1>2. CASE key \notin DOMAIN seen
  BY <1>2 DEF ScoreRecent
<1> QED
  BY <1>1, <1>2

\* Nothing is recent when neither the file nor a directory above it is.
LEMMA RecencyIs ==
  ASSUME NEW s, Remembers(s), NEW path, List(path)
  PROVE  /\ RecencyBoost(s, path) \in Int
         /\ RecencyBoost(s, path) = 0 <=>
              /\ path \in DOMAIN s.files => 18 <= 2 * (RecentTick(s) - s.files[path])
              /\ \A n \in 1..(Len(path) - 1) :
                   SubSeq(path, 1, n) \in DOMAIN s.dirs => 12 <= 2 * (RecentTick(s) - s.dirs[SubSeq(path, 1, n)])
<1> DEFINE now == RecentTick(s)
           a == ScoreRecent(s.files, path, now, 18)
           b == [n \in 1..(Len(path) - 1) |-> ScoreRecent(s.dirs, SubSeq(path, 1, n), now, 12)]
           S == {a} \cup {b[n] : n \in 1..(Len(path) - 1)}
<1>1. now \in Int /\ s.clock \in Nat /\ Dated(s.files, s.clock) /\ Dated(s.dirs, s.clock) /\ Len(path) \in Nat
  BY TicksAre, ListIs DEF Remembers
<1>2. RecencyBoost(s, path) = Max(S)
  BY DEF RecencyBoost
<1>3. /\ a \in Int /\ a >= 0
      /\ a = 0 <=> (path \in DOMAIN s.files => 18 <= 2 * (now - s.files[path]))
  <2> HIDE DEF now
  <2> QED
    BY <1>1, ScoreIs
<1>4. ASSUME NEW n \in 1..(Len(path) - 1)
      PROVE  /\ b[n] \in Int /\ b[n] >= 0
             /\ b[n] = 0 <=> (SubSeq(path, 1, n) \in DOMAIN s.dirs => 12 <= 2 * (now - s.dirs[SubSeq(path, 1, n)]))
  <2> DEFINE key == SubSeq(path, 1, n)
  <2>1. b[n] = ScoreRecent(s.dirs, key, now, 12)
    OBVIOUS
  <2> HIDE DEF now, b, key
  <2>2. /\ ScoreRecent(s.dirs, key, now, 12) \in Int /\ ScoreRecent(s.dirs, key, now, 12) >= 0
        /\ ScoreRecent(s.dirs, key, now, 12) = 0 <=> (key \in DOMAIN s.dirs => 12 <= 2 * (now - s.dirs[key]))
    BY <1>1, ScoreIs
  <2> QED
    BY <2>1, <2>2 DEF key
<1>5. IsFiniteSet(S)
  <2>1. IsFiniteSet(1..(Len(path) - 1))
    <3> DEFINE m == Len(path) - 1
    <3>1. m \in Int
      BY <1>1
    <3> HIDE DEF m
    <3>2. IsFiniteSet(1..m)
      BY <3>1, FS_Interval
    <3> QED
      BY <3>2 DEF m
  <2>2. DOMAIN b = 1..(Len(path) - 1)
    OBVIOUS
  <2> HIDE DEF b, a
  <2>3. IsFiniteSet({b[n] : n \in 1..(Len(path) - 1)})
    BY <2>1, <2>2, ImageIsFinite
  <2>4. S = {b[n] : n \in 1..(Len(path) - 1)} \cup {a}
    OBVIOUS
  <2> HIDE DEF S
  <2> QED
    BY <2>3, <2>4, FS_AddElement
<1>6. S \subseteq Int /\ S # {} /\ a \in S /\ (\A n \in 1..(Len(path) - 1) : b[n] \in S)
      /\ \A x \in S : x >= 0
  <2> HIDE DEF a, b
  <2> QED
    BY <1>3, <1>4
<1>7. \A x \in S : x = a \/ \E n \in 1..(Len(path) - 1) : x = b[n]
  OBVIOUS
<1> HIDE DEF S, a, b
<1>8. Max(S) \in S /\ Max(S) \in Int /\ \A y \in S : y <= Max(S)
  BY <1>5, <1>6, MaxIs
<1>9. Max(S) = 0 <=> (a = 0 /\ \A n \in 1..(Len(path) - 1) : b[n] = 0)
  <2>1. ASSUME Max(S) = 0 PROVE a = 0 /\ \A n \in 1..(Len(path) - 1) : b[n] = 0
    BY <1>3, <1>4, <1>6, <1>8, <2>1
  <2>2. ASSUME a = 0, \A n \in 1..(Len(path) - 1) : b[n] = 0 PROVE Max(S) = 0
    BY <1>7, <1>8, <2>2
  <2> QED
    BY <2>1, <2>2
<1> HIDE DEF now
<1>10. (\A n \in 1..(Len(path) - 1) : b[n] = 0) <=>
         \A n \in 1..(Len(path) - 1) : SubSeq(path, 1, n) \in DOMAIN s.dirs => 12 <= 2 * (now - s.dirs[SubSeq(path, 1, n)])
  BY <1>4
<1> QED
  BY <1>2, <1>3, <1>8, <1>9, <1>10 DEF now

-----------------------------------------------------------------------------
(* The score of a file is a number, and how it ranks among those whose     *)
(* names answer.                                                           *)
LookedFor(q) ==
  /\ List(q.tokens) /\ IsFiniteSet(q.grams)
  /\ \A f \in ToSet(ByWalk) : q.at[f].name \subseteq Nat /\ q.at[f].path \subseteq Nat
PathOf(f) == Root \o FileOf(f).path

\* Paths have their tokens, and that of a file begins with that of the root.
LEMMA PathsAre ==
  ASSUME NEW f \in ToSet(ByWalk)
  PROVE  /\ List(FileOf(f).path) /\ FileOf(f).path # << >> /\ List(Root) /\ Len(Root) >= 1
         /\ Len(Root) \in Nat /\ Len(FileOf(f).path) \in Nat /\ Len(FileOf(f).path) >= 1
         /\ List(PathOf(f)) /\ Len(PathOf(f)) = Len(Root) + Len(FileOf(f).path)
         /\ PathOf(f)[1] = Root[1] /\ FileOf(f).path[1] # Root[1]
         /\ List(PathTokens(PathOf(f)))
<1> DEFINE p == FileOf(f).path
           r == PathOf(f)
<1>1. List(p) /\ p # << >> /\ List(Root) /\ Root # << >> /\ p[1] # Root[1]
      /\ \A name \in ToSet(Root) \cup ToSet(p) : List(TokensOf(name))
  BY SearchAssumption DEF List
<1>2. r = Root \o p
  BY DEF PathOf
<1> HIDE DEF p, r
<1>3. Len(p) \in Nat /\ Len(Root) \in Nat
  BY <1>1, ListIs
<1>4. Len(p) # 0 /\ Len(Root) # 0
  BY <1>1, EmptyList, SameList
<1>5. /\ List(r) /\ Len(r) = Len(Root) + Len(p) /\ ToSet(r) = ToSet(Root) \cup ToSet(p)
      /\ \A i \in 1..Len(Root) : r[i] = Root[i]
  BY <1>1, <1>2, JoinedList
<1>6. r[1] = Root[1]
  BY <1>3, <1>4, <1>5
<1>7. List(PathTokens(r))
  <2> DEFINE t == [i \in DOMAIN r |-> TokensOf(r[i])]
  <2>1. DOMAIN r = 1..Len(r) /\ Len(r) \in Nat /\ \A i \in 1..Len(r) : r[i] \in ToSet(r)
    BY <1>5, ListIs
  <2>2. \A i \in 1..Len(r) : t[i] = TokensOf(r[i]) /\ List(t[i])
    BY <1>1, <1>5, <2>1
  <2>3. DOMAIN t = 1..Len(r) /\ t = [i \in 1..Len(r) |-> t[i]]
    BY <2>1
  <2>4. PathTokens(r) = FlattenSeq(t)
    BY DEF PathTokens
  <2> HIDE DEF t
  <2>5. List(t) /\ Len(t) = Len(r)
    BY <2>1, <2>3, ListMade
  <2>6. Lists(t)
    BY <2>2, <2>5 DEF Lists
  <2> QED
    BY <2>4, <2>6, FlattenIsList
<1> QED
  BY <1>1, <1>3, <1>4, <1>5, <1>6, <1>7 DEF p, r

\* How alike two sets of trigrams are is a number.
LEMMA SimilarityIs ==
  ASSUME NEW a, NEW b, IsFiniteSet(a), IsFiniteSet(b)
  PROVE  Similarity(a, b) \in Int
<1>1. CASE a = {} \/ b = {}
  BY <1>1 DEF Similarity
<1>2. CASE a # {} /\ b # {}
  <2>1. IsFiniteSet(a \cap b) /\ IsFiniteSet(a \cup b) /\ a \cup b # {}
    BY <1>2, FS_Intersection, FS_Union
  <2>2. Cardinality(a \cap b) \in Nat /\ Cardinality(a \cup b) \in Nat /\ Cardinality(a \cup b) # 0
    BY <2>1, FS_CardinalityType, FS_EmptySet
  <2> DEFINE m == Cardinality(a \cap b)
             n == Cardinality(a \cup b)
  <2>3. Similarity(a, b) = (10000 * m) \div n
    BY <1>2 DEF Similarity
  <2>4. m \in Nat /\ n \in Nat /\ n > 0
    BY <2>2
  <2> HIDE DEF m, n
  <2>5. (10000 * m) \div n \in Int
    BY <2>4
  <2> QED
    BY <2>3, <2>5
<1> QED
  BY <1>1, <1>2

\* A name answers with one number, or not at all.
LEMMA NamesScore ==
  ASSUME NEW f \in ToSet(ByWalk), NEW q, LookedFor(q)
  PROVE  NameScores(f, q) = {} \/ \E n \in Int : NameScores(f, q) = {n}
<1> DEFINE file == FileOf(f)
           similar == Max({Similarity(q.grams, file.nameGrams), Similarity(q.grams, file.pathGrams)})
<1>1. /\ file.nameWidth \in Nat /\ file.pathWidth \in Nat
      /\ IsFiniteSet(file.nameGrams) /\ IsFiniteSet(file.pathGrams)
  BY SearchAssumption
<1>2. similar \in Int
  BY <1>1, SimilarityIs, MaxOfTwo DEF LookedFor
<1>3. q.at[f].name # {} => Min(q.at[f].name) \in Nat
  BY MinIs DEF LookedFor
<1>4. q.at[f].path # {} => Min(q.at[f].path) \in Nat
  BY MinIs DEF LookedFor
<1> DEFINE n1 == 22000 - 100 * Min(q.at[f].name) - file.nameWidth
           n2 == 18000 - 100 * Min(q.at[f].path) - file.pathWidth
<1>5. (q.at[f].name # {} => n1 \in Int) /\ (q.at[f].path # {} => n2 \in Int)
  BY <1>1, <1>3, <1>4
<1>6. NameScores(f, q) \in {{}, {30000}, {28000}, {20000}, {similar}}
        \/ (q.at[f].name # {} /\ NameScores(f, q) = {n1}) \/ (q.at[f].path # {} /\ NameScores(f, q) = {n2})
  BY DEF NameScores
<1> HIDE DEF similar, n1, n2
<1>7. 30000 \in Int /\ 28000 \in Int /\ 20000 \in Int
  OBVIOUS
<1> QED
  BY <1>2, <1>5, <1>6, <1>7

\* What the name and the role of a file are worth, with what the question
\* itself adds once it is remembered.
Own(q, f) == QueryOverlapBoost(<<[tokens |-> q.tokens]>>, PathTokens(PathOf(f)))
NameWorth(q, f) == Max(NameScores(f, q)) + 100 * Roles!RoleBoostForPath(Profile, f, ToSet(q.tokens)) + 100 * Own(q, f)
Calm(s, q) ==
  \A f \in ToSet(ByWalk) :
    /\ RecencyBoost(s, PathOf(f)) = 0
    /\ QueryOverlapBoost(s.queries, PathTokens(PathOf(f))) = Own(q, f)

\* A list of one question.
LEMMA SingleQuestion ==
  ASSUME NEW tokens
  PROVE  LET queries == <<[tokens |-> tokens]>>
         IN List(queries) /\ Len(queries) = 1 /\ queries[1].tokens = tokens
<1> DEFINE queries == <<[tokens |-> tokens]>>
<1>1. DOMAIN queries = 1..1 /\ queries = [i \in 1..1 |-> queries[i]] /\ queries[1] = [tokens |-> tokens]
  OBVIOUS
<1> HIDE DEF queries
<1>2. List(queries) /\ Len(queries) = 1
  BY <1>1, ListMade
<1> QED
  BY <1>1, <1>2 DEF queries

\* What a file is worth to a question, whatever was asked before, is a number;
LEMMA WorthIs ==
  ASSUME NEW f \in ToSet(ByWalk), NEW q, LookedFor(q), NameScores(f, q) # {}
  PROVE  NameWorth(q, f) \in Int
<1>1. PICK n \in Int : NameScores(f, q) = {n}
  BY NamesScore
<1>2. Max(NameScores(f, q)) \in Int
  <2>1. IsFiniteSet({n})
    BY FS_Singleton
  <2> QED
    BY <1>1, <2>1, MaxIs
<1>3. Roles!RoleBoostForPath(Profile, f, ToSet(q.tokens)) \in Int
  BY BoostIsANumber
<1>4. Own(q, f) \in Int
  <2>1. List(PathTokens(PathOf(f)))
    BY PathsAre
  <2> DEFINE queries == <<[tokens |-> q.tokens]>>
             t == PathTokens(PathOf(f))
  <2>2. List(queries)
    BY SingleQuestion
  <2> HIDE DEF queries, t
  <2>3. QueryOverlapBoost(queries, t) \in Int
    BY <2>1, <2>2, OverlapsAre DEF t
  <2> QED
    BY <2>3 DEF Own, queries, t
<1> QED
  BY <1>2, <1>3, <1>4 DEF NameWorth

\* and its score in a calm session is that and what every file gets.
LEMMA FileScoreIs ==
  ASSUME NEW f \in ToSet(ByWalk), NEW q, LookedFor(q), NameScores(f, q) # {}, NEW s, Remembers(s)
  PROVE  /\ FileScore(s, q, f) \in Int
         /\ 50 * QueryOverlapBoost(s.queries, q.tokens) \in Int
         /\ Calm(s, q) => FileScore(s, q, f) = NameWorth(q, f) + 50 * QueryOverlapBoost(s.queries, q.tokens)
<1> DEFINE a == Max(NameScores(f, q))
           b == Roles!RoleBoostForPath(Profile, f, ToSet(q.tokens))
           x == RecencyBoost(s, PathOf(f))
           y == QueryOverlapBoost(s.queries, PathTokens(PathOf(f)))
           z == QueryOverlapBoost(s.queries, q.tokens)
<1>1. FileScore(s, q, f) = a + 100 * b + 100 * (x + y) + 50 * z
  BY DEF FileScore, FileBoost, PathOf
<1>2. NameWorth(q, f) = a + 100 * b + 100 * Own(q, f)
  BY DEF NameWorth
<1>3. a \in Int
  <2>1. PICK n \in Int : NameScores(f, q) = {n}
    BY NamesScore
  <2>2. IsFiniteSet({n})
    BY FS_Singleton
  <2> QED
    BY <2>1, <2>2, MaxIs
<1>4. b \in Int
  BY BoostIsANumber
<1>5. x \in Int
  BY PathsAre, RecencyIs
<1>6. y \in Int /\ z \in Int
  <2>1. List(s.queries) /\ List(q.tokens) /\ List(PathTokens(PathOf(f)))
    BY PathsAre DEF Remembers, List, LookedFor
  <2> QED
    BY <2>1, OverlapsAre
<1>7. Calm(s, q) => x = 0 /\ y = Own(q, f)
  BY DEF Calm
<1> HIDE DEF a, b, x, y, z
<1>8. 50 * z \in Int /\ FileScore(s, q, f) \in Int
  BY <1>1, <1>3, <1>4, <1>5, <1>6
<1>9. Calm(s, q) => FileScore(s, q, f) = NameWorth(q, f) + 50 * z
  BY <1>1, <1>2, <1>3, <1>4, <1>5, <1>6, <1>7
<1> QED
  BY <1>8, <1>9 DEF z

-----------------------------------------------------------------------------
(* What a session remembers after a call, and that a steady search stays   *)
(* steady: what is recorded of its files is under no path that it asks of. *)
LEMMA LookedIs ==
  ASSUME NEW s, Remembers(s), NEW times \in Nat, NEW u, u = Looked(s, times)
  PROVE  /\ Remembers(u) /\ u.files = s.files /\ u.dirs = s.dirs /\ u.queries = s.queries
         /\ s.clock <= u.clock
<1>1. /\ DOMAIN s = {"clock", "queries", "files", "dirs"} /\ s.clock \in Nat
      /\ Dated(s.files, s.clock) /\ Dated(s.dirs, s.clock)
      /\ s.queries \in Seq(ToSet(s.queries))
      /\ \A asked \in ToSet(s.queries) : asked.tokens \in Seq(ToSet(asked.tokens)) /\ asked.tick \in 0..s.clock
  BY DEF Remembers
<1>2. u = s \/ u = [s EXCEPT !.clock = @ + times]
  BY DEF Looked
<1>3. /\ DOMAIN u = DOMAIN s /\ u.files = s.files /\ u.dirs = s.dirs /\ u.queries = s.queries
      /\ u.clock \in {s.clock, s.clock + times}
  BY <1>1, <1>2
<1>4. u.clock \in Nat /\ s.clock <= u.clock
  BY <1>1, <1>3
<1>5. Dated(s.files, u.clock) /\ Dated(s.dirs, u.clock)
  BY <1>1, <1>4 DEF Dated
<1>6. \A asked \in ToSet(s.queries) : asked.tick \in 0..u.clock
  BY <1>1, <1>4
<1> QED
  BY <1>1, <1>3, <1>4, <1>5, <1>6 DEF Remembers

(* The questions after one more: it is the first, and some of the others.  *)
Questions(was, now, tokens, tick) ==
  /\ List(now) /\ Len(now) >= 1 /\ now[1].tokens = tokens /\ now[1].tick = tick
  /\ \A i \in 1..Len(now) : i = 1 \/ (i - 1 \in 1..Len(was) /\ now[i] = was[i - 1])

\* A question is the latest, and the oldest may be forgotten.
LEMMA QuestionIs ==
  ASSUME NEW s, Remembers(s), NEW tokens, List(tokens), NEW u, u = RecordQuery(s, tokens)
  PROVE  /\ Remembers(u) /\ u.files = s.files /\ u.dirs = s.dirs
         /\ Questions(s.queries, u.queries, tokens, s.clock)
<1> DEFINE new == [tokens |-> tokens, tick |-> s.clock]
           one == <<new>>
           all == one \o s.queries
           n == Min({Len(all), MaxQueries})
           v == SubSeq(all, 1, n)
<1>1. /\ DOMAIN s = {"clock", "queries", "files", "dirs"} /\ s.clock \in Nat
      /\ Dated(s.files, s.clock) /\ Dated(s.dirs, s.clock) /\ List(s.queries)
      /\ \A asked \in ToSet(s.queries) : List(asked.tokens) /\ asked.tick \in 0..s.clock
  BY DEF Remembers, List
<1>2. /\ DOMAIN u = DOMAIN s /\ u.files = s.files /\ u.dirs = s.dirs /\ u.queries = v
      /\ u.clock = s.clock + 2
  BY <1>1 DEF RecordQuery
<1>3. List(one) /\ Len(one) = 1 /\ one[1] = new
  <2>1. DOMAIN one = 1..1 /\ one = [i \in 1..1 |-> one[i]] /\ one[1] = new
    OBVIOUS
  <2> HIDE DEF one
  <2>2. List(one) /\ Len(one) = 1
    BY <2>1, ListMade
  <2> QED
    BY <2>1, <2>2
<1>4. new.tokens = tokens /\ new.tick = s.clock
  OBVIOUS
<1> HIDE DEF one, new
<1>5. /\ List(all) /\ Len(all) = 1 + Len(s.queries) /\ all[1] = new
      /\ \A i \in 1..Len(s.queries) : all[1 + i] = s.queries[i]
  <2>1. /\ List(one \o s.queries) /\ Len(one \o s.queries) = Len(one) + Len(s.queries)
        /\ \A i \in 1..Len(one) : (one \o s.queries)[i] = one[i]
        /\ \A i \in 1..Len(s.queries) : (one \o s.queries)[Len(one) + i] = s.queries[i]
    <3>1. List(one) /\ List(s.queries)
      BY <1>1, <1>3
    <3> QED
      BY ONLY <3>1, JoinedList
  <2>2. 1 \in 1..Len(one)
    BY <1>3
  <2> QED
    BY <1>3, <2>1, <2>2
<1>6. Len(s.queries) \in Nat /\ MaxQueries \in Nat /\ MaxQueries >= 1
  BY <1>1, ListIs, SearchAssumption
<1> HIDE DEF all
<1>7. n \in Nat /\ n >= 1 /\ n <= Len(all)
  <2>1. Len(all) \in Nat /\ Len(all) >= 1
    BY <1>5, <1>6
  <2>2. n = (IF Len(all) <= MaxQueries THEN Len(all) ELSE MaxQueries)
    BY <1>6, <2>1, LeastOfTwo
  <2> HIDE DEF n
  <2> QED
    BY <1>6, <2>1, <2>2
<1> HIDE DEF n
<1>8. List(v) /\ Len(v) = n /\ \A i \in 1..n : v[i] = all[i]
  BY <1>5, <1>7, StartOfList
<1> HIDE DEF v
<1>9. ASSUME NEW i \in 1..n
      PROVE  i = 1 \/ (i - 1 \in 1..Len(s.queries) /\ v[i] = s.queries[i - 1])
  <2> SUFFICES ASSUME i # 1 PROVE i - 1 \in 1..Len(s.queries) /\ v[i] = s.queries[i - 1]
    OBVIOUS
  <2>1. i - 1 \in 1..Len(s.queries) /\ 1 + (i - 1) = i
    BY <1>5, <1>6, <1>7
  <2>2. all[1 + (i - 1)] = s.queries[i - 1]
    BY <1>5, <2>1
  <2> QED
    BY <1>8, <2>1, <2>2
<1>10. v[1] = new
  BY <1>5, <1>7, <1>8
<1>11. ASSUME NEW asked \in ToSet(v) PROVE List(asked.tokens) /\ asked.tick \in 0..u.clock
  <2>1. PICK i \in 1..n : asked = v[i]
    BY <1>8, ListIs DEF ToSet
  <2>2. CASE i = 1
    BY <1>1, <1>2, <1>4, <1>10, <2>1, <2>2
  <2>3. CASE i # 1
    <3>1. i - 1 \in 1..Len(s.queries) /\ asked = s.queries[i - 1]
      BY <1>9, <2>1, <2>3
    <3>2. asked \in ToSet(s.queries)
      BY <1>1, <3>1, ListIs
    <3> QED
      BY <1>1, <1>2, <3>2
  <2> QED
    BY <2>2, <2>3
<1>12. u.clock \in Nat /\ Dated(u.files, u.clock) /\ Dated(u.dirs, u.clock)
  BY <1>1, <1>2 DEF Dated
<1>13. Remembers(u)
  BY <1>1, <1>2, <1>8, <1>11, <1>12 DEF Remembers, List
<1>14. Questions(s.queries, v, tokens, s.clock)
  BY <1>4, <1>7, <1>8, <1>9, <1>10 DEF Questions
<1> QED
  BY <1>2, <1>13, <1>14

-----------------------------------------------------------------------------
\* The files of a page are recorded by their paths from the root.
FilesNoted(seen, was) ==
  \A k \in DOMAIN seen : (k \in DOMAIN was /\ seen[k] = was[k]) \/ \E f \in ToSet(ByWalk) : k = FileOf(f).path
DirsNoted(seen, was) ==
  \A k \in DOMAIN seen : (k \in DOMAIN was /\ seen[k] = was[k]) \/ \E f \in ToSet(ByWalk) : k = Front(FileOf(f).path)
Follows(s, u) ==
  /\ Remembers(u) /\ u.queries = s.queries
  /\ FilesNoted(u.files, s.files) /\ DirsNoted(u.dirs, s.dirs)

\* What was told of recently is dated by now or as before.
LEMMA RecentlyIs ==
  ASSUME NEW seen, NEW clock \in Nat, Dated(seen, clock), NEW key, NEW r, r = Recently(seen, key, clock)
  PROVE  /\ Dated(r, clock + 2)
         /\ \A k \in DOMAIN r : k = key \/ (k \in DOMAIN seen /\ r[k] = seen[k])
<1> DEFINE all == [k \in DOMAIN seen \cup {key} |-> IF k = key THEN clock ELSE seen[k]]
           newest == {k \in DOMAIN all : Cardinality({j \in DOMAIN all : all[j] > all[k]}) < MaxRecent}
<1>1. r = [k \in newest |-> all[k]]
  BY DEF Recently
<1>2. newest \subseteq DOMAIN seen \cup {key}
  OBVIOUS
<1>3. \A k \in DOMAIN seen \cup {key} : all[k] = IF k = key THEN clock ELSE seen[k]
  OBVIOUS
<1> HIDE DEF newest, all
<1>4. IsFiniteSet(newest)
  <2>1. IsFiniteSet(DOMAIN seen \cup {key})
    BY FS_AddElement DEF Dated
  <2> QED
    BY <1>2, <2>1, FS_Subset
<1>5. DOMAIN r = newest /\ \A k \in newest : r[k] = all[k]
  BY <1>1
<1>6. \A k \in newest : k = key \/ (k \in DOMAIN seen /\ r[k] = seen[k])
  BY <1>2, <1>3, <1>5
<1>7. \A k \in newest : r[k] \in 0..(clock + 2)
  <2>1. \A k \in newest : r[k] \in 0..clock
    BY <1>2, <1>3, <1>5 DEF Dated
  <2> QED
    BY <2>1
<1> QED
  BY <1>4, <1>5, <1>6, <1>7 DEF Dated

\* A file that is told of,
LEMMA FileRecorded ==
  ASSUME NEW s, NEW u, Follows(s, u), NEW f \in ToSet(ByWalk), NEW v, v = RecordFile(u, FileOf(f).path)
  PROVE  Follows(s, v)
<1> DEFINE p == FileOf(f).path
           a == Recently(u.files, p, u.clock)
           b == Recently(u.dirs, Front(p), u.clock)
<1>1. /\ DOMAIN u = {"clock", "queries", "files", "dirs"} /\ u.clock \in Nat
      /\ Dated(u.files, u.clock) /\ Dated(u.dirs, u.clock) /\ u.queries \in Seq(ToSet(u.queries))
      /\ \A asked \in ToSet(u.queries) : asked.tokens \in Seq(ToSet(asked.tokens)) /\ asked.tick \in 0..u.clock
      /\ u.queries = s.queries /\ FilesNoted(u.files, s.files) /\ DirsNoted(u.dirs, s.dirs)
  BY DEF Follows, Remembers
<1>2. /\ DOMAIN v = DOMAIN u /\ v.files = a /\ v.dirs = b /\ v.queries = u.queries /\ v.clock = u.clock + 2
  BY <1>1 DEF RecordFile
<1> HIDE DEF a, b
<1>3. Dated(a, u.clock + 2) /\ \A k \in DOMAIN a : k = p \/ (k \in DOMAIN u.files /\ a[k] = u.files[k])
  BY <1>1, RecentlyIs DEF a
<1>4. Dated(b, u.clock + 2) /\ \A k \in DOMAIN b : k = Front(p) \/ (k \in DOMAIN u.dirs /\ b[k] = u.dirs[k])
  BY <1>1, RecentlyIs DEF b
<1>5. FilesNoted(a, s.files)
  BY <1>1, <1>3 DEF FilesNoted
<1>6. DirsNoted(b, s.dirs)
  BY <1>1, <1>4 DEF DirsNoted
<1>7. v.clock \in Nat /\ \A asked \in ToSet(v.queries) : asked.tick \in 0..v.clock
  BY <1>1, <1>2
<1>8. Remembers(v)
  BY <1>1, <1>2, <1>3, <1>4, <1>7 DEF Remembers
<1> QED
  BY <1>1, <1>2, <1>5, <1>6, <1>8 DEF Follows

\* What is recorded file by file.
Recording(s, files, n, F) ==
  DOMAIN F = 0..n /\ F[0] = s /\ \A i \in 1..n : F[i] = RecordFile(F[i - 1], FileOf(files[i]).path)

\* and one after another,
LEMMA RecordingExists ==
  ASSUME NEW s, NEW files, NEW n \in Nat
  PROVE  \E F : Recording(s, files, n, F)
<1> DEFINE S == {k \in Nat : \E F : Recording(s, files, k, F)}
<1>1. 0 \in S
  <2>1. Recording(s, files, 0, [i \in 0..0 |-> s])
    BY DEF Recording
  <2> QED
    BY <2>1
<1>2. ASSUME NEW k \in S PROVE k + 1 \in S
  <2>1. PICK F : Recording(s, files, k, F)
    OBVIOUS
  <2> DEFINE next == RecordFile(F[k], FileOf(files[k + 1]).path)
             G == [i \in 0..(k + 1) |-> IF i <= k THEN F[i] ELSE next]
  <2>2. DOMAIN G = 0..(k + 1) /\ G[0] = s /\ k \in Nat
    BY <2>1 DEF Recording
  <2>3. ASSUME NEW i \in 1..(k + 1) PROVE G[i] = RecordFile(G[i - 1], FileOf(files[i]).path)
    <3>1. CASE i <= k
      <4>1. i \in 1..k /\ i - 1 \in 0..k /\ i \in 0..(k + 1) /\ i - 1 \in 0..(k + 1) /\ i - 1 <= k
        BY <2>2, <3>1
      <4>2. G[i] = F[i] /\ G[i - 1] = F[i - 1]
        BY <3>1, <4>1
      <4>3. F[i] = RecordFile(F[i - 1], FileOf(files[i]).path)
        BY <2>1, <4>1 DEF Recording
      <4> QED
        BY <4>2, <4>3
    <3>2. CASE ~(i <= k)
      <4>1. i = k + 1 /\ k + 1 \in 0..(k + 1) /\ k \in 0..(k + 1) /\ k <= k /\ ~(k + 1 <= k) /\ (k + 1) - 1 = k
        BY <2>2, <3>2
      <4>2. G[k + 1] = next /\ G[k] = F[k]
        BY <4>1
      <4> HIDE DEF G
      <4>3. G[k + 1] = RecordFile(G[k], FileOf(files[k + 1]).path)
        BY <4>2
      <4> QED
        BY <4>1, <4>3
    <3> QED
      BY <3>1, <3>2
  <2> HIDE DEF G
  <2>4. Recording(s, files, k + 1, G)
    BY <2>2, <2>3 DEF Recording
  <2> QED
    BY <2>2, <2>4
<1> HIDE DEF S
<1>3. S = Nat
  BY <1>1, <1>2, Counting DEF S
<1> QED
  BY <1>3 DEF S

\* as RecordFiles does it.
LEMMA FilesRecorded ==
  ASSUME NEW s, Remembers(s), NEW files, List(files), ToSet(files) \subseteq ToSet(ByWalk),
         NEW u, u = RecordFiles(s, files)
  PROVE  Follows(s, u)
<1> DEFINE n == Len(files)
           Body(G) == [i \in 0..n |-> IF i = 0 THEN s ELSE RecordFile(G[i - 1], FileOf(files[i]).path)]
           upTo == CHOOSE G : G = Body(G)
<1>1. n \in Nat /\ \A i \in 1..n : files[i] \in ToSet(ByWalk)
  BY ListIs
<1>2. u = upTo[n]
  BY DEF RecordFiles
<1> HIDE DEF n
<1>3. \E G : G = Body(G)
  <2>1. PICK F : Recording(s, files, n, F)
    BY <1>1, RecordingExists
  <2> DEFINE W == [i \in 0..n |-> F[i]]
  <2>2. ASSUME NEW i \in 0..n PROVE F[i] = IF i = 0 THEN s ELSE RecordFile(W[i - 1], FileOf(files[i]).path)
    <3>1. CASE i = 0
      BY <2>1, <3>1 DEF Recording
    <3>2. CASE i # 0
      <4>1. i \in 1..n /\ i - 1 \in 0..n
        BY <1>1, <3>2
      <4>2. F[i] = RecordFile(F[i - 1], FileOf(files[i]).path)
        BY <2>1, <4>1 DEF Recording
      <4>3. W[i - 1] = F[i - 1]
        BY <4>1
      <4> QED
        BY <3>2, <4>2, <4>3
    <3> QED
      BY <3>1, <3>2
  <2>3. W = Body(W)
    BY <2>2
  <2> HIDE DEF W
  <2> QED
    BY <2>3
<1>4. upTo = Body(upTo)
  BY <1>3
<1> HIDE DEF upTo
<1> DEFINE S == {i \in Nat : i \in 0..n => Follows(s, upTo[i])}
<1>5. 0 \in S
  <2>1. 0 \in 0..n
    BY <1>1
  <2>2. upTo[0] = s
    BY <1>4, <2>1
  <2>3. Follows(s, s)
    BY DEF Follows, FilesNoted, DirsNoted
  <2> QED
    BY <2>2, <2>3
<1>6. ASSUME NEW i \in S PROVE i + 1 \in S
  <2>0. i \in Nat
    OBVIOUS
  <2> SUFFICES ASSUME i + 1 \in 0..n PROVE Follows(s, upTo[i + 1])
    BY <2>0
  <2>1. i \in 0..n /\ i + 1 \in 1..n /\ i + 1 # 0 /\ (i + 1) - 1 = i
    BY <1>1, <2>0
  <2>2. upTo[i + 1] = RecordFile(upTo[(i + 1) - 1], FileOf(files[i + 1]).path)
    BY <1>4, <2>1
  <2>3. Follows(s, upTo[i])
    BY <2>1
  <2>4. upTo[i + 1] = RecordFile(upTo[i], FileOf(files[i + 1]).path) /\ files[i + 1] \in ToSet(ByWalk)
    BY <1>1, <2>1, <2>2
  <2> QED
    BY <2>3, <2>4, FileRecorded
<1> HIDE DEF S
<1>7. S = Nat
  BY <1>5, <1>6, Counting DEF S
<1>8. n \in S /\ n \in 0..n
  BY <1>1, <1>7
<1> QED
  BY <1>2, <1>8 DEF S

\* The greatest overlap of questions that are the asked one and some that
\* overlap as much is that of the asked one.
LEMMA OverlapStays ==
  ASSUME NEW tokens, List(tokens), NEW said, List(said),
         NEW was, List(was),
         NEW now, NEW tick, Questions(was, now, said, tick),
         NEW own, own = QueryOverlapBoost(<<[tokens |-> said]>>, tokens),
         QueryOverlapBoost(was, tokens) = own
  PROVE  QueryOverlapBoost(now, tokens) = own
<1>0. /\ List(now) /\ Len(now) >= 1 /\ now[1].tokens = said
      /\ \A i \in 1..Len(now) : i = 1 \/ (i - 1 \in 1..Len(was) /\ now[i] = was[i - 1])
  BY DEF Questions
<1> DEFINE one == <<[tokens |-> said]>>
           S == Overlaps(one, tokens)
           T == Overlaps(was, tokens)
           U == Overlaps(now, tokens)
           over(t) == Overlap(t, tokens)
<1>1. List(one) /\ Len(one) = 1 /\ one[1].tokens = said
  BY SingleQuestion
<1> HIDE DEF one
<1>2. /\ S \subseteq Int /\ IsFiniteSet(S) /\ S # {} /\ own = Max(S)
  BY <1>1, OverlapsAre DEF one
<1>3. /\ T \subseteq Int /\ IsFiniteSet(T) /\ T # {} /\ own = Max(T)
  BY OverlapsAre
<1>4. /\ U \subseteq Int /\ IsFiniteSet(U) /\ U # {} /\ QueryOverlapBoost(now, tokens) = Max(U)
  BY <1>0, OverlapsAre
<1>5. DOMAIN one = 1..1 /\ DOMAIN was = 1..Len(was) /\ DOMAIN now = 1..Len(now) /\ Len(now) \in Nat
  BY <1>0, <1>1, ListIs
<1>6. \A x : x \in S <=> (x = 0 \/ (over(said) > 0 /\ x = 3 + 2 * over(said)))
  BY <1>1, <1>5 DEF Overlaps
<1>7. \A i \in 1..Len(was) : over(was[i].tokens) > 0 => 3 + 2 * over(was[i].tokens) \in T
  BY <1>5 DEF Overlaps
<1>8. 0 \in U /\ (over(said) > 0 => 3 + 2 * over(said) \in U)
  <2>1. 1 \in DOMAIN now /\ now[1].tokens = said
    BY <1>0, <1>5
  <2> QED
    BY <2>1 DEF Overlaps
<1>9. \A x \in U : x = 0 \/ \E i \in 1..Len(now) : over(now[i].tokens) > 0 /\ x = 3 + 2 * over(now[i].tokens)
  BY <1>5 DEF Overlaps
<1>10. 0 \in T
  BY DEF Overlaps
<1> HIDE DEF S, T, U, over
<1>11. S \subseteq U
  BY <1>6, <1>8
<1>12. ASSUME NEW x \in U PROVE x \in S \/ x \in T
  <2>1. CASE x = 0
    BY <1>10, <2>1
  <2>2. ASSUME NEW i \in 1..Len(now), over(now[i].tokens) > 0, x = 3 + 2 * over(now[i].tokens)
        PROVE  x \in S \/ x \in T
    <3>1. CASE i = 1
      BY <1>0, <1>6, <2>2, <3>1
    <3>2. CASE i # 1
      <4>1. i - 1 \in 1..Len(was) /\ now[i] = was[i - 1]
        BY <1>0, <3>2
      <4> DEFINE j == i - 1
      <4>2. j \in 1..Len(was) /\ now[i].tokens = was[j].tokens
        BY <4>1
      <4> HIDE DEF j
      <4> QED
        BY <1>7, <2>2, <4>2
    <3> QED
      BY <3>1, <3>2
  <2> QED
    BY <1>9, <2>1, <2>2
<1>13. own \in S /\ (\A y \in S : y <= own) /\ (\A y \in T : y <= own)
  BY <1>2, <1>3, MaxIs
<1>14. own \in U /\ \A y \in U : y <= own
  BY <1>11, <1>12, <1>13
<1> QED
  BY <1>4, <1>14, MaxAmong

\* Of what is under the root nothing new is remembered.
LEMMA NothingRecent ==
  ASSUME NEW s, Remembers(s), NEW v, Remembers(v), FilesNoted(v.files, s.files), DirsNoted(v.dirs, s.dirs),
         RecentTick(s) <= RecentTick(v), NEW f \in ToSet(ByWalk), RecencyBoost(s, PathOf(f)) = 0
  PROVE  RecencyBoost(v, PathOf(f)) = 0
<1> DEFINE r == PathOf(f)
           old == RecentTick(s)
           now == RecentTick(v)
<1>1. List(r) /\ Len(r) \in Nat /\ r[1] = Root[1] /\ Len(r) >= 1
  BY PathsAre
<1>2. old \in Int /\ now \in Int /\ old <= now
  BY TicksAre
<1>3. /\ r \in DOMAIN s.files => 18 <= 2 * (old - s.files[r])
      /\ \A n \in 1..(Len(r) - 1) : SubSeq(r, 1, n) \in DOMAIN s.dirs => 12 <= 2 * (old - s.dirs[SubSeq(r, 1, n)])
  BY <1>1, RecencyIs
<1>4. \A k \in DOMAIN s.files : s.files[k] \in Int
  BY DEF Remembers, Dated
<1>5. \A k \in DOMAIN s.dirs : s.dirs[k] \in Int
  BY DEF Remembers, Dated
<1>6. \A g \in ToSet(ByWalk) : r # FileOf(g).path
  BY <1>1, PathsAre
<1>7. ASSUME NEW n \in 1..(Len(r) - 1), NEW g \in ToSet(ByWalk) PROVE SubSeq(r, 1, n) # Front(FileOf(g).path)
  <2> DEFINE p == FileOf(g).path
             a == SubSeq(r, 1, n)
             b == SubSeq(p, 1, Len(p) - 1)
  <2>1. List(p) /\ Len(p) \in Nat /\ Len(p) >= 1 /\ p[1] # Root[1]
    BY PathsAre
  <2>2. n \in Nat /\ n >= 1 /\ n <= Len(r) /\ Len(p) - 1 \in Nat /\ Len(p) - 1 <= Len(p)
    BY <1>1, <2>1
  <2>3. Len(a) = n /\ a[1] = r[1]
    <3>1. Len(a) = n /\ \A i \in 1..n : a[i] = r[i]
      BY <1>1, <2>2, StartOfList
    <3> QED
      BY <2>2, <3>1
  <2>4. Len(b) = Len(p) - 1 /\ \A i \in 1..(Len(p) - 1) : b[i] = p[i]
    <3> DEFINE m == Len(p) - 1
    <3>1. m \in Nat /\ m <= Len(p) /\ List(p)
      BY <2>1, <2>2
    <3>2. b = SubSeq(p, 1, m)
      OBVIOUS
    <3> HIDE DEF m, b, p
    <3>3. Len(SubSeq(p, 1, m)) = m /\ \A i \in 1..m : SubSeq(p, 1, m)[i] = p[i]
      BY ONLY <3>1, StartOfList
    <3> QED
      BY <3>2, <3>3 DEF m
  <2>5. Front(p) = b
    BY DEF Front
  <2> HIDE DEF a, b, p, r
  <2>6. ASSUME a = b PROVE FALSE
    <3>1. 1 \in 1..(Len(p) - 1)
      BY <2>2, <2>3, <2>4, <2>6
    <3>2. b[1] = p[1]
      BY <2>4, <3>1
    <3> QED
      BY <1>1, <2>1, <2>3, <2>6, <3>2
  <2> QED
    BY <2>5, <2>6 DEF a, p
<1> HIDE DEF r, old, now
<1>8. r \in DOMAIN v.files => 18 <= 2 * (now - v.files[r])
  <2> SUFFICES ASSUME r \in DOMAIN v.files PROVE 18 <= 2 * (now - v.files[r])
    OBVIOUS
  <2>1. r \in DOMAIN s.files /\ v.files[r] = s.files[r]
    BY <1>6 DEF FilesNoted
  <2> QED
    BY <1>2, <1>3, <1>4, <2>1
<1>9. ASSUME NEW n \in 1..(Len(r) - 1), SubSeq(r, 1, n) \in DOMAIN v.dirs
      PROVE  12 <= 2 * (now - v.dirs[SubSeq(r, 1, n)])
  <2> DEFINE key == SubSeq(r, 1, n)
  <2>1. key \in DOMAIN v.dirs /\ \A g \in ToSet(ByWalk) : key # Front(FileOf(g).path)
    BY <1>7, <1>9
  <2>2. key \in DOMAIN s.dirs => 12 <= 2 * (old - s.dirs[key])
    BY <1>3
  <2> HIDE DEF key
  <2>3. key \in DOMAIN s.dirs /\ v.dirs[key] = s.dirs[key]
    BY <2>1 DEF DirsNoted
  <2>4. 12 <= 2 * (now - v.dirs[key])
    BY <1>2, <1>5, <2>2, <2>3
  <2> QED
    BY <2>4 DEF key
<1> QED
  BY <1>1, <1>8, <1>9, RecencyIs DEF r, now

\* A steady search stays steady.
LEMMA CalmStays ==
  ASSUME NEW s, Remembers(s), NEW q, LookedFor(q), NEW times \in Nat,
         NEW page, List(page), ToSet(page) \subseteq ToSet(ByWalk),
         NEW v, v = RecordFiles(RecordQuery(Looked(s, times), q.tokens), page)
  PROVE  Remembers(v) /\ (Calm(s, q) => Calm(v, q))
<1> DEFINE t == Looked(s, times)
           u == RecordQuery(t, q.tokens)
<1>1. /\ Remembers(t) /\ t.files = s.files /\ t.dirs = s.dirs /\ t.queries = s.queries
      /\ s.clock <= t.clock
  BY LookedIs
<1>2. v = RecordFiles(u, page) /\ List(q.tokens)
  BY DEF LookedFor
<1> HIDE DEF t
<1>3. /\ Remembers(u) /\ u.files = t.files /\ u.dirs = t.dirs
      /\ Questions(t.queries, u.queries, q.tokens, t.clock)
  <2>1. Remembers(t) /\ List(q.tokens) /\ u = RecordQuery(t, q.tokens)
    BY <1>1, <1>2
  <2> HIDE DEF u
  <2> QED
    BY ONLY <2>1, QuestionIs
<1> HIDE DEF u
<1>4. Follows(u, v)
  BY <1>2, <1>3, FilesRecorded
<1>5. /\ Remembers(v) /\ v.queries = u.queries /\ FilesNoted(v.files, s.files) /\ DirsNoted(v.dirs, s.dirs)
  BY <1>1, <1>3, <1>4 DEF Follows
<1>6. RecentTick(s) <= RecentTick(v)
  <2>1. 1 \in DOMAIN v.queries
    BY <1>3, <1>5, ListIs DEF Questions
  <2>2. /\ RecentTick(s) \in Int /\ RecentTick(s) <= s.clock /\ RecentTick(v) \in Int
        /\ v.queries[1].tick <= RecentTick(v)
    BY <1>5, <2>1, TicksAre
  <2>3. s.clock \in Int /\ t.clock \in Int /\ v.queries[1].tick = t.clock
    BY <1>1, <1>3, <1>5 DEF Remembers, Questions
  <2> QED
    BY <1>1, <2>2, <2>3
<1>7. ASSUME Calm(s, q), NEW f \in ToSet(ByWalk)
      PROVE  /\ RecencyBoost(v, PathOf(f)) = 0
             /\ QueryOverlapBoost(v.queries, PathTokens(PathOf(f))) = Own(q, f)
  <2>1. RecencyBoost(s, PathOf(f)) = 0 /\ QueryOverlapBoost(s.queries, PathTokens(PathOf(f))) = Own(q, f)
    BY <1>7 DEF Calm
  <2>2. RecencyBoost(v, PathOf(f)) = 0
    BY <1>5, <1>6, <2>1, NothingRecent
  <2> DEFINE tokens == PathTokens(PathOf(f))
             own == Own(q, f)
             was == s.queries
             now == v.queries
             said == q.tokens
  <2>3. /\ List(tokens) /\ List(said) /\ List(was)
        /\ own = QueryOverlapBoost(<<[tokens |-> said]>>, tokens) /\ QueryOverlapBoost(was, tokens) = own
    BY <1>2, <1>3, <1>5, <2>1, PathsAre DEF Remembers, List, Own
  <2>4. Questions(was, now, said, t.clock)
    BY <1>1, <1>3, <1>5
  <2> HIDE DEF tokens, own, was, now, said
  <2>5. QueryOverlapBoost(now, tokens) = own
    BY ONLY <2>3, <2>4, OverlapStays
  <2> QED
    BY <2>2, <2>5 DEF now, tokens, own
<1>8. Calm(s, q) => Calm(v, q)
  BY <1>7 DEF Calm
<1> QED
  BY <1>5, <1>8

-----------------------------------------------------------------------------
(* The ranking of the files whose names answer: of a steady search it is   *)
(* the same at every page.                                                 *)
FileKey(q, found) == [f \in found |-> <<-NameWorth(q, f), PositionIn(ByName, f), 0>>]
FilesInTurn(q, found) == Behind(found, FileKey(q, found))
Answering(q, found) ==
  /\ IsFiniteSet(found) /\ found \subseteq ToSet(ByWalk) /\ LookedFor(q)
  /\ \A f \in found : NameScores(f, q) # {}

\* Every file has a place by name.
LEMMA NamesInTurn ==
  /\ \A f \in ToSet(ByWalk) : PositionIn(ByName, f) \in Int
  /\ \A f, g \in ToSet(ByWalk) : PositionIn(ByName, f) = PositionIn(ByName, g) => f = g
<1>1. List(ByName) /\ ToSet(ByName) = ToSet(ByWalk)
  BY TreesAssumption DEF List
<1>2. /\ \A f \in ToSet(ByName) : PositionIn(ByName, f) \in 1..Len(ByName)
      /\ \A f, g \in ToSet(ByName) : PositionIn(ByName, f) = PositionIn(ByName, g) => f = g
  BY <1>1, PositionIs
<1>3. Len(ByName) \in Nat
  BY <1>1, ListIs
<1> QED
  BY <1>1, <1>2, <1>3

\* Files are told apart by worth and name.
LEMMA FilesKeyed ==
  ASSUME NEW q, NEW found, Answering(q, found)
  PROVE  Keyed(found, FileKey(q, found))
<1> DEFINE K == FileKey(q, found)
<1>1. \A f \in found : K[f][1] = -NameWorth(q, f) /\ K[f][2] = PositionIn(ByName, f) /\ K[f][3] = 0
  BY DEF FileKey
<1> HIDE DEF K
<1>2. \A f \in found : f \in ToSet(ByWalk) /\ NameWorth(q, f) \in Int
  BY WorthIs DEF Answering
<1>3. \A f \in found : K[f][1] \in Int /\ K[f][2] \in Int /\ K[f][3] \in Int
  BY <1>1, <1>2, NamesInTurn
<1>4. \A f, g \in found : K[f][2] = K[g][2] => f = g
  BY <1>1, <1>2, NamesInTurn
<1> QED
  BY <1>3, <1>4 DEF Keyed, K, Answering

\* RankedFiles has every file that was found once, and in a calm session by worth.
LEMMA RankedFilesAre ==
  ASSUME NEW q, NEW found, Answering(q, found), NEW s, Remembers(s), NEW v, v = RankedFiles(s, q, found)
  PROVE  /\ List(v) /\ IsInjective(v) /\ ToSet(v) = found /\ Len(v) = Cardinality(found)
         /\ Calm(s, q) => Sorted(found, FilesInTurn(q, found), v)
<1> DEFINE ahead(a, b) == \/ a.score > b.score
                          \/ a.score = b.score /\ PositionIn(ByName, a.file) < PositionIn(ByName, b.file)
           r == [f \in found |-> [file |-> f, score |-> FileScore(s, q, f)]]
           R == {[file |-> f, score |-> FileScore(s, q, f)] : f \in found}
           K == [x \in R |-> <<-x.score, PositionIn(ByName, x.file), 0>>]
           n == Cardinality(R)
           at(i) == CHOOSE x \in R : Cardinality({y \in R : ahead(y, x)}) = i - 1
           ranked == [i \in 1..n |-> at(i)]
<1>1. v = [i \in DOMAIN ranked |-> ranked[i].file]
  BY DEF RankedFiles, Ordered
<1>2. /\ DOMAIN r = found
      /\ \A f \in found : r[f].file = f /\ r[f].score = FileScore(s, q, f)
  OBVIOUS
<1>3. \A f \in found : f \in ToSet(ByWalk) /\ FileScore(s, q, f) \in Int
  BY FileScoreIs DEF Answering
<1>0. /\ \A f \in found : r[f] \in R
      /\ \A x \in R : \E f \in found : x = r[f]
  OBVIOUS
<1>00. R = {r[f] : f \in found}
  OBVIOUS
<1> HIDE DEF r
<1>4. IsFiniteSet(R)
  BY <1>00, <1>2, ImageIsFinite DEF Answering
<1>5. Cardinality(R) = Cardinality(found)
  <2>1. [f \in found |-> r[f]] \in Bijection(found, R)
    <3>1. \A f, g \in found : r[f] = r[g] => f = g
      BY <1>2
    <3> QED
      BY <1>0, <3>1 DEF Bijection, Injection, Surjection, IsInjective
  <2> QED
    BY <2>1, FS_Bijection DEF Answering, ExistsBijection
<1>6. \A x \in R : x.file \in found /\ x = r[x.file] /\ x.score = FileScore(s, q, x.file)
  BY <1>0, <1>2
<1> HIDE DEF R
<1>7. \A x \in R : /\ x.file \in ToSet(ByWalk) /\ x.score \in Int /\ PositionIn(ByName, x.file) \in Int
                   /\ K[x][1] = -x.score /\ K[x][2] = PositionIn(ByName, x.file) /\ K[x][3] = 0
  BY <1>3, <1>6, NamesInTurn
<1> HIDE DEF K
<1>8. Keyed(R, K)
  <2>1. \A x \in R : K[x][1] \in Int /\ K[x][2] \in Int /\ K[x][3] \in Int
    BY <1>7
  <2>2. \A x, y \in R : K[x][2] = K[y][2] => x = y
    <3>1. \A x, y \in R : K[x][2] = K[y][2] => x.file = y.file
      BY <1>7, NamesInTurn
    <3> QED
      BY <1>6, <3>1
  <2> QED
    BY <1>4, <2>1, <2>2 DEF Keyed
<1>9. \A x, y \in R : Lex(K[x], K[y]) <=> ahead(x, y)
  <2> SUFFICES ASSUME NEW x \in R, NEW y \in R PROVE Lex(K[x], K[y]) <=> ahead(x, y)
    OBVIOUS
  <2>1. /\ x.score \in Int /\ y.score \in Int
        /\ K[x][1] = -x.score /\ K[x][2] = PositionIn(ByName, x.file) /\ K[x][3] = 0
        /\ K[y][1] = -y.score /\ K[y][2] = PositionIn(ByName, y.file) /\ K[y][3] = 0
    BY <1>7
  <2> QED
    BY <2>1 DEF Lex
<1>10. \A y \in R : Behind(R, K)[y] = {x \in R : ahead(x, y)}
  BY <1>9 DEF Behind
<1>11. n \in Nat
  BY <1>4, FS_CardinalityType
<1>12. DOMAIN ranked = 1..n /\ ranked = [i \in 1..n |-> ranked[i]] /\ \A i \in 1..n : ranked[i] = at(i)
  <2> HIDE DEF at, n
  <2> QED
    OBVIOUS
<1>13. ASSUME NEW i \in 1..n, \E x \in R : Cardinality({y \in R : ahead(y, x)}) = i - 1
       PROVE  ranked[i] \in R /\ Cardinality({y \in R : ahead(y, ranked[i])}) = i - 1
  <2>1. ranked[i] = CHOOSE x \in R : Cardinality({y \in R : ahead(y, x)}) = i - 1
    BY <1>12
  <2> HIDE DEF ranked, ahead
  <2> QED
    BY <1>13, <2>1
<1> HIDE DEF ranked
<1>14. Ranked(R, Behind(R, K), ranked)
  <2> HIDE DEF ahead
  <2> QED
    BY <1>10, <1>12, <1>13 DEF Ranked
<1>15. /\ List(ranked) /\ Len(ranked) = n /\ ToSet(ranked) = R /\ IsInjective(ranked)
       /\ \A i, j \in 1..Len(ranked) : i < j => Lex(K[ranked[i]], K[ranked[j]])
  BY <1>8, <1>14, KeysSort
<1>16. DOMAIN v = 1..n /\ v = [i \in 1..n |-> v[i]] /\ \A i \in 1..n : v[i] = ranked[i].file /\ ranked[i] \in R
  BY <1>1, <1>12, <1>15, ListIs
<1> HIDE DEF n
<1>17. List(v) /\ Len(v) = n
  BY <1>11, <1>16, ListMade
<1>18. IsInjective(v)
  <2> SUFFICES ASSUME NEW i \in 1..n, NEW j \in 1..n, v[i] = v[j] PROVE i = j
    BY <1>16 DEF IsInjective
  <2>1. ranked[i] = ranked[j]
    BY <1>6, <1>16
  <2> QED
    BY <1>12, <1>15, <2>1 DEF IsInjective
<1>19. ToSet(v) = found
  <2>1. \A f \in found : r[f] \in R
    BY <1>0
  <2>2. \A f \in found : \E i \in 1..n : v[i] = f
    <3> SUFFICES ASSUME NEW f \in found PROVE \E i \in 1..n : v[i] = f
      OBVIOUS
    <3>1. PICK i \in 1..n : ranked[i] = r[f]
      BY <1>12, <1>15, <2>1 DEF ToSet
    <3> QED
      BY <1>2, <1>16, <3>1
  <2>3. \A i \in 1..n : v[i] \in found
    BY <1>6, <1>16
  <2> QED
    BY <1>16, <2>2, <2>3 DEF ToSet
<1>20. ASSUME Calm(s, q) PROVE Sorted(found, FilesInTurn(q, found), v)
  <2> DEFINE F == FileKey(q, found)
             z == 50 * QueryOverlapBoost(s.queries, q.tokens)
  <2>1. ASSUME NEW i \in 1..n, NEW j \in 1..n, i < j PROVE v[i] \in FilesInTurn(q, found)[v[j]]
    <3> DEFINE a == v[i]
               b == v[j]
    <3>1. /\ a \in found /\ b \in found /\ a \in ToSet(ByWalk) /\ b \in ToSet(ByWalk)
          /\ ranked[i].score = FileScore(s, q, a) /\ ranked[j].score = FileScore(s, q, b)
          /\ ranked[i].file = a /\ ranked[j].file = b /\ ranked[i] \in R /\ ranked[j] \in R
      BY <1>3, <1>6, <1>16
    <3>2. ahead(ranked[i], ranked[j])
      BY <1>9, <1>15, <2>1, <3>1
    <3>3. NameScores(a, q) # {} /\ NameScores(b, q) # {} /\ LookedFor(q)
      BY <3>1 DEF Answering
    <3> HIDE DEF a, b
    <3>4. NameWorth(q, a) \in Int /\ FileScore(s, q, a) = NameWorth(q, a) + z /\ z \in Int
      BY <1>20, <3>1, <3>3, WorthIs, FileScoreIs
    <3>5. NameWorth(q, b) \in Int /\ FileScore(s, q, b) = NameWorth(q, b) + z
      BY <1>20, <3>1, <3>3, WorthIs, FileScoreIs
    <3> HIDE DEF z
    <3>6. \/ NameWorth(q, a) > NameWorth(q, b)
          \/ NameWorth(q, a) = NameWorth(q, b) /\ PositionIn(ByName, a) < PositionIn(ByName, b)
      BY <3>1, <3>2, <3>4, <3>5
    <3>7. /\ F[a][1] = -NameWorth(q, a) /\ F[a][2] = PositionIn(ByName, a)
          /\ F[b][1] = -NameWorth(q, b) /\ F[b][2] = PositionIn(ByName, b)
      BY <3>1 DEF FileKey
    <3> HIDE DEF F
    <3>8. Lex(F[a], F[b])
      BY <3>4, <3>5, <3>6, <3>7 DEF Lex
    <3> QED
      BY <3>1, <3>8 DEF FilesInTurn, Behind, F, a, b
  <2> QED
    BY <1>5, <1>17, <1>18, <1>19, <2>1 DEF Sorted, n
<1> QED
  BY <1>5, <1>17, <1>18, <1>19, <1>20 DEF n

\* What a search for files has found and told: of a steady one, as long as
\* nothing is edited, the pages are the start of one ranking.
FilesFound(c) ==
  \E all :
    /\ Sorted(CollectFiles(tree, c.query), FilesInTurn(c.query, CollectFiles(tree, c.query)), all)
    /\ c.pc = "done" => FlattenSeq(c.told) = all
    /\ c.pc \in {"asked", "more"} => Paged(c, all)
FilesOK(c, s) ==
  /\ Searching \subseteq DOMAIN c /\ ToldOK(c) /\ c.pc \in {"asked", "more", "done", "failed"}
  /\ LookedFor(c.query) /\ Remembers(s) /\ (c.steady => Calm(s, c.query))
  /\ ~c.edited /\ c.steady => FilesFound(c)

\* What a search for files has.
LEMMA FilesAre ==
  ASSUME NEW c, NEW s, FilesOK(c, s)
  PROVE  /\ Asking \subseteq DOMAIN c /\ Fields \subseteq DOMAIN c
         /\ \A x \in {"tool", "limit", "edited", "query", "steady"} : x \in DOMAIN c \ Fields
         /\ c.limit \in Nat /\ c.offset \in Nat /\ Lists(c.told)
BY DEF FilesOK, Searching, Asking, Fields, ToldOK

\* What is found are finitely many files whose names answer.
LEMMA CollectedAnswer ==
  ASSUME TreeOK, NEW q, LookedFor(q)
  PROVE  Answering(q, CollectFiles(tree, q))
<1> DEFINE found == CollectFiles(tree, q)
<1>1. found \subseteq ToSet(ByWalk) /\ \A f \in found : NameScores(f, q) # {}
  BY DEF CollectFiles, TreeOK
<1>2. IsFiniteSet(ToSet(ByWalk))
  BY TreesAssumption, MembersAreFinite DEF List
<1> HIDE DEF found
<1>3. IsFiniteSet(found)
  BY <1>1, <1>2, FS_Subset
<1> QED
  BY <1>1, <1>3 DEF Answering, found

\* While no file changes, a search for files is as it was.
LEMMA SameFiles ==
  ASSUME UNCHANGED tree
  PROVE  \A c, s : FilesOK(c, s)' = FilesOK(c, s)
<1>1. \A q : CollectFiles(tree, q)' = CollectFiles(tree, q)
  BY DEF CollectFiles
<1> QED
  BY <1>1 DEF FilesOK, FilesFound

\* A file that changes leaves what was told once.
LEMMA FilesEdited ==
  ASSUME NEW c, NEW s, FilesOK(c, s), NEW d, d = [c EXCEPT !.edited = TRUE]
  PROVE  FilesOK(d, s) /\ FilesOK(d, s)'
<1>1. /\ DOMAIN d = DOMAIN c /\ \A x \in DOMAIN c \ {"edited"} : d[x] = c[x]
      /\ d.edited = TRUE
  BY DEF FilesOK, Searching, Asking
<1>2. \A x \in {"pc", "told", "limit", "offset", "query", "steady"} : x \in DOMAIN c \ {"edited"}
  BY DEF FilesOK, Searching, Asking, Fields
<1>3. ToldOK(d)
  BY <1>1, <1>2 DEF FilesOK, ToldOK
<1> QED
  BY <1>1, <1>2, <1>3 DEF FilesOK

\* A call fails, and nothing more is told.
LEMMA FilesFail ==
  ASSUME NEW c, NEW s, FilesOK(c, s), NEW d, d = [c EXCEPT !.pc = "failed"]
  PROVE  FilesOK(d, s)
<1>1. /\ DOMAIN d = DOMAIN c /\ \A x \in DOMAIN c \ {"pc"} : d[x] = c[x]
      /\ d.pc = "failed"
  BY DEF FilesOK, Searching, Asking, Fields
<1>2. \A x \in {"told", "limit", "offset", "query", "steady", "edited"} : x \in DOMAIN c \ {"pc"}
  BY DEF FilesOK, Searching, Asking, Fields
<1>3. ToldOK(d)
  BY <1>1, <1>2 DEF FilesOK, ToldOK
<1>4. ~d.edited /\ d.steady => FilesFound(d)
  BY <1>1, <1>2 DEF FilesOK, FilesFound
<1> QED
  BY <1>1, <1>2, <1>3, <1>4 DEF FilesOK

\* Nothing is told at first.
LEMMA FilesBegin ==
  ASSUME TreeOK, NEW c, Searching \subseteq DOMAIN c, c.pc = "asked", c.limit \in Nat, c.offset = 0,
         c.told = << >>, c.edited = FALSE,
         LookedFor(c.query), NEW s, Remembers(s), c.steady => Calm(s, c.query)
  PROVE  FilesOK(c, s)
<1> DEFINE found == CollectFiles(tree, c.query)
<1>1. Lists(<< >>) /\ FlattenSeq(<< >>) = << >> /\ Len(<< >>) = 0
  BY FlattenNothing
<1>2. ToldOK(c)
  <2>1. \A i \in 1..Len(c.told) : IsInjective(c.told[i])
    BY <1>1
  <2>2. c.offset \in Nat /\ Lists(c.told)
    BY <1>1
  <2>3. c.edited \in BOOLEAN
    OBVIOUS
  <2> QED
    BY <2>1, <2>2, <2>3 DEF ToldOK
<1> HIDE DEF found
<1>3. Answering(c.query, found)
  BY CollectedAnswer DEF found
<1>4. Ranks(found, FilesInTurn(c.query, found))
  BY <1>3, FilesKeyed, KeysRank DEF FilesInTurn
<1>5. PICK all : Sorted(found, FilesInTurn(c.query, found), all)
  BY <1>4, SortedExists
<1>6. Paged(c, all)
  <2>1. List(all) /\ Len(all) \in Nat
    BY <1>5, ListIs DEF Sorted
  <2>2. List(SubSeq(all, 1, 0)) /\ Len(SubSeq(all, 1, 0)) = 0
    BY <2>1, StartOfList
  <2>3. SubSeq(all, 1, 0) = << >>
    BY <2>2, EmptyList, SameList
  <2>4. c.offset <= Len(all) /\ SubSeq(all, 1, c.offset) = << >> /\ FlattenSeq(c.told) = << >>
    BY <1>1, <2>1, <2>3
  <2> QED
    BY <2>4 DEF Paged
<1>7. FilesFound(c)
  BY <1>5, <1>6 DEF FilesFound, found
<1> QED
  BY <1>2, <1>7 DEF FilesOK

\* A page is ranked and told, and the session remembers it.
LEMMA FilesPaged ==
  ASSUME TreeOK, NEW c, NEW s, FilesOK(c, s), c.pc \in {"asked", "more"},
         NEW found, found = CollectFiles(tree, c.query),
         NEW page, page = Page(RankedFiles(s, c.query, found), c),
         NEW d, d = Turn(c, page, c.offset + Len(page) < Cardinality(found)),
         NEW t, t = RecordFiles(RecordQuery(Looked(s, 2 * Cardinality(found)), c.query.tokens), page)
  PROVE  FilesOK(d, t)
<1> DEFINE ranked == RankedFiles(s, c.query, found)
           more == c.offset + Len(page) < Cardinality(found)
           times == 2 * Cardinality(found)
<1>1. /\ Asking \subseteq DOMAIN c /\ Fields \subseteq DOMAIN c /\ Searching \subseteq DOMAIN c
      /\ \A x \in {"query", "steady"} : x \in DOMAIN c \ Fields
      /\ c.limit \in Nat /\ c.offset \in Nat /\ Lists(c.told) /\ ToldOK(c)
      /\ LookedFor(c.query) /\ Remembers(s)
  BY FilesAre DEF FilesOK
<1>2. Answering(c.query, found)
  BY <1>1, CollectedAnswer
<1>3. Cardinality(found) \in Nat /\ times \in Nat
  <2>1. Cardinality(found) \in Nat
    BY <1>2, FS_CardinalityType DEF Answering
  <2> QED
    BY <2>1
<1> HIDE DEF times, ranked
<1>4. /\ List(ranked) /\ IsInjective(ranked) /\ ToSet(ranked) = found /\ Len(ranked) = Cardinality(found)
      /\ Calm(s, c.query) => Sorted(found, FilesInTurn(c.query, found), ranked)
  BY <1>1, <1>2, RankedFilesAre DEF ranked
<1>5. page = Page(ranked, c)
  BY DEF ranked
<1>6. List(page) /\ IsInjective(page) /\ ToSet(page) \subseteq ToSet(ByWalk)
  BY <1>1, <1>2, <1>4, <1>5, PageIs DEF Answering
<1>7. Len(page) \in Nat /\ more \in BOOLEAN
  BY <1>6, ListIs
<1>8. d = Turn(c, page, more) /\ t = RecordFiles(RecordQuery(Looked(s, times), c.query.tokens), page)
  BY DEF times
<1>9. c.offset <= Len(ranked) => /\ more => c.offset + c.limit <= Len(ranked)
                                 /\ ~more => Len(ranked) <= c.offset + c.limit
  <2> DEFINE to == IF c.offset + c.limit <= Len(ranked) THEN c.offset + c.limit ELSE Len(ranked)
  <2>1. page = SubSeq(ranked, c.offset + 1, to) /\ to \in Nat /\ to <= Len(ranked)
    BY <1>1, <1>4, <1>5, PageIs
  <2> HIDE DEF to
  <2>2. Len(page) = (IF c.offset <= to THEN to - c.offset ELSE 0)
    BY <1>1, <1>4, <2>1, PartOfList
  <2> QED
    BY <1>1, <1>3, <1>4, <2>1, <2>2 DEF to
<1> HIDE DEF more
<1>10. /\ DOMAIN d = DOMAIN c /\ ToldOK(d) /\ d.pc = (IF more THEN "more" ELSE "done")
       /\ (\A x \in DOMAIN c \ Fields : d[x] = c[x]) /\ d.limit = c.limit /\ d.edited = c.edited
  <2>1. Asking \subseteq DOMAIN c /\ ToldOK(c) /\ List(page) /\ IsInjective(page) /\ more \in BOOLEAN /\ d = Turn(c, page, more)
    BY <1>1, <1>6, <1>7, <1>8
  <2> QED
    BY ONLY <2>1, TurnIsOK
<1>11. d.query = c.query /\ d.steady = c.steady
  BY <1>1, <1>10
<1>12. Remembers(t) /\ (Calm(s, c.query) => Calm(t, c.query))
  <2> DEFINE q == c.query
  <2>1. /\ Remembers(s) /\ LookedFor(q) /\ times \in Nat /\ List(page) /\ ToSet(page) \subseteq ToSet(ByWalk)
        /\ t = RecordFiles(RecordQuery(Looked(s, times), q.tokens), page)
    BY <1>1, <1>3, <1>6, <1>8
  <2> HIDE DEF q
  <2>2. Remembers(t) /\ (Calm(s, q) => Calm(t, q))
    BY ONLY <2>1, CalmStays
  <2> QED
    BY <2>2 DEF q
<1>13. ASSUME ~d.edited, d.steady PROVE FilesFound(d)
  <2> DEFINE B == FilesInTurn(c.query, found)
  <2>1. Calm(s, c.query) /\ FilesFound(c)
    BY <1>10, <1>11, <1>13 DEF FilesOK
  <2>2. PICK all : Sorted(found, B, all) /\ Paged(c, all)
    BY <2>1 DEF FilesFound
  <2>3. Sorted(found, B, ranked)
    BY <1>4, <2>1
  <2>4. Ranks(found, B)
    BY <1>2, FilesKeyed, KeysRank DEF FilesInTurn
  <2> HIDE DEF B
  <2>5. ranked = all
    <3>1. Begins(found, B, ranked) /\ found \subseteq ToSet(ranked)
      BY <1>4, <2>3, <2>4, SortedBegins
    <3> QED
      BY <2>2, <2>4, <3>1, BegunIsAll
  <2>6. Paged(c, ranked) /\ c.offset <= Len(ranked)
    BY <2>2, <2>5 DEF Paged
  <2>7. /\ d.pc \in {"more", "done"} /\ (d.pc = "more" => Paged(d, ranked))
        /\ d.pc = "done" => FlattenSeq(d.told) = ranked
    <3>1. d = Turn(c, Page(ranked, c), more)
      BY <1>5, <1>8
    <3>2. (more => c.offset + c.limit <= Len(ranked)) /\ (~more => Len(ranked) <= c.offset + c.limit)
      BY <1>9, <2>6
    <3> QED
      BY <1>1, <1>4, <1>7, <1>10, <2>6, <3>1, <3>2, TurnTells
  <2>8. Sorted(CollectFiles(tree, d.query), FilesInTurn(d.query, CollectFiles(tree, d.query)), ranked)
    BY <1>11, <2>3 DEF B
  <2> QED
    BY <2>7, <2>8 DEF FilesFound
<1>14. d.pc \in {"more", "done"}
  BY <1>10
<1> QED
  BY <1>1, <1>10, <1>11, <1>12, <1>13, <1>14 DEF FilesOK

\* At the end of a steady search the pages have every file whose name
\* answers, best first by what the session is then.
LEMMA FilesAllTold ==
  ASSUME TreeOK, NEW c, FilesOK(c, session), ~c.edited, c.pc = "done"
  PROVE  (c.steady => IsInjective(Told1(c))) /\ FilesTold(c, Told1(c))
<1> SUFFICES ASSUME c.steady PROVE IsInjective(Told1(c)) /\ FilesTold(c, Told1(c))
  BY DEF FilesTold
<1> DEFINE q == c.query
           found == CollectFiles(tree, q)
           B == FilesInTurn(q, found)
           told == Told1(c)
           z == 50 * QueryOverlapBoost(session.queries, q.tokens)
<1>1. Sorted(found, B, told)
  BY DEF FilesOK, FilesFound, Told1
<1>2. found = {f \in DOMAIN tree : Locatable(f, tree[f], q) /\ NameScores(f, q) # {}}
  BY DEF CollectFiles
<1>3. LookedFor(q) /\ Remembers(session) /\ Calm(session, q)
  BY DEF FilesOK
<1>4. Answering(q, found)
  BY <1>3, CollectedAnswer
<1> HIDE DEF found, q, told
<1>5. \A f \in found : /\ NameWorth(q, f) \in Int /\ FileScore(session, q, f) = NameWorth(q, f) + z /\ z \in Int
                       /\ FileKey(q, found)[f][1] = -NameWorth(q, f)
  <2> SUFFICES ASSUME NEW f \in found
               PROVE  /\ NameWorth(q, f) \in Int /\ FileScore(session, q, f) = NameWorth(q, f) + z /\ z \in Int
                      /\ FileKey(q, found)[f][1] = -NameWorth(q, f)
    OBVIOUS
  <2>1. f \in ToSet(ByWalk) /\ NameScores(f, q) # {}
    BY <1>4 DEF Answering
  <2>2. FileKey(q, found)[f][1] = -NameWorth(q, f)
    BY DEF FileKey
  <2> QED
    BY <1>3, <2>1, <2>2, WorthIs, FileScoreIs
<1> HIDE DEF z
<1>6. DOMAIN told = 1..Len(told) /\ \A i \in 1..Len(told) : told[i] \in found
  <2>1. List(told) /\ ToSet(told) = found
    BY <1>1 DEF Sorted
  <2> QED
    BY <2>1, ListIs
<1>7. ASSUME NEW i \in DOMAIN told, NEW j \in DOMAIN told, i < j
      PROVE  FileScore(session, q, told[i]) >= FileScore(session, q, told[j])
  <2>1. told[i] \in found /\ told[j] \in found /\ told[i] \in B[told[j]]
    BY <1>1, <1>6, <1>7 DEF Sorted
  <2>2. Lex(FileKey(q, found)[told[i]], FileKey(q, found)[told[j]])
    BY <2>1 DEF FilesInTurn, Behind
  <2> DEFINE a == told[i]
             b == told[j]
             k == FileKey(q, found)
  <2>3. /\ NameWorth(q, a) \in Int /\ FileScore(session, q, a) = NameWorth(q, a) + z /\ z \in Int /\ k[a][1] = -NameWorth(q, a)
        /\ NameWorth(q, b) \in Int /\ FileScore(session, q, b) = NameWorth(q, b) + z /\ k[b][1] = -NameWorth(q, b)
    BY <1>5, <2>1
  <2>4. k[a][1] <= k[b][1]
    BY <2>2, <2>3 DEF Lex
  <2> HIDE DEF k, a, b
  <2>5. FileScore(session, q, a) >= FileScore(session, q, b)
    BY <2>3, <2>4
  <2> QED
    BY <2>5 DEF a, b
<1>8. ToSet(told) = found /\ IsInjective(told)
  BY <1>1 DEF Sorted
<1> QED
  BY <1>2, <1>7, <1>8 DEF FilesTold, q, told

-----------------------------------------------------------------------------
(* Nobody pages, or somebody does and nobody traces.                       *)
AnswerOK(c, s) ==
  \/ c.tool = "usages" /\ UsagesOK(c)
  \/ c.tool \in {"callers", "callees"} /\ ReferencesOK(c)
  \/ c.tool = "content" /\ ContentOK(c)
  \/ c.tool = "files" /\ FilesOK(c, s)
Unpaged == cursor = NoCursor /\ DOMAIN tree = {}
Untraced == phase = "paging" /\ pending = {} /\ frontier = {}
PagesInv == NavigationInv /\ (Unpaged \/ (Untraced /\ TreeOK /\ AnswerOK(cursor, session)))

\* The index is one of those there are.
LEMMA ProjectIsFinite ==
  ASSUME NavigationInv
  PROVE  GraphOK /\ IsFiniteSet(project.symbols)
BY IndexIsOK, ProjectsAssumption DEF NavigationInv

\* Who pages does not trace.
LEMMA NoTrace ==
  ASSUME Untraced
  PROVE  ~Next
BY DEF Untraced, Next, Load, TakeSeed, Nearest, Drop, Expand, Relax, Choose, Arrive, Retrace

\* While neither files nor index change, what is told is as it was.
LEMMA SameAnswer ==
  ASSUME UNCHANGED <<project, graph, tree, listed>>
  PROVE  TreeOK' = TreeOK /\ \A c, s : AnswerOK(c, s)' = AnswerOK(c, s)
<1>1. TreeOK' = TreeOK
  BY SameUsages
<1>2. \A c : UsagesOK(c)' = UsagesOK(c)
  BY SameFound
<1>3. \A c : ReferencesOK(c)' = ReferencesOK(c)
  BY SameReferences
<1>4. \A c : ContentOK(c)' = ContentOK(c)
  BY SameContent
<1>5. \A c, s : FilesOK(c, s)' = FilesOK(c, s)
  BY SameFiles
<1> QED
  BY <1>1, <1>2, <1>3, <1>4, <1>5 DEF AnswerOK

\* What every answer has,
LEMMA AnswerIs ==
  ASSUME NEW c, NEW s, AnswerOK(c, s)
  PROVE  Asking \subseteq DOMAIN c /\ ToldOK(c)
BY DEF AnswerOK, UsagesOK, ReferencesOK, ContentOK, FilesOK, Naming, Searching

\* and by what it stands at, which it is.
LEMMA StagesAre ==
  ASSUME NEW c, NEW s, AnswerOK(c, s)
  PROVE  /\ c.pc \in {"indexed", "walk"} => c.tool = "usages"
         /\ c.pc = "content" => c.tool = "content"
BY DEF AnswerOK, UsagesOK, UsagesApart, ReferencesOK, ContentOK, ContentApart, FilesOK

\* What each call does is as it should be.
LEMMA UsagesStep ==
  ASSUME TreeOK, NEW d, d = cursor', AnswerOK(cursor, session), cursor.tool = "usages",
         AskUsages \/ ReadIndexed \/ StartWalk \/ ReadWalked \/ TellUsages
  PROVE  AnswerOK(d, session)
<1> DEFINE c == cursor
<1>1. UsagesOK(c) /\ "tool" \in DOMAIN c \ Fields
  <2>1. UsagesOK(c)
    BY DEF AnswerOK
  <2> HIDE DEF c
  <2> QED
    BY <2>1, NamingIs
<1>2. d.tool = c.tool
  BY <1>1 DEF AskUsages, ReadIndexed, StartWalk, ReadWalked, TellUsages, Turn, Fields
<1>3. UsagesOK(d)
  <2>1. CASE AskUsages
    <3>1. c.pc \in {"asked", "more"} /\ d = [c EXCEPT !.pc = "indexed", !.todo = IndexedFiles(c)]
      BY <2>1 DEF AskUsages
    <3> HIDE DEF c
    <3> QED
      BY ONLY TreeOK, <1>1, <3>1, UsagesAsked
  <2>2. CASE ReadIndexed
    <3>1. /\ c.pc = "indexed" /\ c.todo # << >>
          /\ d = [c EXCEPT !.todo = Tail(@), !.searched = @ \cup {Head(c.todo)},
                           !.usages = @ \o SearchFile(Head(c.todo), c.name)]
      BY <2>2 DEF ReadIndexed
    <3> HIDE DEF c
    <3> QED
      BY ONLY TreeOK, <1>1, <3>1, IndexedRead
  <2>3. CASE StartWalk
    <3>1. c.pc = "indexed" /\ c.todo = << >> /\ d = [c EXCEPT !.pc = "walk", !.todo = ByWalk]
      BY <2>3 DEF StartWalk
    <3> HIDE DEF c
    <3> QED
      BY ONLY TreeOK, <1>1, <3>1, WalkStarted
  <2>4. CASE ReadWalked
    <3> DEFINE found == IF ShouldSearch(Head(c.todo), c.scope) /\ Head(c.todo) \notin c.searched
                        THEN SearchFile(Head(c.todo), c.name) ELSE << >>
    <3>1. c.pc = "walk" /\ c.todo # << >> /\ d = [c EXCEPT !.todo = Tail(@), !.usages = @ \o found]
      BY <2>4 DEF ReadWalked
    <3> HIDE DEF c
    <3> QED
      BY TreeOK, <1>1, <3>1, WalkedRead
  <2>5. CASE TellUsages
    <3>1. /\ c.pc \in {"indexed", "walk"} /\ (Enough(c) \/ (c.pc = "walk" /\ c.todo = << >>))
          /\ d = Turn(c, Page(c.usages, c), Enough(c))
      BY <2>5 DEF TellUsages
    <3> HIDE DEF c
    <3> QED
      BY ONLY TreeOK, <1>1, <3>1, UsagesPaged
  <2> QED
    BY <2>1, <2>2, <2>3, <2>4, <2>5
<1> QED
  BY <1>2, <1>3 DEF AnswerOK

\* So does a page of callers or callees,
LEMMA ReferencesStep ==
  ASSUME GraphOK, IsFiniteSet(project.symbols), NEW d, d = cursor', AnswerOK(cursor, session), TellReferences
  PROVE  AnswerOK(d, session)
<1> DEFINE c == cursor
<1>1. c.tool \in {"callers", "callees"} /\ c.pc \in {"asked", "more"}
      /\ d = Turn(c, Page(References(c), c), Len(References(c)) > c.offset + c.limit)
  BY DEF TellReferences, TellPage
<1>2. ReferencesOK(c)
  BY <1>1 DEF AnswerOK
<1> HIDE DEF c
<1>3. ReferencesOK(d)
  BY ONLY GraphOK, IsFiniteSet(project.symbols), <1>1, <1>2, ReferencesPaged
<1>4. d.tool = c.tool
  BY <1>1, <1>2 DEF ReferencesOK, Naming, Asking, Turn
<1> QED
  BY <1>1, <1>3, <1>4 DEF AnswerOK

\* what a search for contents does,
LEMMA ContentStep ==
  ASSUME TreeOK, NEW d, d = cursor', AnswerOK(cursor, session), cursor.tool = "content",
         AskContent \/ ReadContent \/ TellContent
  PROVE  AnswerOK(d, session)
<1> DEFINE c == cursor
<1>1. ContentOK(c) /\ "tool" \in DOMAIN c \ Fields
  <2>1. ContentOK(c)
    BY DEF AnswerOK
  <2> HIDE DEF c
  <2> QED
    BY <2>1, SearchingIs
<1>2. d.tool = c.tool /\ ContentOK(d)
  <2>1. CASE AskContent
    <3>1. c.pc \in {"asked", "more"}
          /\ \/ d = [c EXCEPT !.pc = "failed"]
             \/ d = [c EXCEPT !.pc = "content", !.skipped = 0, !.todo = SearchedFiles(c.query)]
      BY <2>1 DEF AskContent
    <3> HIDE DEF c
    <3>2. CASE d = [c EXCEPT !.pc = "failed"]
      <4>1. ContentOK(d)
        BY ONLY <1>1, <3>2, ContentFails
      <4> QED
        BY <1>1, <3>2, <4>1
    <3>3. CASE d = [c EXCEPT !.pc = "content", !.skipped = 0, !.todo = SearchedFiles(c.query)]
      <4>1. ContentOK(d)
        BY ONLY TreeOK, <1>1, <3>1, <3>3, ContentAsked
      <4> QED
        BY <1>1, <3>3, <4>1
    <3> QED
      BY <3>1, <3>2, <3>3
  <2>2. CASE ReadContent
    <3> DEFINE v == Found(c)
               skip == Min({Len(Found(c)), c.offset - c.skipped})
               fresh == SubSeq(Found(c), skip + 1, Len(Found(c)))
               room == c.limit - Len(c.usages)
    <3>1. /\ c.pc = "content" /\ c.todo # << >>
          /\ \/ d = [c EXCEPT !.pc = "failed"]
             \/ Len(fresh) > room /\ d = Turn(c, c.usages \o SubSeq(fresh, 1, room), TRUE)
             \/ ~(Len(fresh) > room)
                /\ d = [c EXCEPT !.todo = Tail(@), !.skipped = @ + skip, !.usages = @ \o fresh]
      BY <2>2 DEF ReadContent
    <3>2. /\ v = Found(c) /\ skip = Min({Len(Found(c)), c.offset - c.skipped})
          /\ fresh = SubSeq(Found(c), skip + 1, Len(Found(c))) /\ room = c.limit - Len(c.usages)
      OBVIOUS
    <3> HIDE DEF c, v, skip, fresh, room
    <3>3. CASE d = [c EXCEPT !.pc = "failed"]
      <4>1. ContentOK(d)
        BY ONLY <1>1, <3>3, ContentFails
      <4> QED
        BY <1>1, <3>3, <4>1
    <3>4. CASE Len(fresh) > room /\ d = Turn(c, c.usages \o SubSeq(fresh, 1, room), TRUE)
      <4>1. ContentOK(d)
        BY ONLY TreeOK, <1>1, <3>1, <3>2, <3>4, ContentFull
      <4>2. d.tool = c.tool
        BY <1>1, <3>4 DEF Turn
      <4> QED
        BY <4>1, <4>2
    <3>5. CASE ~(Len(fresh) > room)
               /\ d = [c EXCEPT !.todo = Tail(@), !.skipped = @ + skip, !.usages = @ \o fresh]
      <4>1. ContentOK(d)
        BY ONLY TreeOK, <1>1, <3>1, <3>2, <3>5, ContentRead
      <4>2. d.tool = c.tool
        BY <1>1, <3>5
      <4> QED
        BY <4>1, <4>2
    <3> QED
      BY <3>1, <3>3, <3>4, <3>5
  <2>3. CASE TellContent
    <3>1. c.pc = "content" /\ c.todo = << >> /\ d = Turn(c, c.usages, FALSE)
      BY <2>3 DEF TellContent
    <3> HIDE DEF c
    <3>2. ContentOK(d)
      BY ONLY TreeOK, <1>1, <3>1, ContentPaged
    <3>3. d.tool = c.tool
      BY <1>1, <3>1 DEF Turn
    <3> QED
      BY <3>2, <3>3
  <2> QED
    BY <2>1, <2>2, <2>3
<1> QED
  BY <1>2 DEF AnswerOK

\* and what one for files does to the session, too.
LEMMA FilesStep ==
  ASSUME TreeOK, NEW d, d = cursor', NEW t, t = session', AnswerOK(cursor, session), TellFiles
  PROVE  AnswerOK(d, t)
<1> DEFINE c == cursor
           s == session
           found == CollectFiles(tree, c.query)
           page == Page(RankedFiles(s, c.query, found), c)
<1>1. /\ c.pc \in {"asked", "more"} /\ c.tool = "files"
      /\ \/ d = [c EXCEPT !.pc = "failed"] /\ t = s
         \/ /\ d = Turn(c, page, c.offset + Len(page) < Cardinality(found))
            /\ t = RecordFiles(RecordQuery(Looked(s, 2 * Cardinality(found)), c.query.tokens), page)
  BY DEF TellFiles
<1>2. FilesOK(c, s)
  BY <1>1 DEF AnswerOK
<1>3. found = CollectFiles(tree, c.query) /\ page = Page(RankedFiles(s, c.query, found), c)
  OBVIOUS
<1> HIDE DEF c, s, found, page
<1>4. CASE d = [c EXCEPT !.pc = "failed"] /\ t = s
  <2>1. FilesOK(d, s)
    BY ONLY <1>2, <1>4, FilesFail
  <2>2. d.tool = c.tool
    BY <1>2, <1>4, FilesAre
  <2> QED
    BY <1>1, <1>4, <2>1, <2>2 DEF AnswerOK
<1>5. CASE /\ d = Turn(c, page, c.offset + Len(page) < Cardinality(found))
           /\ t = RecordFiles(RecordQuery(Looked(s, 2 * Cardinality(found)), c.query.tokens), page)
  <2>1. FilesOK(d, t)
    BY ONLY TreeOK, <1>1, <1>2, <1>3, <1>5, FilesPaged
  <2>2. d.tool = c.tool
    BY <1>2, <1>5, FilesAre DEF Turn
  <2> QED
    BY <1>1, <2>1, <2>2 DEF AnswerOK
<1> QED
  BY <1>1, <1>4, <1>5

\* An edit changes the files under whoever pages.
LEMMA RewriteStep ==
  ASSUME TreeOK, AnswerOK(cursor, session), NEW f \in DOMAIN tree, Rewrite(f)
  PROVE  TreeOK' /\ AnswerOK(cursor, session)'
<1>1. PICK file \in Rewrites(f) : tree' = [tree EXCEPT ![f] = file]
  BY DEF Rewrite
<1>2. WellFormed(file)
  BY TreesAssumption DEF TreeOK
<1>3. TreeOK'
  <2>1. DOMAIN tree' = DOMAIN tree /\ listed' = listed
    BY <1>1 DEF Rewrite
  <2>2. \A x \in DOMAIN tree : WellFormed(tree'[x])
    BY <1>1, <1>2 DEF TreeOK
  <2> QED
    BY <2>1, <2>2 DEF TreeOK
<1> DEFINE c == cursor
           s == session
           d == [c EXCEPT !.edited = TRUE]
<1>4. cursor' = d /\ session' = s /\ UNCHANGED <<project, graph>>
  BY DEF Rewrite, vars
<1>5. d = [c EXCEPT !.edited = TRUE] /\ AnswerOK(c, s)
  OBVIOUS
<1> HIDE DEF c, s, d
<1>6. PICK a : a = c
  OBVIOUS
<1>7. PICK b : b = d
  OBVIOUS
<1>8. PICK r : r = s
  OBVIOUS
<1>9. b = [a EXCEPT !.edited = TRUE] /\ AnswerOK(a, r)
  BY <1>5, <1>6, <1>7, <1>8
<1>10. b.tool = a.tool
  <2>1. "tool" \in DOMAIN a
    BY <1>9, AnswerIs DEF Asking
  <2> QED
    BY <1>9, <2>1
<1>11. AnswerOK(b, r)'
  <2>1. CASE UsagesOK(a) /\ a.tool = "usages"
    <3>1. UsagesOK(b)'
      BY <1>9, <2>1, UsagesEdited
    <3> QED
      BY <1>10, <2>1, <3>1 DEF AnswerOK
  <2>2. CASE ReferencesOK(a) /\ a.tool \in {"callers", "callees"}
    <3>1. ReferencesOK(b)
      BY <1>9, <2>2, ReferencesEdited
    <3>2. ReferencesOK(b)'
      BY <1>4, <3>1, SameReferences
    <3> QED
      BY <1>10, <2>2, <3>2 DEF AnswerOK
  <2>3. CASE ContentOK(a) /\ a.tool = "content"
    <3>1. ContentOK(b)'
      BY <1>9, <2>3, ContentEdited
    <3> QED
      BY <1>10, <2>3, <3>1 DEF AnswerOK
  <2>4. CASE FilesOK(a, r) /\ a.tool = "files"
    <3>1. FilesOK(b, r)'
      BY <1>9, <2>4, FilesEdited
    <3> QED
      BY <1>10, <2>4, <3>1 DEF AnswerOK
  <2> QED
    BY <1>9, <2>1, <2>2, <2>3, <2>4 DEF AnswerOK
<1>12. cursor' = b /\ session' = r
  BY <1>4, <1>7, <1>8
<1> QED
  BY <1>3, <1>11, <1>12

-----------------------------------------------------------------------------

\* The invariant holds at first,
LEMMA PagesBegin == NavigationInit => PagesInv
<1> SUFFICES ASSUME NavigationInit PROVE PagesInv
  OBVIOUS
<1>1. NavigationInv
  BY NavigationBegins
<1>2. CASE TraceInit
  <2>1. Unpaged
    BY <1>2, EmptyList DEF TraceInit, Unpaged, NoTree
  <2> QED
    BY <1>1, <2>1 DEF PagesInv
<1>3. CASE PagesInit
  <2>1. Untraced /\ TreeOK
    BY <1>3, TreesAssumption DEF PagesInit, Paging, Untraced, TreeOK
  <2>2. PICK q \in Asked(project) :
          cursor = [pc |-> "asked", tool |-> q.tool, id |-> q.id, name |-> q.name, file |-> q.file,
                  scope |-> q.scope, limit |-> q.limit, offset |-> 0, todo |-> << >>, searched |-> {},
                  usages |-> << >>, told |-> << >>, edited |-> FALSE]
    BY <1>3 DEF PagesInit
  <2>3. q.tool \in {"usages", "callers", "callees"} /\ q.limit \in Nat /\ \E s \in project.symbols : s.id = q.id
    BY <1>3, AskedAssumption DEF PagesInit, Paging
  <2> DEFINE c == cursor
  <2>4. /\ Naming \subseteq DOMAIN c /\ c.pc = "asked" /\ c.limit \in Nat /\ c.offset = 0 /\ c.usages = << >>
        /\ c.searched = {} /\ c.told = << >> /\ c.edited = FALSE /\ Indexed(c.id)
        /\ c.tool \in {"usages", "callers", "callees"}
    BY <2>2, <2>3 DEF Naming, Asking, Fields, Indexed
  <2> HIDE DEF c
  <2>5. UsagesOK(c)
    BY ONLY <2>1, <2>4, UsagesBegin
  <2>6. ReferencesOK(c)
    <3>1. GraphOK /\ IsFiniteSet(project.symbols)
      BY <1>1, ProjectIsFinite
    <3> QED
      BY ONLY <3>1, <2>4, ReferencesBegin
  <2>7. AnswerOK(c, session)
    BY <2>4, <2>5, <2>6 DEF AnswerOK
  <2> QED
    BY <1>1, <2>1, <2>7 DEF PagesInv, c
<1>4. CASE SearchInit
  <2>1. Untraced /\ TreeOK
    BY <1>4, TreesAssumption DEF SearchInit, Paging, Untraced, TreeOK
  <2>2. PICK q \in Searches :
          cursor = [pc |-> "asked", tool |-> q.tool, query |-> q, limit |-> q.limit, offset |-> 0,
                  todo |-> << >>, searched |-> {}, skipped |-> 0, usages |-> << >>, told |-> << >>,
                  edited |-> FALSE, steady |-> q.tool = "files" /\ Steady(q)]
    BY <1>4 DEF SearchInit
  <2>3. q.tool \in {"content", "files"} /\ q.limit \in Nat /\ session \in Sessions
    BY <1>4, AskedAssumption DEF SearchInit
  <2> DEFINE c == cursor
             s == session
  <2>4. /\ Searching \subseteq DOMAIN c /\ c.pc = "asked" /\ c.limit \in Nat /\ c.offset = 0 /\ c.usages = << >>
        /\ c.told = << >> /\ c.edited = FALSE /\ c.tool = q.tool /\ c.query = q
    BY <2>2, <2>3 DEF Searching, Asking, Fields
  <2>5. c.steady => Steady(q)
    BY <2>2
  <2>6. Steady(q) => Calm(s, q)
    BY <2>1 DEF Steady, Calm, TreeOK, PathOf, Own
  <2> HIDE DEF c, s
  <2>7. ContentOK(c)
    BY ONLY <2>1, <2>4, ContentBegin
  <2>8. ASSUME q.tool = "files" PROVE FilesOK(c, s)
    <3>1. Remembers(s)
      BY <2>3, SearchAssumption DEF s
    <3>2. LookedFor(q)
      BY <2>8, SearchAssumption DEF LookedFor, List
    <3>3. LookedFor(c.query) /\ Remembers(s) /\ (c.steady => Calm(s, c.query))
      BY <2>4, <2>5, <2>6, <3>1, <3>2
    <3> QED
      BY ONLY <2>1, <2>4, <3>3, FilesBegin
  <2>9. AnswerOK(c, s)
    BY <2>3, <2>4, <2>7, <2>8 DEF AnswerOK
  <2> QED
    BY <1>1, <2>1, <2>9 DEF PagesInv, c, s
<1> QED
  BY <1>2, <1>3, <1>4 DEF NavigationInit

\* and every step keeps it.
LEMMA PagesStep == PagesInv /\ [NavigationNext]_<<vars, pageVars>> => PagesInv'
<1> SUFFICES ASSUME PagesInv, [NavigationNext]_<<vars, pageVars>> PROVE PagesInv'
  OBVIOUS
<1>1. NavigationInv' /\ NavigationInv
  BY NavigationSteps DEF PagesInv
<1>2. CASE Unpaged
  <2>1. Unpaged'
    BY <1>2 DEF Unpaged, NoCursor, NavigationNext, pageVars, AskUsages, ReadIndexed, StartWalk, ReadWalked, TellUsages,
                TellReferences, AskContent, ReadContent, TellContent, TellFiles
  <2> QED
    BY <1>1, <2>1 DEF PagesInv
<1>3. CASE Untraced /\ TreeOK /\ AnswerOK(cursor, session)
  <2>1. ~Next
    BY <1>3, NoTrace
  <2>2. GraphOK /\ IsFiniteSet(project.symbols)
    BY <1>1, ProjectIsFinite
  <2>3. UNCHANGED vars
    BY <2>1 DEF NavigationNext, AskUsages, ReadIndexed, StartWalk, ReadWalked, TellUsages, TellReferences,
                AskContent, ReadContent, TellContent, TellFiles, Rewrite
  <2>4. Untraced' /\ UNCHANGED <<project, graph>>
    BY <1>3, <2>3 DEF Untraced, vars
  <2>5. ASSUME NEW f \in DOMAIN tree, Rewrite(f) PROVE TreeOK' /\ AnswerOK(cursor, session)'
    BY <1>3, <2>5, RewriteStep
  <2>6. ASSUME ~(\E f \in DOMAIN tree : Rewrite(f)) PROVE TreeOK' /\ AnswerOK(cursor, session)'
    <3>1. PICK d : d = cursor'
      OBVIOUS
    <3>2. PICK t : t = session'
      OBVIOUS
    <3>3. UNCHANGED <<tree, listed>>
      BY <2>1, <2>6 DEF NavigationNext, pageVars, AskUsages, ReadIndexed, StartWalk, ReadWalked, TellUsages,
                TellReferences, AskContent, ReadContent, TellContent, TellFiles
    <3>4. AnswerOK(d, t)
      <4>1. CASE AskUsages \/ ReadIndexed \/ StartWalk \/ ReadWalked \/ TellUsages
        <5>1. t = session /\ (cursor.pc \in {"indexed", "walk"} \/ cursor.tool = "usages")
          BY <4>1, <3>2 DEF AskUsages, ReadIndexed, StartWalk, ReadWalked, TellUsages
        <5>2. cursor.tool = "usages"
          BY <1>3, <5>1, StagesAre
        <5> QED
          BY <1>3, <3>1, <4>1, <5>1, <5>2, UsagesStep
      <4>2. CASE TellReferences
        <5>1. t = session
          BY <4>2, <3>2 DEF TellReferences
        <5> QED
          BY <1>3, <2>2, <3>1, <4>2, <5>1, ReferencesStep
      <4>3. CASE AskContent \/ ReadContent \/ TellContent
        <5>1. t = session /\ (cursor.pc = "content" \/ cursor.tool = "content")
          BY <4>3, <3>2 DEF AskContent, ReadContent, TellContent
        <5>2. cursor.tool = "content"
          BY <1>3, <5>1, StagesAre
        <5> QED
          BY <1>3, <3>1, <4>3, <5>1, <5>2, ContentStep
      <4>4. CASE TellFiles
        BY <1>3, <3>1, <3>2, <4>4, FilesStep
      <4>5. CASE UNCHANGED pageVars
        BY <1>3, <3>1, <3>2, <4>5 DEF pageVars
      <4> QED
        BY <2>1, <2>6, <4>1, <4>2, <4>3, <4>4, <4>5 DEF NavigationNext
    <3>5. TreeOK' /\ AnswerOK(d, t)'
      BY <1>3, <2>4, <3>3, <3>4, SameAnswer
    <3> QED
      BY <3>1, <3>2, <3>5
  <2> QED
    BY <1>1, <2>4, <2>5, <2>6 DEF PagesInv
<1> QED
  BY <1>2, <1>3 DEF PagesInv

\* By it the pages tell all.
LEMMA PagesAllTold ==
  ASSUME PagesInv
  PROVE  PagesTellAll
<1> SUFFICES ASSUME cursor # NoCursor PROVE PagesTellAll
  BY DEF PagesTellAll
<1> DEFINE c == cursor
           told == Told1(c)
<1>1. TreeOK /\ AnswerOK(c, session) /\ GraphOK /\ IsFiniteSet(project.symbols)
  BY ProjectIsFinite DEF PagesInv, Unpaged
<1>2. \A i \in DOMAIN c.told : IsInjective(c.told[i])
  <2>1. ToldOK(c)
    BY <1>1, AnswerIs
  <2> HIDE DEF c
  <2>2. DOMAIN c.told = 1..Len(c.told)
    BY <2>1, ListIs DEF ToldOK, Lists
  <2> QED
    BY <2>1, <2>2 DEF ToldOK
<1>3. ASSUME c.pc = "done", ~c.edited
      PROVE  /\ c.tool # "files" \/ c.steady => IsInjective(told)
             /\ c.tool = "usages" => UsagesTold(c, told)
             /\ c.tool = "content" => ContentTold(c, told)
             /\ c.tool = "files" => FilesTold(c, told)
             /\ c.tool \notin {"usages", "content", "files"} => ReferencesTold(c, told)
  <2>1. CASE c.tool = "usages" /\ UsagesOK(c)
    BY <1>1, <1>3, <2>1, UsagesAllTold
  <2>2. CASE c.tool \in {"callers", "callees"} /\ ReferencesOK(c)
    BY <1>1, <1>3, <2>2, ReferencesAllTold
  <2>3. CASE c.tool = "content" /\ ContentOK(c)
    BY <1>1, <1>3, <2>3, ContentAllTold
  <2>4. CASE c.tool = "files" /\ FilesOK(c, session)
    BY <1>1, <1>3, <2>4, FilesAllTold
  <2> QED
    BY <1>1, <2>1, <2>2, <2>3, <2>4 DEF AnswerOK
<1> QED
  BY <1>2, <1>3 DEF PagesTellAll

\* Whatever the index, the files, the session, the question and the size of a
\* page: what a cursor has is as the invariant says.
THEOREM PagesInvHolds == NavigationSpec => []PagesInv
BY PagesBegin, PagesStep, PTL DEF NavigationSpec

\* Once the last page is told, the pages are the whole answer, each part of it
\* once and in its order; and while files change, no page tells a place twice
\* (find_usages, find_callers, find_callees, search_content, search_files).
THEOREM EveryPageTold == NavigationSpec => []PagesTellAll
BY PagesAllTold, PagesInvHolds, PTL

-----------------------------------------------------------------------------
(***************************************************************************)
(* The index a search reads: who builds it, and what its sentinel says.    *)
(* While nobody rebuilds what another built, one builder is in the         *)
(* directory at a time, and what it wrote lies there until its sentinel.   *)
(* A writer that is alone drops snapshot, sentinel and reader, or replaces *)
(* them by its own, in an order that leaves none of the old ones behind;   *)
(* a search that follows finds all three of index.bin, or builds them.     *)
(***************************************************************************)
Building == {"create", "commit", "sentinel"}

\* Who stands where.
Places ==
  /\ pc(Flusher) \in {"idle", "drop_cache", "mark_stale", "drop_reader"}
  /\ \A c \in Searchers : pc(c) \notin {"drop_reader", "publish", "drop_cache", "mark_stale"}
  /\ \A w \in Indexers : pc(w) \notin {"drop_cache", "mark_stale", "search_fill", "open", "keep_reader"}
  /\ \A p \in Processes : local[p].fresh => p \in Indexers /\ pc(p) # "idle"

OneBuilder ==
  ~buildRace =>
    /\ \A p, q \in Processes : pc(p) \in Building /\ pc(q) \in Building => p = q
    /\ \A p \in Processes : pc(p) = "create" => ~bm25.exists
    /\ \A p \in Processes : pc(p) = "commit" => local[p].sees = {} /\ ~bm25.torn
    /\ \A p \in Processes : pc(p) = "sentinel" => OneBuild /\ ~bm25.torn
    /\ bm25.ready /\ ~bm25.torn => OneBuild

\* A writer that has been alone since it started.
AloneFlush ==
  Flusher \in quiet =>
    /\ pc(Flusher) \in {"drop_cache", "mark_stale", "drop_reader"}
    /\ pc(Flusher) # "drop_cache" => ~cache.present
    /\ pc(Flusher) = "drop_reader" => ~bm25.ready

AloneRun ==
  \A w \in Indexers : w \in quiet =>
    /\ pc(w) \in {"drop_reader", "remove", "create", "commit", "sentinel", "publish"}
    /\ local[w].fresh /\ local[w].own = disk
    /\ pc(w) # "drop_reader" => ~reader.present
    /\ pc(w) = "create" => ~bm25.exists
    /\ pc(w) = "commit" => bm25.exists /\ local[w].sees = {} /\ ~bm25.torn
    /\ pc(w) \in {"sentinel", "publish"} => bm25.exists /\ bm25.content = {disk} /\ ~bm25.torn

Alone ==
  /\ \A w \in quiet : \A p \in Processes \ {w} : pc(p) = "idle"
  /\ AloneFlush
  /\ AloneRun

\* What the searches and cached answers that come after it find and keep.
InHand(p) ==
  /\ pc(p) # "drop_reader"
  /\ pc(p) \in {"search_fill", "ensure", "remove", "create", "commit", "sentinel", "publish"}
       => local[p].own = disk
  /\ pc(p) = "create" => ~bm25.exists
  /\ pc(p) = "commit" => bm25.exists /\ ~bm25.ready /\ local[p].sees = {} /\ ~bm25.torn
  /\ pc(p) = "sentinel" => bm25.exists /\ bm25.content = {disk} /\ ~bm25.torn
  /\ pc(p) = "open" => bm25.ready
  /\ pc(p) = "keep_reader" => local[p].sees = {disk}

Repaired ==
  /\ cache.present => cache.idx = disk
  /\ bm25.ready => bm25.content = {disk} /\ ~bm25.torn
  /\ reader.present => reader.sees = {disk}

Settled ==
  settled =>
    /\ quiet = {}
    /\ pc(Flusher) = "idle"
    /\ \A w \in Indexers : ~local[w].fresh
    /\ ~buildRace => Repaired /\ \A p \in Processes : InHand(p)

Held == [pc : Stages, own : Saves, sees : SUBSET Saves, fresh : BOOLEAN]

TextInv == TypeOK /\ Places /\ OneBuilder /\ Alone /\ Settled

-----------------------------------------------------------------------------
LEMMA FinishTypes ==
  ASSUME NEW w \in Writers, Finishes(w)
  PROVE  settled' \in BOOLEAN /\ buildRace' \in BOOLEAN
<1>1. settled' = (w \in quiet) /\ buildRace' = (buildRace /\ w \notin quiet)
  BY DEF Finishes
<1> QED
  BY <1>1

LEMMA IdleHeld == Idle \in Held
  BY TextIndexAssumption DEF Idle, Held, Stages, Saves

LEMMA TextTypeStep ==
  ASSUME TypeOK, [TextNext]_textVars
  PROVE  TypeOK'
<1> USE TextIndexAssumption DEF Processes, Writers, TypeOK, Saves, Stages
<1>1. CASE FlushSave
  <2>1. disk' \in Saves /\ cache' \in [present : BOOLEAN, idx : Saves]
    BY <1>1 DEF FlushSave, Go, Starts, pc
  <2>2. /\ bm25' \in [exists : BOOLEAN, content : SUBSET Saves, torn : BOOLEAN, ready : BOOLEAN]
         /\ (bm25.ready \/ bm25.torn \/ bm25.content # {} => bm25.exists)'
         /\ reader' \in [present : BOOLEAN, sees : SUBSET Saves]
    BY <1>1 DEF FlushSave, Go, Starts, pc
  <2>3. local' \in [Processes -> [pc : Stages, own : Saves, sees : SUBSET Saves, fresh : BOOLEAN]]
    BY <1>1 DEF FlushSave, Go, Starts, pc
  <2>4. /\ crashes' \in 0 .. MaxCrashes
         /\ quiet' \in SUBSET Writers /\ settled' \in BOOLEAN /\ buildRace' \in BOOLEAN
    BY <1>1 DEF FlushSave, Go, Starts, pc
  <2> QED
    BY <2>1, <2>2, <2>3, <2>4
<1>2. CASE DropCache
  BY <1>2 DEF DropCache, Go, Steps, NoSnapshot, pc
<1>3. CASE MarkStale
  <2>1. disk' \in Saves /\ cache' \in [present : BOOLEAN, idx : Saves]
    BY <1>3 DEF MarkStale, Go, Steps, Fails, pc
  <2>2. /\ bm25' \in [exists : BOOLEAN, content : SUBSET Saves, torn : BOOLEAN, ready : BOOLEAN]
         /\ (bm25.ready \/ bm25.torn \/ bm25.content # {} => bm25.exists)'
         /\ reader' \in [present : BOOLEAN, sees : SUBSET Saves]
    <3>1. /\ bm25' = [bm25 EXCEPT !.ready = FALSE] \/ bm25' = bm25
          /\ reader' = reader
      BY <1>3 DEF MarkStale
    <3> QED
      BY <3>1
  <2>3. local' \in [Processes -> [pc : Stages, own : Saves, sees : SUBSET Saves, fresh : BOOLEAN]]
    BY <1>3 DEF MarkStale, Go, Steps, Fails, pc
  <2>4. /\ crashes' \in 0 .. MaxCrashes
         /\ quiet' \in SUBSET Writers /\ settled' \in BOOLEAN /\ buildRace' \in BOOLEAN
    BY <1>3 DEF MarkStale, Go, Steps, Fails, pc
  <2> QED
    BY <2>1, <2>2, <2>3, <2>4
<1>4. ASSUME NEW w \in Writers, DropReader(w) PROVE TypeOK'
  <2>0. Idle \in Held /\ local[w] \in Held
    BY <1>4, IdleHeld DEF Held
  <2>1. disk' \in Saves /\ cache' \in [present : BOOLEAN, idx : Saves]
    BY <1>4 DEF DropReader, Go, Rest, Steps, Finishes, Idle, NoReader, pc
  <2>2. /\ bm25' \in [exists : BOOLEAN, content : SUBSET Saves, torn : BOOLEAN, ready : BOOLEAN]
         /\ (bm25.ready \/ bm25.torn \/ bm25.content # {} => bm25.exists)'
         /\ reader' \in [present : BOOLEAN, sees : SUBSET Saves]
    BY <1>4 DEF DropReader, Go, Rest, Steps, Finishes, Idle, NoReader, pc
  <2>3. local' \in [Processes -> [pc : Stages, own : Saves, sees : SUBSET Saves, fresh : BOOLEAN]]
    <3>1. CASE w = Flusher
      <4>1. local' = [local EXCEPT ![w] = Idle]
        BY <1>4, <3>1 DEF DropReader, pc, Go, Rest, Broken
      <4>2. Idle \in Held
        BY <2>0, <3>1 DEF Held, Idle
      <4> QED
        BY <4>1, <4>2 DEF Held
    <3>2. CASE w # Flusher
      <4>1. local' = [local EXCEPT ![w] = [local[w] EXCEPT !.pc = "remove"]]
        BY <1>4, <3>2 DEF DropReader, pc, Go, Rest, Broken
      <4>2. [local[w] EXCEPT !.pc = "remove"] \in Held
        BY <2>0, <3>2 DEF Held, Idle
      <4> QED
        BY <4>1, <4>2 DEF Held
    <3> QED
      BY <3>1, <3>2
  <2>4. /\ crashes' \in 0 .. MaxCrashes
         /\ quiet' \in SUBSET Writers /\ settled' \in BOOLEAN /\ buildRace' \in BOOLEAN
    <3>1. CASE w = Flusher
      <4>1. Finishes(w)
        BY <1>4, <3>1 DEF DropReader
      <4> QED
        BY <4>1, FinishTypes DEF Finishes
    <3>2. CASE w # Flusher
      BY <1>4, <3>2 DEF DropReader, Steps
    <3> QED
      BY <3>1, <3>2
  <2> QED
    BY <2>1, <2>2, <2>3, <2>4
<1>5. ASSUME NEW w \in Indexers, IndexSave(w) PROVE TypeOK'
  <2>1. disk' \in Saves /\ cache' \in [present : BOOLEAN, idx : Saves]
    BY <1>5 DEF IndexSave, Starts, pc
  <2>2. /\ bm25' \in [exists : BOOLEAN, content : SUBSET Saves, torn : BOOLEAN, ready : BOOLEAN]
         /\ (bm25.ready \/ bm25.torn \/ bm25.content # {} => bm25.exists)'
         /\ reader' \in [present : BOOLEAN, sees : SUBSET Saves]
    BY <1>5 DEF IndexSave, Starts, pc
  <2>3. local' \in [Processes -> [pc : Stages, own : Saves, sees : SUBSET Saves, fresh : BOOLEAN]]
    BY <1>5 DEF IndexSave, Starts, pc
  <2>4. /\ crashes' \in 0 .. MaxCrashes
         /\ quiet' \in SUBSET Writers /\ settled' \in BOOLEAN /\ buildRace' \in BOOLEAN
    BY <1>5 DEF IndexSave, Starts, pc
  <2> QED
    BY <2>1, <2>2, <2>3, <2>4
<1>6. ASSUME NEW w \in Indexers, Abandon(w) PROVE TypeOK'
  BY <1>6 DEF Abandon, Rest, Fails, Idle, sharedVars, pc
<1>7. ASSUME NEW w \in Indexers, Publish(w) PROVE TypeOK'
  <2>1. disk' \in Saves /\ cache' \in [present : BOOLEAN, idx : Saves]
    BY <1>7 DEF Publish, Rest, Steps, Finishes, Snapshot, Idle, pc
  <2>2. /\ bm25' \in [exists : BOOLEAN, content : SUBSET Saves, torn : BOOLEAN, ready : BOOLEAN]
         /\ (bm25.ready \/ bm25.torn \/ bm25.content # {} => bm25.exists)'
         /\ reader' \in [present : BOOLEAN, sees : SUBSET Saves]
    BY <1>7 DEF Publish, Rest, Steps, Finishes, Snapshot, Idle, pc
  <2>3. local' \in [Processes -> [pc : Stages, own : Saves, sees : SUBSET Saves, fresh : BOOLEAN]]
    BY <1>7 DEF Publish, Rest, Steps, Finishes, Snapshot, Idle, pc
  <2>4. /\ crashes' \in 0 .. MaxCrashes
         /\ quiet' \in SUBSET Writers /\ settled' \in BOOLEAN /\ buildRace' \in BOOLEAN
    <3>1. CASE local[w].fresh
      <4>1. Finishes(w)
        BY <1>7, <3>1 DEF Publish
      <4> QED
        BY <4>1, FinishTypes DEF Finishes
    <3>2. CASE ~local[w].fresh
      BY <1>7, <3>2 DEF Publish, Steps
    <3> QED
      BY <3>1, <3>2
  <2> QED
    BY <2>1, <2>2, <2>3, <2>4
<1>8. ASSUME NEW w \in Indexers, IndexCached(w) PROVE TypeOK'
  BY <1>8 DEF IndexCached, Steps, Idle, sharedVars, pc
<1>9. ASSUME NEW p \in Processes, Ensure(p) PROVE TypeOK'
  BY <1>9 DEF Ensure, Go, Steps, Built, sharedVars, pc
<1>10. ASSUME NEW p \in Processes, BuildRemove(p) PROVE TypeOK'
  BY <1>10 DEF BuildRemove, Meets, Go, Steps, NoDir, pc
<1>11. ASSUME NEW p \in Processes, BuildCreate(p) PROVE TypeOK'
  <2>1. disk' \in Saves /\ cache' \in [present : BOOLEAN, idx : Saves]
    BY <1>11 DEF BuildCreate, Steps, NoDir, EmptyDir, pc
  <2>2. /\ bm25' \in [exists : BOOLEAN, content : SUBSET Saves, torn : BOOLEAN, ready : BOOLEAN]
         /\ (bm25.ready \/ bm25.torn \/ bm25.content # {} => bm25.exists)'
         /\ reader' \in [present : BOOLEAN, sees : SUBSET Saves]
    BY <1>11 DEF BuildCreate, Steps, NoDir, EmptyDir, pc
  <2>3. local' \in [Processes -> [pc : Stages, own : Saves, sees : SUBSET Saves, fresh : BOOLEAN]]
    BY <1>11 DEF BuildCreate, Steps, NoDir, EmptyDir, pc
  <2>4. /\ crashes' \in 0 .. MaxCrashes
         /\ quiet' \in SUBSET Writers /\ settled' \in BOOLEAN /\ buildRace' \in BOOLEAN
    BY <1>11 DEF BuildCreate, Steps, NoDir, EmptyDir, pc
  <2> QED
    BY <2>1, <2>2, <2>3, <2>4
<1>12. ASSUME NEW p \in Processes, BuildCommit(p) PROVE TypeOK'
  BY <1>12 DEF BuildCommit, Go, Steps, pc
<1>13. ASSUME NEW p \in Processes, BuildSentinel(p) PROVE TypeOK'
  <2>1. disk' \in Saves /\ cache' \in [present : BOOLEAN, idx : Saves]
    BY <1>13 DEF BuildSentinel, Steps, Built, pc
  <2>2. /\ bm25' \in [exists : BOOLEAN, content : SUBSET Saves, torn : BOOLEAN, ready : BOOLEAN]
         /\ (bm25.ready \/ bm25.torn \/ bm25.content # {} => bm25.exists)'
         /\ reader' \in [present : BOOLEAN, sees : SUBSET Saves]
    BY <1>13 DEF BuildSentinel, Steps, Built, pc
  <2>3. local' \in [Processes -> [pc : Stages, own : Saves, sees : SUBSET Saves, fresh : BOOLEAN]]
    BY <1>13 DEF BuildSentinel, Steps, Built, pc
  <2>4. /\ crashes' \in 0 .. MaxCrashes
         /\ quiet' \in SUBSET Writers /\ settled' \in BOOLEAN /\ buildRace' \in BOOLEAN
    BY <1>13 DEF BuildSentinel, Steps, Built, pc
  <2> QED
    BY <2>1, <2>2, <2>3, <2>4
<1>14. ASSUME NEW p \in Processes, BuildFails(p) PROVE TypeOK'
  <2>0. Idle \in Held /\ local[p] \in Held
    BY <1>14, IdleHeld DEF Held
  <2>1. disk' \in Saves /\ cache' \in [present : BOOLEAN, idx : Saves]
    BY <1>14 DEF BuildFails, Steps, Fails, Idle, Broken, sharedVars, pc
  <2>2. /\ bm25' \in [exists : BOOLEAN, content : SUBSET Saves, torn : BOOLEAN, ready : BOOLEAN]
         /\ (bm25.ready \/ bm25.torn \/ bm25.content # {} => bm25.exists)'
         /\ reader' \in [present : BOOLEAN, sees : SUBSET Saves]
    BY <1>14 DEF BuildFails, Steps, Fails, Idle, Broken, sharedVars, pc
  <2>3. local' \in [Processes -> [pc : Stages, own : Saves, sees : SUBSET Saves, fresh : BOOLEAN]]
    <3>1. CASE Broken(p) = "idle"
      <4>1. local' = [local EXCEPT ![p] = Idle]
        BY <1>14, <3>1 DEF BuildFails, pc, Go, Rest, Broken
      <4>2. Idle \in Held
        BY <2>0, <3>1 DEF Held, Idle
      <4> QED
        BY <4>1, <4>2 DEF Held
    <3>2. CASE Broken(p) # "idle"
      <4>1. local' = [local EXCEPT ![p] = [local[p] EXCEPT !.pc = "publish", !.sees = {}]]
        BY <1>14, <3>2 DEF BuildFails, pc, Go, Rest, Broken
      <4>2. [local[p] EXCEPT !.pc = "publish", !.sees = {}] \in Held
        BY <2>0, <3>2 DEF Held, Idle
      <4> QED
        BY <4>1, <4>2 DEF Held
    <3> QED
      BY <3>1, <3>2
  <2>4. /\ crashes' \in 0 .. MaxCrashes
         /\ quiet' \in SUBSET Writers /\ settled' \in BOOLEAN /\ buildRace' \in BOOLEAN
    BY <1>14 DEF BuildFails, Steps, Fails, Idle, Broken, sharedVars, pc
  <2> QED
    BY <2>1, <2>2, <2>3, <2>4
<1>15. ASSUME NEW c \in Searchers, Search(c) PROVE TypeOK'
  <2>0. Idle \in Held /\ local[c] \in Held
    BY <1>15, IdleHeld DEF Held
  <2>1. disk' \in Saves /\ cache' \in [present : BOOLEAN, idx : Saves]
    BY <1>15 DEF Search, Steps, sharedVars, pc
  <2>2. /\ bm25' \in [exists : BOOLEAN, content : SUBSET Saves, torn : BOOLEAN, ready : BOOLEAN]
         /\ (bm25.ready \/ bm25.torn \/ bm25.content # {} => bm25.exists)'
         /\ reader' \in [present : BOOLEAN, sees : SUBSET Saves]
    BY <1>15 DEF Search, Steps, sharedVars, pc
  <2>3. local' \in [Processes -> [pc : Stages, own : Saves, sees : SUBSET Saves, fresh : BOOLEAN]]
    <3>1. CASE cache.present
      <4>1. local' = [local EXCEPT ![c] = [local[c] EXCEPT !.pc = "ensure", !.own = cache.idx]]
        BY <1>15, <3>1 DEF Search, pc, Go, Rest, Broken
      <4>2. [local[c] EXCEPT !.pc = "ensure", !.own = cache.idx] \in Held
        BY <2>0, <3>1 DEF Held, Idle
      <4> QED
        BY <4>1, <4>2 DEF Held
    <3>2. CASE ~cache.present
      <4>1. local' = [local EXCEPT ![c] = [local[c] EXCEPT !.pc = "search_fill", !.own = disk]]
        BY <1>15, <3>2 DEF Search, pc, Go, Rest, Broken
      <4>2. [local[c] EXCEPT !.pc = "search_fill", !.own = disk] \in Held
        BY <2>0, <3>2 DEF Held, Idle
      <4> QED
        BY <4>1, <4>2 DEF Held
    <3> QED
      BY <3>1, <3>2
  <2>4. /\ crashes' \in 0 .. MaxCrashes
         /\ quiet' \in SUBSET Writers /\ settled' \in BOOLEAN /\ buildRace' \in BOOLEAN
    BY <1>15 DEF Search, Steps, sharedVars, pc
  <2> QED
    BY <2>1, <2>2, <2>3, <2>4
<1>16. ASSUME NEW c \in Searchers, SearchFill(c) PROVE TypeOK'
  BY <1>16 DEF SearchFill, Go, Steps, Snapshot, pc
<1>17. ASSUME NEW c \in Searchers, OpenReader(c) PROVE TypeOK'
  <2>0. Idle \in Held /\ local[c] \in Held
    BY <1>17, IdleHeld DEF Held
  <2>1. disk' \in Saves /\ cache' \in [present : BOOLEAN, idx : Saves]
    BY <1>17 DEF OpenReader, Rest, Steps, Idle, sharedVars, pc
  <2>2. /\ bm25' \in [exists : BOOLEAN, content : SUBSET Saves, torn : BOOLEAN, ready : BOOLEAN]
         /\ (bm25.ready \/ bm25.torn \/ bm25.content # {} => bm25.exists)'
         /\ reader' \in [present : BOOLEAN, sees : SUBSET Saves]
    BY <1>17 DEF OpenReader, Rest, Steps, Idle, sharedVars, pc
  <2>3. local' \in [Processes -> [pc : Stages, own : Saves, sees : SUBSET Saves, fresh : BOOLEAN]]
    <3>0. \/ local' = [local EXCEPT ![c] = Idle]
          \/ local' = [local EXCEPT ![c] = [Idle EXCEPT !.pc = "keep_reader", !.sees = bm25.content]]
      BY <1>17 DEF OpenReader, Rest
    <3>1. [Idle EXCEPT !.pc = "keep_reader", !.sees = bm25.content] \in Held
      BY <2>0 DEF Held, Idle
    <3>2. \A h \in Held : [local EXCEPT ![c] = h] \in [Processes -> Held]
      BY <1>17 DEF Held
    <3>3. local' \in [Processes -> Held]
      BY ONLY <2>0, <3>0, <3>1, <3>2
    <3> QED
      BY <3>3 DEF Held
  <2>4. /\ crashes' \in 0 .. MaxCrashes
         /\ quiet' \in SUBSET Writers /\ settled' \in BOOLEAN /\ buildRace' \in BOOLEAN
    BY <1>17 DEF OpenReader, Rest, Steps, Idle, sharedVars, pc
  <2> QED
    BY <2>1, <2>2, <2>3, <2>4
<1>18. ASSUME NEW c \in Searchers, KeepReader(c) PROVE TypeOK'
  BY <1>18 DEF KeepReader, Rest, Steps, Idle, pc
<1>19. CASE Crash
  BY <1>19 DEF Crash, Idle, NoSnapshot, NoReader, pc
<1>20. CASE UNCHANGED textVars
  BY <1>20 DEF textVars, sharedVars, historyVars, pc
<1>21. ASSUME NEW p \in Processes, BuildErase(p) PROVE TypeOK'
  <2>1. PICK left \in SUBSET bm25.content, ready \in {bm25.ready, FALSE} :
          bm25' = [exists |-> TRUE, content |-> left, torn |-> TRUE, ready |-> ready]
    BY <1>21 DEF BuildErase
  <2>2. /\ bm25' \in [exists : BOOLEAN, content : SUBSET Saves, torn : BOOLEAN, ready : BOOLEAN]
         /\ (bm25.ready \/ bm25.torn \/ bm25.content # {} => bm25.exists)'
    BY <2>1
  <2>3. buildRace' \in BOOLEAN
    BY <1>21 DEF BuildErase, Meets
  <2> QED
    BY <1>21, <2>2, <2>3 DEF BuildErase, Steps
<1> QED
  BY <1>1, <1>2, <1>3, <1>4, <1>5, <1>6, <1>7, <1>8, <1>9, <1>10, <1>11, <1>12, <1>13, <1>14, <1>15, <1>16, <1>17, <1>18, <1>19, <1>20, <1>21 DEF TextNext

LEMMA PlacesStep ==
  ASSUME TypeOK, Places, [TextNext]_textVars
  PROVE  Places'
<1> USE TextIndexAssumption DEF Processes, Writers, TypeOK, Places, Stages
<1>1. CASE FlushSave
  BY <1>1 DEF FlushSave, Go, Starts, pc
<1>2. CASE DropCache
  BY <1>2 DEF DropCache, Go, Steps, NoSnapshot, pc
<1>3. CASE MarkStale
  BY <1>3 DEF MarkStale, Go, Steps, Fails, pc
<1>4. ASSUME NEW w \in Writers, DropReader(w) PROVE Places'
  BY <1>4 DEF DropReader, Go, Rest, Steps, Finishes, Idle, NoReader, pc
<1>5. ASSUME NEW w \in Indexers, IndexSave(w) PROVE Places'
  BY <1>5 DEF IndexSave, Starts, pc
<1>6. ASSUME NEW w \in Indexers, Abandon(w) PROVE Places'
  BY <1>6 DEF Abandon, Rest, Fails, Idle, sharedVars, pc
<1>7. ASSUME NEW w \in Indexers, Publish(w) PROVE Places'
  BY <1>7 DEF Publish, Rest, Steps, Finishes, Snapshot, Idle, pc
<1>8. ASSUME NEW w \in Indexers, IndexCached(w) PROVE Places'
  BY <1>8 DEF IndexCached, Steps, Idle, sharedVars, pc
<1>9. ASSUME NEW p \in Processes, Ensure(p) PROVE Places'
  BY <1>9 DEF Ensure, Go, Steps, Built, sharedVars, pc
<1>10. ASSUME NEW p \in Processes, BuildRemove(p) PROVE Places'
  BY <1>10 DEF BuildRemove, Meets, Go, Steps, NoDir, pc
<1>11. ASSUME NEW p \in Processes, BuildCreate(p) PROVE Places'
  BY <1>11 DEF BuildCreate, Steps, NoDir, EmptyDir, pc
<1>12. ASSUME NEW p \in Processes, BuildCommit(p) PROVE Places'
  BY <1>12 DEF BuildCommit, Go, Steps, pc
<1>13. ASSUME NEW p \in Processes, BuildSentinel(p) PROVE Places'
  BY <1>13 DEF BuildSentinel, Steps, Built, pc
<1>14. ASSUME NEW p \in Processes, BuildFails(p) PROVE Places'
  BY <1>14 DEF BuildFails, Steps, Fails, Idle, Broken, sharedVars, pc
<1>15. ASSUME NEW c \in Searchers, Search(c) PROVE Places'
  BY <1>15 DEF Search, Steps, sharedVars, pc
<1>16. ASSUME NEW c \in Searchers, SearchFill(c) PROVE Places'
  BY <1>16 DEF SearchFill, Go, Steps, Snapshot, pc
<1>17. ASSUME NEW c \in Searchers, OpenReader(c) PROVE Places'
  <2>0. UNCHANGED <<disk, cache, bm25, reader, buildRace, settled>> /\ quiet' \subseteq quiet /\ pc(c) = "open"
    BY <1>17 DEF OpenReader, Steps, sharedVars
  <2>1. CASE local' = [local EXCEPT ![c] = Idle]
    BY <1>17, <2>0, <2>1 DEF Idle, pc
  <2>2. CASE local' = [local EXCEPT ![c] = [Idle EXCEPT !.pc = "keep_reader", !.sees = bm25.content]]
    BY <1>17, <2>0, <2>2 DEF Idle, pc
  <2> QED
    BY <1>17, <2>1, <2>2 DEF OpenReader, Rest
<1>18. ASSUME NEW c \in Searchers, KeepReader(c) PROVE Places'
  BY <1>18 DEF KeepReader, Rest, Steps, Idle, pc
<1>19. CASE Crash
  BY <1>19 DEF Crash, Idle, NoSnapshot, NoReader, pc
<1>20. CASE UNCHANGED textVars
  BY <1>20 DEF textVars, sharedVars, historyVars, pc
<1>21. ASSUME NEW p \in Processes, BuildErase(p) PROVE Places'
  BY <1>21 DEF BuildErase, Meets, Steps, pc
<1> QED
  BY <1>1, <1>2, <1>3, <1>4, <1>5, <1>6, <1>7, <1>8, <1>9, <1>10, <1>11, <1>12, <1>13, <1>14, <1>15, <1>16, <1>17, <1>18, <1>19, <1>20, <1>21 DEF TextNext

LEMMA BuilderStep ==
  ASSUME TypeOK, Places, OneBuilder, Alone, [TextNext]_textVars
  PROVE  OneBuilder'
<1> USE TextIndexAssumption DEF Processes, Writers, TypeOK, Places, OneBuilder, Alone, AloneFlush, AloneRun, Building, OneBuild, Saves
<1>1. CASE FlushSave
  BY <1>1 DEF FlushSave, Go, Starts, pc
<1>2. CASE DropCache
  BY <1>2 DEF DropCache, Go, Steps, NoSnapshot, pc
<1>3. CASE MarkStale
  BY <1>3 DEF MarkStale, Go, Steps, Fails, pc
<1>4. ASSUME NEW w \in Writers, DropReader(w) PROVE OneBuilder'
  BY <1>4 DEF DropReader, Go, Rest, Steps, Finishes, Idle, NoReader, pc
<1>5. ASSUME NEW w \in Indexers, IndexSave(w) PROVE OneBuilder'
  BY <1>5 DEF IndexSave, Starts, pc
<1>6. ASSUME NEW w \in Indexers, Abandon(w) PROVE OneBuilder'
  BY <1>6 DEF Abandon, Rest, Fails, Idle, sharedVars, pc
<1>7. ASSUME NEW w \in Indexers, Publish(w) PROVE OneBuilder'
  BY <1>7 DEF Publish, Rest, Steps, Finishes, Snapshot, Idle, pc
<1>8. ASSUME NEW w \in Indexers, IndexCached(w) PROVE OneBuilder'
  BY <1>8 DEF IndexCached, Steps, Idle, sharedVars, pc
<1>9. ASSUME NEW p \in Processes, Ensure(p) PROVE OneBuilder'
  BY <1>9 DEF Ensure, Go, Steps, Built, sharedVars, pc
<1>10. ASSUME NEW p \in Processes, BuildRemove(p) PROVE OneBuilder'
  <2>0. bm25' = NoDir /\ local' = [local EXCEPT ![p].pc = "create"] /\ buildRace' = (buildRace \/ Meets(p))
    BY <1>10 DEF BuildRemove, Go
  <2>1. SUFFICES ASSUME ~buildRace' PROVE OneBuilder'
    BY DEF OneBuilder
  <2>2. \A q \in Processes \ {p} : pc(q) \notin Building /\ pc(q)' = pc(q)
    BY <2>0, <2>1 DEF Meets, pc
  <2>3. pc(p)' = "create" /\ ~bm25.exists' /\ ~bm25.ready'
    BY <2>0 DEF NoDir, pc
  <2>4. \A q \in Processes : pc(q)' \in Building => q = p
    BY <2>2
  <2> QED
    BY <2>3, <2>4
<1>11. ASSUME NEW p \in Processes, BuildCreate(p) PROVE OneBuilder'
  BY <1>11 DEF BuildCreate, Steps, NoDir, EmptyDir, pc
<1>12. ASSUME NEW p \in Processes, BuildCommit(p) PROVE OneBuilder'
  BY <1>12 DEF BuildCommit, Go, Steps, pc
<1>13. ASSUME NEW p \in Processes, BuildSentinel(p) PROVE OneBuilder'
  BY <1>13 DEF BuildSentinel, Steps, Built, pc
<1>14. ASSUME NEW p \in Processes, BuildFails(p) PROVE OneBuilder'
  BY <1>14 DEF BuildFails, Steps, Fails, Idle, Broken, sharedVars, pc
<1>15. ASSUME NEW c \in Searchers, Search(c) PROVE OneBuilder'
  BY <1>15 DEF Search, Steps, sharedVars, pc
<1>16. ASSUME NEW c \in Searchers, SearchFill(c) PROVE OneBuilder'
  BY <1>16 DEF SearchFill, Go, Steps, Snapshot, pc
<1>17. ASSUME NEW c \in Searchers, OpenReader(c) PROVE OneBuilder'
  <2>0. UNCHANGED <<disk, cache, bm25, reader, buildRace, settled>> /\ quiet' \subseteq quiet /\ pc(c) = "open"
    BY <1>17 DEF OpenReader, Steps, sharedVars
  <2>1. CASE local' = [local EXCEPT ![c] = Idle]
    BY <1>17, <2>0, <2>1 DEF Idle, pc
  <2>2. CASE local' = [local EXCEPT ![c] = [Idle EXCEPT !.pc = "keep_reader", !.sees = bm25.content]]
    BY <1>17, <2>0, <2>2 DEF Idle, pc
  <2> QED
    BY <1>17, <2>1, <2>2 DEF OpenReader, Rest
<1>18. ASSUME NEW c \in Searchers, KeepReader(c) PROVE OneBuilder'
  BY <1>18 DEF KeepReader, Rest, Steps, Idle, pc
<1>19. CASE Crash
  BY <1>19 DEF Crash, Idle, NoSnapshot, NoReader, pc
<1>20. CASE UNCHANGED textVars
  BY <1>20 DEF textVars, sharedVars, historyVars, pc
<1>21. ASSUME NEW p \in Processes, BuildErase(p) PROVE OneBuilder'
  BY <1>21 DEF BuildErase, Meets, Steps, pc
<1> QED
  BY <1>1, <1>2, <1>3, <1>4, <1>5, <1>6, <1>7, <1>8, <1>9, <1>10, <1>11, <1>12, <1>13, <1>14, <1>15, <1>16, <1>17, <1>18, <1>19, <1>20, <1>21 DEF TextNext

LEMMA AloneStep ==
  ASSUME TypeOK, Places, Alone, [TextNext]_textVars
  PROVE  Alone'
<1> USE TextIndexAssumption DEF Processes, Writers, TypeOK, Places, Alone, AloneFlush, AloneRun
<1>1. CASE FlushSave
  BY <1>1 DEF FlushSave, Go, Starts, pc
<1>2. CASE DropCache
  BY <1>2 DEF DropCache, Go, Steps, NoSnapshot, pc
<1>3. CASE MarkStale
  BY <1>3 DEF MarkStale, Go, Steps, Fails, pc
<1>4. ASSUME NEW w \in Writers, DropReader(w) PROVE Alone'
  BY <1>4 DEF DropReader, Go, Rest, Steps, Finishes, Idle, NoReader, pc
<1>5. ASSUME NEW w \in Indexers, IndexSave(w) PROVE Alone'
  BY <1>5 DEF IndexSave, Starts, pc
<1>6. ASSUME NEW w \in Indexers, Abandon(w) PROVE Alone'
  BY <1>6 DEF Abandon, Rest, Fails, Idle, sharedVars, pc
<1>7. ASSUME NEW w \in Indexers, Publish(w) PROVE Alone'
  BY <1>7 DEF Publish, Rest, Steps, Finishes, Snapshot, Idle, pc
<1>8. ASSUME NEW w \in Indexers, IndexCached(w) PROVE Alone'
  BY <1>8 DEF IndexCached, Steps, Idle, sharedVars, pc
<1>9. ASSUME NEW p \in Processes, Ensure(p) PROVE Alone'
  BY <1>9 DEF Ensure, Go, Steps, Built, sharedVars, pc
<1>10. ASSUME NEW p \in Processes, BuildRemove(p) PROVE Alone'
  BY <1>10 DEF BuildRemove, Meets, Go, Steps, NoDir, pc
<1>11. ASSUME NEW p \in Processes, BuildCreate(p) PROVE Alone'
  BY <1>11 DEF BuildCreate, Steps, NoDir, EmptyDir, pc
<1>12. ASSUME NEW p \in Processes, BuildCommit(p) PROVE Alone'
  BY <1>12 DEF BuildCommit, Go, Steps, pc
<1>13. ASSUME NEW p \in Processes, BuildSentinel(p) PROVE Alone'
  BY <1>13 DEF BuildSentinel, Steps, Built, pc
<1>14. ASSUME NEW p \in Processes, BuildFails(p) PROVE Alone'
  BY <1>14 DEF BuildFails, Steps, Fails, Idle, Broken, sharedVars, pc
<1>15. ASSUME NEW c \in Searchers, Search(c) PROVE Alone'
  BY <1>15 DEF Search, Steps, sharedVars, pc
<1>16. ASSUME NEW c \in Searchers, SearchFill(c) PROVE Alone'
  BY <1>16 DEF SearchFill, Go, Steps, Snapshot, pc
<1>17. ASSUME NEW c \in Searchers, OpenReader(c) PROVE Alone'
  BY <1>17 DEF OpenReader, Rest, Steps, Idle, sharedVars, pc
<1>18. ASSUME NEW c \in Searchers, KeepReader(c) PROVE Alone'
  BY <1>18 DEF KeepReader, Rest, Steps, Idle, pc
<1>19. CASE Crash
  BY <1>19 DEF Crash, Idle, NoSnapshot, NoReader, pc
<1>20. CASE UNCHANGED textVars
  BY <1>20 DEF textVars, sharedVars, historyVars, pc
<1>21. ASSUME NEW p \in Processes, BuildErase(p) PROVE Alone'
  BY <1>21 DEF BuildErase, Meets, Steps, pc
<1> QED
  BY <1>1, <1>2, <1>3, <1>4, <1>5, <1>6, <1>7, <1>8, <1>9, <1>10, <1>11, <1>12, <1>13, <1>14, <1>15, <1>16, <1>17, <1>18, <1>19, <1>20, <1>21 DEF TextNext

LEMMA SettledStep ==
  ASSUME TypeOK, Places, OneBuilder, Alone, Settled, [TextNext]_textVars
  PROVE  Settled'
<1> USE TextIndexAssumption DEF Processes, Writers, TypeOK, Places, OneBuilder, Alone, AloneFlush, AloneRun, Settled, Repaired, InHand, Building
<1>1. CASE FlushSave
  BY <1>1 DEF FlushSave, Go, Starts, pc
<1>2. CASE DropCache
  BY <1>2 DEF DropCache, Go, Steps, NoSnapshot, pc
<1>3. CASE MarkStale
  BY <1>3 DEF MarkStale, Go, Steps, Fails, pc
<1>4. ASSUME NEW w \in Writers, DropReader(w) PROVE Settled'
  <2>1. CASE w = Flusher
    <3>1. Rest(w) /\ Finishes(w) /\ reader' = NoReader /\ UNCHANGED <<disk, cache, bm25>>
      BY <1>4, <2>1 DEF DropReader
    <3>2. CASE w \in quiet
      BY <1>4, <2>1, <3>1, <3>2 DEF DropReader, Rest, Finishes, Idle, NoReader, pc
    <3>3. CASE w \notin quiet
      BY <3>1, <3>3 DEF Finishes
    <3> QED
      BY <3>2, <3>3
  <2>2. CASE w # Flusher
    <3>1. Go(w, "remove") /\ Steps(w) /\ reader' = NoReader /\ UNCHANGED <<disk, cache, bm25, buildRace>>
      BY <1>4, <2>2 DEF DropReader
    <3> QED
      BY <1>4, <2>2, <3>1 DEF DropReader, Go, Steps, NoReader, pc
  <2> QED
    BY <2>1, <2>2
<1>5. ASSUME NEW w \in Indexers, IndexSave(w) PROVE Settled'
  BY <1>5 DEF IndexSave, Starts, pc
<1>6. ASSUME NEW w \in Indexers, Abandon(w) PROVE Settled'
  BY <1>6 DEF Abandon, Rest, Fails, Idle, sharedVars, pc
<1>7. ASSUME NEW w \in Indexers, Publish(w) PROVE Settled'
  <2>1. CASE local[w].fresh /\ w \notin quiet
    <3>1. ~settled'
      BY <1>7, <2>1 DEF Publish, Finishes
    <3> QED
      BY <3>1
  <2>2. CASE local[w].fresh /\ w \in quiet
    BY <1>7, <2>2 DEF Publish, Rest, Finishes, Snapshot, Idle, pc
  <2>3. CASE ~local[w].fresh
    <3>1. /\ local' = [local EXCEPT ![w] = Idle] /\ cache' = Snapshot(local[w].own)
          /\ quiet' = quiet \cap {w}
          /\ UNCHANGED <<disk, bm25, reader, buildRace, settled>>
      BY <1>7, <2>3 DEF Publish, Rest, Steps
    <3>2. \A x \in Processes : ~local'[x].fresh \/ local'[x] = local[x]
      BY <3>1 DEF Idle
    <3>3. pc(w) = "publish" /\ w # Flusher
      BY <1>7, TextIndexAssumption DEF Publish
    <3>4. settled => quiet' = {} /\ pc(Flusher)' = "idle" /\ \A x \in Indexers : ~local'[x].fresh
      BY <3>1, <3>2, <3>3 DEF pc
    <3>5. settled /\ ~buildRace => Repaired' /\ \A x \in Processes : InHand(x)'
      BY <3>1, <3>3 DEF Snapshot, Idle, pc
    <3> QED
      BY <3>1, <3>4, <3>5
  <2> QED
    BY <2>1, <2>2, <2>3
<1>8. ASSUME NEW w \in Indexers, IndexCached(w) PROVE Settled'
  BY <1>8 DEF IndexCached, Steps, Idle, sharedVars, pc
<1>9. ASSUME NEW p \in Processes, Ensure(p) PROVE Settled'
  BY <1>9 DEF Ensure, Go, Steps, Built, sharedVars, pc
<1>10. ASSUME NEW p \in Processes, BuildRemove(p) PROVE Settled'
  BY <1>10 DEF BuildRemove, Meets, Go, Steps, NoDir, pc
<1>11. ASSUME NEW p \in Processes, BuildCreate(p) PROVE Settled'
  BY <1>11 DEF BuildCreate, Steps, NoDir, EmptyDir, pc
<1>12. ASSUME NEW p \in Processes, BuildCommit(p) PROVE Settled'
  BY <1>12 DEF BuildCommit, Go, Steps, pc
<1>13. ASSUME NEW p \in Processes, BuildSentinel(p) PROVE Settled'
  BY <1>13 DEF BuildSentinel, Steps, Built, pc
<1>14. ASSUME NEW p \in Processes, BuildFails(p) PROVE Settled'
  <2>0. /\ UNCHANGED <<disk, cache, bm25, reader, buildRace, settled>> /\ quiet' \subseteq quiet
        /\ pc(p) \in {"remove", "create", "commit", "sentinel"}
    BY <1>14 DEF BuildFails, Fails, Steps, sharedVars
  <2>1. CASE Broken(p) = "idle"
    <3>1. local' = [local EXCEPT ![p] = Idle]
      BY <1>14, <2>1 DEF BuildFails
    <3> QED
      BY <2>0, <3>1 DEF Idle, pc
  <2>2. CASE Broken(p) # "idle"
    <3>1. local' = [local EXCEPT ![p] = [local[p] EXCEPT !.pc = "publish", !.sees = {}]]
      BY <1>14, <2>2 DEF BuildFails, Broken
    <3> QED
      BY <2>0, <3>1 DEF pc
  <2> QED
    BY <2>1, <2>2
<1>15. ASSUME NEW c \in Searchers, Search(c) PROVE Settled'
  BY <1>15 DEF Search, Steps, sharedVars, pc
<1>16. ASSUME NEW c \in Searchers, SearchFill(c) PROVE Settled'
  BY <1>16 DEF SearchFill, Go, Steps, Snapshot, pc
<1>17. ASSUME NEW c \in Searchers, OpenReader(c) PROVE Settled'
  <2>0. UNCHANGED <<disk, cache, bm25, reader, buildRace, settled>> /\ quiet' \subseteq quiet /\ pc(c) = "open"
    BY <1>17 DEF OpenReader, Steps, sharedVars
  <2>1. CASE local' = [local EXCEPT ![c] = Idle]
    BY <1>17, <2>0, <2>1 DEF Idle, pc
  <2>2. CASE local' = [local EXCEPT ![c] = [Idle EXCEPT !.pc = "keep_reader", !.sees = bm25.content]]
    BY <1>17, <2>0, <2>2 DEF Idle, pc
  <2> QED
    BY <1>17, <2>1, <2>2 DEF OpenReader, Rest
<1>18. ASSUME NEW c \in Searchers, KeepReader(c) PROVE Settled'
  BY <1>18 DEF KeepReader, Rest, Steps, Idle, pc
<1>19. CASE Crash
  BY <1>19 DEF Crash, Idle, NoSnapshot, NoReader, pc
<1>20. CASE UNCHANGED textVars
  BY <1>20 DEF textVars, sharedVars, historyVars, pc
<1>21. ASSUME NEW p \in Processes, BuildErase(p) PROVE Settled'
  <2>0. /\ UNCHANGED <<disk, cache, reader, local, settled>> /\ quiet' \subseteq quiet
        /\ buildRace' = (buildRace \/ Meets(p)) /\ bm25'.ready \in {bm25.ready, FALSE}
    <3>1. PICK left \in SUBSET bm25.content, ready \in {bm25.ready, FALSE} :
            bm25' = [exists |-> TRUE, content |-> left, torn |-> TRUE, ready |-> ready]
      BY <1>21 DEF BuildErase
    <3>2. bm25'.ready = ready
      BY <3>1
    <3> QED
      BY <1>21, <3>1, <3>2 DEF BuildErase, Steps
  <2>1. SUFFICES ASSUME settled PROVE Settled'
    BY <2>0
  <2>2. quiet' = {} /\ pc(Flusher)' = "idle" /\ \A w \in Indexers : ~local'[w].fresh
    BY <2>0, <2>1 DEF pc
  <2>3. ASSUME ~buildRace' PROVE Repaired' /\ \A q \in Processes : InHand(q)'
    <3>1. ~buildRace /\ ~Meets(p) /\ Repaired /\ \A q \in Processes : InHand(q)
      BY <2>0, <2>1, <2>3
    <3>2. ~bm25.ready /\ ~bm25'.ready
      BY <2>0, <2>1, <3>1 DEF Meets
    <3>3. \A q \in Processes : pc(q) \notin {"create", "commit", "sentinel", "open"}
      BY <1>21, <3>1, <3>2 DEF Meets, BuildErase
    <3> QED
      BY <2>0, <3>1, <3>2, <3>3 DEF pc
  <2> QED
    BY <2>0, <2>2, <2>3
<1> QED
  BY <1>1, <1>2, <1>3, <1>4, <1>5, <1>6, <1>7, <1>8, <1>9, <1>10, <1>11, <1>12, <1>13, <1>14, <1>15, <1>16, <1>17, <1>18, <1>19, <1>20, <1>21 DEF TextNext

LEMMA TextBegins == TextInit => TextInv
<1> SUFFICES ASSUME TextInit PROVE TextInv
  OBVIOUS
<1> USE TextIndexAssumption DEF TextInit, Processes, Writers, Idle, pc
<1>1. TypeOK /\ (bm25.ready => OneBuild)
  <2>1. Idle \in Held
    BY IdleHeld
  <2>2. local \in [Processes -> [pc : Stages, own : Saves, sees : SUBSET Saves, fresh : BOOLEAN]]
    BY <2>1 DEF Held
  <2>3. 1 \in Saves
    BY DEF Saves
  <2>4. /\ bm25 \in [exists : BOOLEAN, content : SUBSET Saves, torn : BOOLEAN, ready : BOOLEAN]
        /\ bm25.ready \/ bm25.torn \/ bm25.content # {} => bm25.exists
        /\ bm25.ready => OneBuild
    <3>1. CASE bm25 = NoDir
      BY <3>1 DEF NoDir, EmptyDir
    <3>2. CASE bm25 = [EmptyDir EXCEPT !.content = {1}, !.ready = TRUE]
      BY <2>3, <3>2 DEF EmptyDir, NoDir, OneBuild
    <3> QED
      BY <3>1, <3>2
  <2>5. cache \in [present : BOOLEAN, idx : Saves] /\ reader \in [present : BOOLEAN, sees : SUBSET Saves]
    BY <2>3 DEF NoSnapshot, NoReader
  <2>6. crashes \in 0 .. MaxCrashes /\ quiet \in SUBSET Writers
    OBVIOUS
  <2>7. settled \in BOOLEAN /\ buildRace \in BOOLEAN /\ disk \in Saves
    BY <2>3
  <2>8. TypeOK
    BY <2>2, <2>4, <2>5, <2>6, <2>7, Zenon DEF TypeOK
  <2> QED
    BY <2>4, <2>8
<1>2. \A p \in Processes : local[p] = Idle
  OBVIOUS
<1>3. Places /\ Alone /\ Settled
  BY <1>2 DEF Places, Alone, AloneFlush, AloneRun, Settled
<1>4. OneBuilder
  BY <1>1, <1>2 DEF OneBuilder, Building
<1> QED
  BY <1>1, <1>3, <1>4 DEF TextInv

LEMMA TextInvHolds == TextSpec => []TextInv
<1>1. TextInv /\ [TextNext]_textVars => TextInv'
  BY TextTypeStep, PlacesStep, BuilderStep, AloneStep, SettledStep DEF TextInv
<1> QED
  BY TextBegins, <1>1, PTL DEF TextSpec

(* Types, for any indexers, searchers and bounds.                          *)
THEOREM TextIndexTypes == TextSpec => []TypeOK
<1>1. TextInv => TypeOK
  BY DEF TextInv
<1> QED
  BY TextInvHolds, <1>1, PTL

(* A sentinel stands over the segments of one build alone, unless two      *)
(* builders met or a removal is under way or was cut short, whatever       *)
(* failed or died (bm25.rs, build and ensure).                             *)
THEOREM SentinelAlwaysVouches == TextSpec => []SentinelVouches
<1>1. TextInv => SentinelVouches
  BY DEF TextInv, OneBuilder, SentinelVouches
<1> QED
  BY TextInvHolds, <1>1, PTL

(* A run or a flush that was alone leaves snapshot, text index and reader  *)
(* of index.bin, and the searches after it keep them so.                   *)
THEOREM AloneAlwaysRepairs == TextSpec => []AloneRepairs
<1>1. TextInv => AloneRepairs
  BY DEF TextInv, Settled, Repaired, AloneRepairs
<1> QED
  BY TextInvHolds, <1>1, PTL

=============================================================================
