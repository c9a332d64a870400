----------------------------- MODULE MCKnowledge ------------------------------
(***************************************************************************)
(* Small documents of every shape, one by one; configuration files; and a  *)
(* project of two documents that two processes search while it is edited.  *)
(***************************************************************************)
EXTENDS KnowledgeBase

CONSTANTS p1, p2

Line(kind, words) ==
  [kind |-> kind, level |-> 0, words |-> words, links |-> << >>, before |-> "nothing",
   key |-> None, value |-> None, spelled |-> {}]
Head1(level, words) == [Line("heading", words) EXCEPT !.level = level]
Key(key, value) == [Line("key", <<key, "w">>) EXCEPT !.key = key, !.value = value]
Rule == Line("rule", << >>)
Text == Line("text", <<"w">>)
Link(is, rooted, path) == [is |-> is, rooted |-> rooted, path |-> path]
Linking(links) == [Line("text", <<"see">>) EXCEPT !.links = links]
File(extension, is, source) == [extension |-> extension, is |-> is, source |-> source]

(* Documents of every shape.                                               *)
A == <<"docs", "a.md">>
B == <<"b.markdown">>
C == <<"docs", "c.md">>
Conf == <<"conf.yaml">>
Alphabet ==
  {Head1(1, <<"A">>), Head1(2, <<"A">>), Head1(2, <<"B", Mark>>), Head1(3, << >>), Text, Rule,
   Line("blank", << >>), Line("fence", << >>), Key("title", <<"t">>),
   [Head1(2, <<"Q">>) EXCEPT !.before = "mark"], [Head1(1, <<"I">>) EXCEPT !.before = "indent"],
   [Text EXCEPT !.before = "indent"]}
Outlines == {Head1(1, <<"A">>), Head1(2, <<"A">>), Head1(3, <<"2">>), Text}
Shapes ==
  UNION {[1..n -> Alphabet] : n \in 0..2}
  \cup {<<Head1(2, <<"A">>)>> \o s : s \in [1..2 -> Alphabet]}
  \cup {<<Rule, Key("title", <<"t">>), Rule>> \o s : s \in [1..1 -> Alphabet]}
  \cup {<<Rule, k, Rule, Head1(1, <<"w">>)>> : k \in {Text, Key("tags", {"x"}), Head1(1, <<"w">>)}}
  \cup {<<Head1(2, <<"A">>), Head1(3, <<"A">>)>> \o s : s \in [1..2 -> Outlines]}
Alone(source) == A :> File("md", "text", source) @@ B :> Gone @@ C :> Gone @@ Conf :> Gone

(* A project.                                                              *)
Plain(word) == <<Head1(1, <<"Setup">>), Line("text", <<word>>), Head1(2, <<"Retry">>), Line("text", <<"w">>)>>
Reviewed(trust, status) ==
  <<Rule, Key("type", "concept"), Key("verified", trust), Key("status", status), Key("stale_after", 5), Key("tags", {"ops"}), Rule,
    Line("text", <<"w">>),
    Linking(<<Link("markdown", FALSE, <<"docs", ".", "a.md">>), Link("markdown", TRUE, <<"docs", "x", "..", "a.md">>),
              Link("markdown", FALSE, <<"..", "a.md">>), Link("url", FALSE, <<"a.md">>)>>)>>
By(name) == {[by |-> name, at |-> None]}
Project(a) ==
  A :> File("md", "text", Plain(a))
  @@ B :> File("markdown", "text", Reviewed(By("human"), "draft"))
  @@ C :> Gone @@ Conf :> Gone

(* Configuration files, and files that are not read.                       *)
Node(parent, kind, key, first, last) ==
  [parent |-> parent, kind |-> kind, key |-> key, first |-> first, last |-> last]
Tree ==
  <<Node(0, "other", None, 1, 6),
      Node(1, "pair", "retry", 1, 4),
        Node(2, "pair", "limit", 2, 2),
        Node(2, "pair", Unreadable, 3, 4),
          Node(4, "pair", "hidden", 4, 4),
        Node(2, "pair", None, 4, 4),
          Node(6, "pair", "retry", 4, 4),
      Node(1, "error", None, 5, 5),
        Node(8, "pair", "limit", 5, 5),
      Node(1, "pair", "limit", 6, 6)>>
Spelling == [Line("text", <<"limit">>) EXCEPT !.spelled = {"limit"}]
Mixed(is) ==
  A :> File("md", "text", <<Head1(1, <<"the", "limit">>), Spelling, Head1(2, <<"retry">>), Head1(2, <<"limit">>),
                               Head1(3, <<"w">>), Text, Head1(4, <<"w">>), Text>>)
  @@ B :> File("markdown", is, Reviewed(By(None), None))
  @@ C :> File("md", "text", Reviewed({}, "stable"))
  @@ Conf :> File("yaml", "text", Tree)

Set(held, asking, server, edits, faults) ==
  [files |-> held, asking |-> asking, server |-> server, edits |-> edits, faults |-> faults]
Documents == {Set(Alone(s), {p1}, "none", 0, 0) : s \in Shapes}
                 \cup {Set(Mixed(is), {p1}, "ollama", 0, 0) : is \in {"text", "binary", "link"}}
Embedding == {Set(Project("w"), {p1}, server, 1, 1) : server \in {"openai", "legacy"}}
Sharing == {Set(Project("w"), {p1, p2}, "none", 2, 0)}
Faulty == {Set(Project("w"), {p1}, "none", 2, 2)}
MCSettings == Documents \cup Embedding \cup Sharing \cup Faulty
MCOrder == <<B, Conf, A, C>>
MCEdits(path) ==
  CASE path = A -> {File("md", "text", Plain("w")), File("md", "text", Plain("v"))}
    [] path = B -> {Gone, File("markdown", "text", Reviewed(By("human"), "draft"))}
    [] OTHER -> {}

Plainly ==
  [tool |-> "search", word |-> "w", words |-> << >>, tag |-> None, type |-> None, status |-> None, trust |-> None,
   within |-> None, limit |-> 2, document |-> None, section |-> None, intent |-> None, kind |-> None, language |-> None]
Reading(document, section) == [Plainly EXCEPT !.tool = "read", !.document = document, !.section = section]
Locating(words, limit) == [Plainly EXCEPT !.tool = "locate", !.words = words, !.limit = limit]
IsProject(held) == held[C] = Gone /\ (held[B] # Gone \/ held[A].source \in {Plain("w"), Plain("v")})
MCQuestions(held) ==
  IF held[Conf] # Gone
  THEN {Plainly, [Plainly EXCEPT !.tag = "ops"], [Plainly EXCEPT !.type = "concept", !.trust = "machine-confirmed"],
        [Plainly EXCEPT !.status = "stable"], [Plainly EXCEPT !.within = "docs", !.limit = 1], [Plainly EXCEPT !.trust = "unverified"],
        Reading(C, None), Reading(Conf, None),
        Locating(<<"limit">>, 2), Locating(<<"limit">>, 8), [Locating(<<"limit">>, 8) EXCEPT !.kind = "config_key"],
        [Locating(<<"retry", "the", "limit">>, 8) EXCEPT !.intent = "config"],
        [Locating(<<"limit">>, 1) EXCEPT !.intent = "docs"], [Locating(<<"limit">>, 8) EXCEPT !.language = "yaml"]}
  ELSE IF IsProject(held)
  THEN {Plainly, Reading(A, <<"Setup", "Retry">>)}
  ELSE {Plainly, Reading(A, <<"A">>)}
MCSymbols == <<[id |-> 1, name |-> "limit", file |-> A], [id |-> 2, name |-> "retry", file |-> Conf]>>
MCCloseness(word, embedded) == IF \E i \in DOMAIN embedded[3] : word \in ToSet(embedded[3][i].words) THEN 800 ELSE 100
MCTwo == {p1, p2}
=============================================================================
