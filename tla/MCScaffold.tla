------------------------------ MODULE MCScaffold ------------------------------
(***************************************************************************)
(* Projects of two jobs that share nothing, an entry point, a schema, all  *)
(* paths of the job (names that differ in - and _ only), the test, and one *)
(* whose own topics share a schema.                                        *)
(***************************************************************************)
EXTENDS Scaffold

MCTopic(name, subject, mapping) ==
    [name |-> name, subject |-> subject, fields |-> "x", mapping |-> mapping]

MCSpec(domain, platform, snake, topics) ==
    [domain |-> domain, platform |-> platform, snake |-> snake,
     topics |-> topics, body |-> "plain"]

Project(first, second) ==
    [j \in Jobs |-> IF j = "orders" THEN first ELSE second]

Orders == MCSpec("d1", "p1", "orders", <<MCTopic("t1", "s1", "x")>>)
OneTopic == <<MCTopic("t2", "s2", NoMapping)>>
SameSubject == <<MCTopic("t2", "s1", NoMapping)>>
TwoTopics == <<MCTopic("t1", "s1", "x"), MCTopic("t2", "s2", NoMapping)>>
TwoOfOneSubject == <<MCTopic("t1", "s1", NoMapping), MCTopic("t2", "s1", "x")>>

MCDrafts ==
    {Project(Orders, MCSpec("d1", "p2", "trades", OneTopic)),
     Project(Orders, MCSpec("d1", "p1", "trades", OneTopic)),
     Project(Orders, MCSpec("d1", "p2", "trades", SameSubject)),
     Project(Orders, MCSpec("d1", "p1", "orders", OneTopic)),
     Project(Orders, MCSpec("d2", "p1", "orders", <<>>)),
     Project(MCSpec("d1", "p1", "orders", TwoTopics),
             MCSpec("d1", "p2", "trades", <<>>)),
     Project(MCSpec("d1", "p1", "orders", TwoOfOneSubject),
             MCSpec("d1", "p2", "trades", OneTopic))}
=============================================================================
