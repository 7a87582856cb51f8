----------------------------- MODULE StartupProofs -----------------------------
(***************************************************************************)
(* Theorems about Startup for any number of topics, any combination of     *)
(* problems, any overlay and any sharing of a checkpoint: which queries    *)
(* run when supervision begins, which a failed start leaves behind, which  *)
(* problems a refusal reports, and which option level a stream was opened  *)
(* with.                                                                   *)
(***************************************************************************)
EXTENDS Startup, Sequences, TLAPS

\* The main queries that run once the first n topics are started: of the topics
\* that share a location, the last.
Mains(n) ==
    {<<t, "main">> : t \in {u \in 1..n : u \notin sharing \/
                               \A v \in sharing : v \in 1..n => v <= u}}

Dlqs(n) == IF DlqEnabled THEN (1..n) \X {"dlq"} ELSE {}

Early == {"read", "overlay", "mappings", "placeholders", "model", "validate",
          "publishers", "builder", "resolve", "announce", "valid"}

\* Which queries run at which stage.
QueriesInv ==
    /\ sharing \subseteq Topics
    /\ cur \in Topics
    /\ pc \in Early \cup {"open", "finish", "supervise", "raised"}
    /\ pc \in {"builder", "resolve", "announce", "open", "finish", "supervise"} => listener
    /\ pc = "announce" => cur = 1
    /\ pc \in Early => running = {} /\ active = {}
    /\ pc = "open" => active = 1..(cur - 1)
                      /\ running = Mains(cur - 1) \cup Dlqs(cur - 1)
    /\ pc = "finish" => active = 1..(cur - 1)
                        /\ running = Mains(cur - 1) \cup Dlqs(cur)
    /\ pc = "supervise" => active = Topics
                           /\ running = Mains(NumTopics) \cup Dlqs(NumTopics)
    /\ pc = "raised" => OnlyLateProblemsOrphan

\* Two queries share a checkpoint only as main queries of topics whose sinks name
\* the same location.
LEMMA SharedCheckpoint ==
    ASSUME NEW t, NEW u, NEW r \in {"main", "dlq"}, NEW s \in {"main", "dlq"}
    PROVE  Checkpoint(t, r) = Checkpoint(u, s) <=>
               \/ t = u /\ r = s
               \/ r = "main" /\ s = "main" /\ t \in sharing /\ u \in sharing
<1>1. \A a, b : <<"sink">> # <<"root", a, b>>
  <2>1. \A a, b : Len(<<"root", a, b>>) = 3
    OBVIOUS
  <2>2. Len(<<"sink">>) = 1
    OBVIOUS
  <2> QED
    BY <2>1, <2>2
<1>2. \A a, b, c, d : <<"root", a, b>> = <<"root", c, d>> <=> a = c /\ b = d
  OBVIOUS
<1> QED
  BY <1>1, <1>2 DEF Checkpoint

\* Starting a DLQ query stops nothing.
LEMMA DlqStopsNothing ==
    ASSUME QueriesInv, pc = "open", StartQuery(cur, "dlq")
    PROVE  running' = running \cup {<<cur, "dlq">>}
<1>1. \A q \in running : q[2] \in {"main", "dlq"} /\ q # <<cur, "dlq">>
          /\ q = <<q[1], q[2]>>
  BY DEF QueriesInv, Mains, Dlqs, Topics
<1>2. \A q \in running : Checkpoint(q[1], q[2]) # Checkpoint(cur, "dlq")
  BY <1>1, SharedCheckpoint
<1> QED
  BY <1>2 DEF StartQuery

\* Starting a main query stops the one that runs on the shared location.
LEMMA MainStopsShared ==
    ASSUME QueriesInv, pc = "finish", StartQuery(cur, "main")
    PROVE  running' = Mains(cur) \cup Dlqs(cur)
<1> USE StartupAssumption DEF QueriesInv, Topics
<1>1. \A q \in Dlqs(cur) : Checkpoint(q[1], q[2]) # Checkpoint(cur, "main")
  <2> SUFFICES ASSUME NEW q \in Dlqs(cur)
               PROVE  Checkpoint(q[1], q[2]) # Checkpoint(cur, "main")
    OBVIOUS
  <2>1. q[2] = "dlq"
    BY DEF Dlqs
  <2>2. Checkpoint(q[1], "dlq") # Checkpoint(cur, "main")
    BY SharedCheckpoint
  <2> QED
    BY <2>1, <2>2
<1>2. \A t \in 1..(cur - 1) : t # cur
  OBVIOUS
<1>3. \A t \in 1..(cur - 1) :
        Checkpoint(t, "main") # Checkpoint(cur, "main")
            <=> t \notin sharing \/ cur \notin sharing
  BY <1>2, SharedCheckpoint
<1>4. {q \in Mains(cur - 1) : Checkpoint(q[1], q[2]) # Checkpoint(cur, "main")}
          \cup {<<cur, "main">>} = Mains(cur)
  <2>1. ASSUME NEW t \in 1..(cur - 1)
        PROVE  (<<t, "main">> \in Mains(cur - 1)
                   /\ Checkpoint(t, "main") # Checkpoint(cur, "main"))
               <=> <<t, "main">> \in Mains(cur)
    <3>1. <<t, "main">> \in Mains(cur - 1) <=>
             t \notin sharing \/ \A v \in sharing : v \in 1..(cur - 1) => v <= t
      BY DEF Mains
    <3>2. <<t, "main">> \in Mains(cur) <=>
             t \notin sharing \/ \A v \in sharing : v \in 1..cur => v <= t
      BY DEF Mains
    <3>3. \A v \in 1..cur : v \in 1..(cur - 1) \/ v = cur
      OBVIOUS
    <3>4. ~(cur <= t) /\ 1..(cur - 1) \subseteq 1..cur /\ cur \in 1..cur
      OBVIOUS
    <3> QED
      BY <1>3, <3>1, <3>2, <3>3, <3>4
  <2>2. <<cur, "main">> \in Mains(cur)
    BY DEF Mains
  <2>3. \A q \in Mains(cur - 1) : \E t \in 1..(cur - 1) : q = <<t, "main">>
    BY DEF Mains
  <2>4. \A q \in Mains(cur) : q = <<cur, "main">> \/ \E t \in 1..(cur - 1) : q = <<t, "main">>
    BY DEF Mains
  <2> QED
    BY <2>1, <2>2, <2>3, <2>4
<1> QED
  BY <1>1, <1>4 DEF StartQuery

LEMMA InitInv == Init => QueriesInv
BY StartupAssumption DEF Init, QueriesInv, Early, Topics

LEMMA StepInv == QueriesInv /\ [Next]_vars => QueriesInv'
<1> SUFFICES ASSUME QueriesInv, [Next]_vars PROVE QueriesInv'
  OBVIOUS
<1> USE StartupAssumption
    DEF QueriesInv, Early, GoesOn, Topics, LoopEnds, NextTopic, input, queries
<1>1. CASE ReadSpec
  BY <1>1 DEF ReadSpec
<1>2. CASE ApplyOverlay
  BY <1>2 DEF ApplyOverlay
<1>3. CASE ExpandMappingFile
  BY <1>3 DEF ExpandMappingFile
<1>4. CASE ResolvePlaceholders
  BY <1>4 DEF ResolvePlaceholders
<1>5. CASE RejectModel
  BY <1>5 DEF RejectModel, OnlyLateProblemsOrphan
<1>6. CASE AcceptModel
  BY <1>6 DEF AcceptModel
<1>7. CASE ReportProblems
  BY <1>7 DEF ReportProblems, OnlyLateProblemsOrphan
<1>8. CASE PassValidation
  BY <1>8 DEF PassValidation
<1>9. CASE AttachListener
  BY <1>9 DEF AttachListener
<1>10. CASE CreateBuilder
  BY <1>10 DEF CreateBuilder
<1>11. CASE ResolveSchema
  BY <1>11 DEF ResolveSchema
<1>12. CASE Announce
  <2>1. cur = 1 /\ active = {} /\ running = {} /\ listener
    BY <1>12 DEF Announce
  <2>2. Mains(0) = {} /\ Dlqs(0) = {}
    BY DEF Mains, Dlqs
  <2> QED
    BY <1>12, <2>1, <2>2 DEF Announce, Mains, Dlqs
<1>13. CASE OpenStream
  <2>1. running' = Mains(cur - 1) \cup Dlqs(cur)
    <3>1. CASE DlqEnabled
      <4>1. running' = running \cup {<<cur, "dlq">>}
        BY <1>13, <3>1, DlqStopsNothing DEF OpenStream
      <4>2. Dlqs(cur) = Dlqs(cur - 1) \cup {<<cur, "dlq">>}
        BY <3>1 DEF Dlqs
      <4> QED
        BY <1>13, <4>1, <4>2 DEF OpenStream
    <3>2. CASE ~DlqEnabled
      BY <1>13, <3>2 DEF OpenStream, Dlqs
    <3> QED
      BY <3>1, <3>2
  <2>2. (Mains(cur - 1) \cup Dlqs(cur))' = Mains(cur - 1) \cup Dlqs(cur)
    BY <1>13 DEF OpenStream, Mains, Dlqs
  <2> QED
    BY <1>13, <2>1, <2>2 DEF OpenStream
<1>14. CASE StartMain
  <2>1. running' = Mains(cur) \cup Dlqs(cur)
    BY <1>14, MainStopsShared DEF StartMain
  <2>2. active' = 1..cur
    BY <1>14 DEF StartMain
  <2>3. \A n : (Mains(n) \cup Dlqs(n))' = Mains(n) \cup Dlqs(n)
    BY <1>14 DEF StartMain, Mains, Dlqs
  <2>4. CASE cur = NumTopics
    BY <1>14, <2>1, <2>2, <2>3, <2>4 DEF StartMain
  <2>5. CASE cur # NumTopics
    <3>1. cur' = cur + 1 /\ cur' - 1 = cur /\ pc' = "open"
      BY <1>14, <2>5 DEF StartMain
    <3> QED
      BY <1>14, <2>1, <2>2, <2>3, <3>1 DEF StartMain
  <2> QED
    BY <2>4, <2>5
<1>15. CASE Raise
  <2>1. UNCHANGED <<sharing, cur, running, active>> /\ pc' = "raised"
    BY <1>15 DEF Raise
  <2>2. PICK f \in Hit : cause' = {f}
    BY <1>15 DEF Raise
  <2>3. CASE pc = "finish"
    <3>1. \A q \in running : q[1] \notin active => q = <<cur, "dlq">> /\ DlqEnabled
      BY <2>3 DEF Mains, Dlqs
    <3>2. f.kind \in FinishKinds
      BY <2>2, <2>3 DEF Hit
    <3>3. DlqEnabled => f.kind \in {"mapping_targets", "watermark_keys",
                                    "merge_target", "named_like_dlq"}
      BY <3>2 DEF FinishKinds, OpenKinds, NamedLikeDlqKinds
    <3> QED
      BY <2>1, <2>2, <3>1, <3>3 DEF OnlyLateProblemsOrphan
  <2>4. CASE pc # "finish"
    <3>1. pc \in {"read", "overlay", "mappings", "placeholders", "publishers",
                  "builder", "resolve", "open"}
      BY <2>2, <2>4 DEF Hit
    <3>2. \A q \in running : q[1] \in active
      BY <3>1 DEF Mains, Dlqs
    <3> QED
      BY <2>1, <3>2 DEF OnlyLateProblemsOrphan
  <2> QED
    BY <2>3, <2>4
<1>16. CASE UNCHANGED vars
  BY <1>16 DEF vars, Mains, Dlqs, OnlyLateProblemsOrphan
<1> QED
  BY <1>1, <1>2, <1>3, <1>4, <1>5, <1>6, <1>7, <1>8, <1>9, <1>10, <1>11,
     <1>12, <1>13, <1>14, <1>15, <1>16 DEF Next, Terminated

\* Which queries run is known at every stage.
THEOREM StagesKeepCount == Spec => []QueriesInv
BY InitInv, StepInv, PTL DEF Spec

-----------------------------------------------------------------------------
\* Whatever is wrong with a spec, the only query a failed start leaves outside
\* _active is the DLQ query of the topic whose mapping, watermark, merge target
\* or query name raised (builder.py:123-140).
THEOREM OrphansAreLate == Spec => []OnlyLateProblemsOrphan
<1>1. QueriesInv => OnlyLateProblemsOrphan
  <2> SUFFICES ASSUME QueriesInv, NEW q \in running, q[1] \notin active
               PROVE  OnlyLateProblemsOrphan
    BY DEF OnlyLateProblemsOrphan
  <2>1. pc \in {"open", "finish", "supervise", "raised"}
    BY DEF QueriesInv
  <2>2. CASE pc = "finish"
    BY <2>2 DEF QueriesInv, OnlyLateProblemsOrphan, Mains, Dlqs, Topics
  <2>3. pc # "open"
    BY DEF QueriesInv, Mains, Dlqs, Topics
  <2>4. pc # "supervise"
    BY StartupAssumption DEF QueriesInv, Mains, Dlqs, Topics
  <2> QED
    BY <2>1, <2>2, <2>3, <2>4 DEF QueriesInv
<1> QED
  BY <1>1, StagesKeepCount, PTL

\* When supervision begins every topic's queries run and are listened to, except
\* that of main queries whose sinks name one checkpoint_location only the last
\* one does (runner.py:56-60, sinks/base.py:26).
THEOREM AllTopicsSupervised == Spec => []SupervisedAllRun
<1>1. QueriesInv => SupervisedAllRun
  <2> SUFFICES ASSUME QueriesInv, pc = "supervise" PROVE SupervisedAllRun
    BY DEF SupervisedAllRun
  <2>1. \A v \in sharing : v \in 1..NumTopics
    BY DEF QueriesInv, Topics
  <2> QED
    BY <2>1 DEF QueriesInv, SupervisedAllRun, Mains, Dlqs, Topics
<1> QED
  BY <1>1, StagesKeepCount, PTL

-----------------------------------------------------------------------------
(* What has been looked at before the first query *)

\* No problem of these kinds counts in the environment.
Free(kinds) == \A f \in Effective : f.kind \notin kinds

\* What loading, the model, validation and the schemas' resolution look at
Checked ==
    /\ Free(ReadKinds) /\ Free(OverlayKinds) /\ Free(MappingFileKinds)
    /\ Free(PlaceholderKinds \cup SecretKinds) /\ Free(ModelKinds)
    /\ Free(ValidateKinds) /\ Free({"schema_document"})
    /\ announced /\ ~validateOnly

\* An overlay sets one key at most, and has problems of that key only.
OverlayOK ==
    /\ overlay.keys \subseteq Keys
    /\ \A a, b \in overlay.keys : a = b
    /\ \A f \in overlay.problems : f \in Problems /\ Key(f) \in overlay.keys

\* Each stage that was passed leaves no problem of its kinds in the spec, for
\* the loops over the topics none in the topics before the current one.
CheckedInv ==
    /\ OverlayOK
    /\ pc \in {"read", "overlay", "placeholders", "model", "validate",
              "publishers", "builder"} => cur = 1
    /\ pc \in {"read", "overlay"} => spec = base
    /\ pc \in {"read", "overlay", "raised"} \/ Effective \subseteq spec
    /\ pc \in {"read", "raised"} \/ Free(ReadKinds)
    /\ pc \in {"read", "overlay", "raised"} \/ Free(OverlayKinds)
    /\ pc = "mappings" => \A f \in Effective :
           f.topic \in 1..(cur - 1) => f.kind \notin MappingFileKinds
    /\ pc \in {"read", "overlay", "mappings", "raised"} \/ Free(MappingFileKinds)
    /\ pc \in {"read", "overlay", "mappings", "placeholders", "raised"}
           \/ Free(PlaceholderKinds \cup SecretKinds)
    /\ pc \in {"read", "overlay", "mappings", "placeholders", "model", "raised"}
           \/ Free(ModelKinds)
    /\ pc \in {"publishers", "builder", "resolve", "announce", "open", "finish",
               "supervise"}
           => Free(ValidateKinds) /\ ~validateOnly
    /\ pc = "resolve" => \A f \in Effective :
           f.topic \in 1..(cur - 1) => f.kind # "schema_document"
    /\ pc \in {"announce", "open", "finish", "supervise"} => Free({"schema_document"})
    /\ pc \in {"open", "finish", "supervise"} => announced
    /\ running # {} => Checked

\* A problem is the application's or a topic's.
LEMMA ProblemPlaces == \A f \in Effective : f.topic \in {App} \cup Topics
BY DEF Effective, Problems

\* No overlay changes the problems of the spec's and the overlay's own files.
LEMMA ElsewhereStays ==
    ASSUME OverlayOK
    PROVE  /\ \A f \in Problems : f.kind \in ReadKinds \cup OverlayKinds
                  => Key(f) = "elsewhere"
           /\ \A f \in Effective : f.kind \in ReadKinds \cup OverlayKinds
                  => f \in base /\ f.topic = App
           /\ "elsewhere" \notin overlay.keys
<1>1. "elsewhere" \notin overlay.keys
  BY DEF OverlayOK, Keys
<1>2. ASSUME NEW f \in Problems, f.kind \in ReadKinds \cup OverlayKinds
      PROVE  Key(f) = "elsewhere" /\ f.topic = App
  <2>1. f.kind \in {"spec_unreadable", "overlay_unreadable"}
    BY <1>2 DEF ReadKinds, OverlayKinds
  <2>2. f.kind \notin TopicKinds
    BY <2>1 DEF TopicKinds, MappingFileKinds, PlaceholderKinds, SecretKinds,
                ParserKinds, AvroKinds, RuleKinds, NamesTaken, NameKinds,
                DlqNameKinds, NamedLikeDlqKinds
  <2>3. f.topic = App
    BY <2>2 DEF Problems
  <2>4. f.kind \notin {"publisher_type"} \cup PublisherKinds
    BY <2>1 DEF PublisherKinds
  <2> QED
    BY <2>1, <2>3, <2>4 DEF Key, ReadKinds, OverlayKinds
<1>3. \A f \in Effective : f.kind \in ReadKinds \cup OverlayKinds
        => f \in base /\ f.topic = App
  BY <1>1, <1>2 DEF Effective, OverlayOK
<1> QED
  BY <1>1, <1>2, <1>3

\* The merged spec has every problem that counts.
LEMMA MergeKeepsProblems ==
    ASSUME OverlayOK, spec = base
    PROVE  Effective \subseteq DeepMerge
<1> SUFFICES ASSUME NEW f \in Effective, f \notin overlay.problems
             PROVE  Key(f) \notin overlay.keys /\ f \in spec
  BY DEF DeepMerge
<1>1. f \in base /\ (Key(f) = "elsewhere" \/ overlay.keys # {Key(f)})
  BY DEF Effective
<1>2. ASSUME Key(f) \in overlay.keys PROVE overlay.keys = {Key(f)}
  BY <1>2 DEF OverlayOK
<1> QED
  BY <1>1, <1>2, ElsewhereStays

LEMMA InitChecked == Init => CheckedInv
<1> SUFFICES ASSUME Init PROVE CheckedInv
  OBVIOUS
<1>1. OverlayOK
  <2>1. CASE overlay = NoOverlay
    BY <2>1 DEF NoOverlay, OverlayOK
  <2>2. CASE \E key \in Keys :
                overlay \in [keys : {{key}},
                             problems : {{}} \cup {{f} : f \in
                                 {g \in Problems : Key(g) = key}}]
    BY <2>2 DEF OverlayOK
  <2> QED
    BY <2>1, <2>2 DEF Init
<1> QED
  BY <1>1 DEF Init, CheckedInv

LEMMA CheckedStep ==
    ASSUME QueriesInv, CheckedInv, [Next]_vars
    PROVE  CheckedInv'
<1> USE StartupAssumption DEF CheckedInv, GoesOn, LoopEnds, NextTopic, input, queries
<1>1. ASSUME UNCHANGED input PROVE Effective' = Effective /\ (OverlayOK' <=> OverlayOK)
  BY <1>1 DEF Effective, OverlayOK
<1>2. ASSUME UNCHANGED input, NEW kinds PROVE Free(kinds)' <=> Free(kinds)
  BY <1>1, <1>2 DEF Free
<1>3. ASSUME UNCHANGED input, announced' = announced PROVE Checked' <=> Checked
  BY <1>2, <1>3 DEF Checked
<1>4. pc \in Early => running = {}
  BY DEF QueriesInv
<1> USE DEF Early
<1>5. CASE ReadSpec
  <2>1. Free(ReadKinds)
    BY <1>5, ElsewhereStays DEF ReadSpec, Hit, Free
  <2> QED
    BY <1>1, <1>2, <1>3, <1>5, <2>1 DEF ReadSpec
<1>6. CASE ApplyOverlay
  <2>1. Free(OverlayKinds)
    BY <1>6, ElsewhereStays DEF ApplyOverlay, Hit, Free
  <2>2. Effective \subseteq spec'
    BY <1>6, MergeKeepsProblems DEF ApplyOverlay
  <2> QED
    BY <1>1, <1>2, <1>3, <1>4, <1>6, <2>1, <2>2 DEF ApplyOverlay
<1>7. CASE ExpandMappingFile
  <2>1. \A f \in Effective : f.topic \in {App, cur} => f.kind \notin MappingFileKinds
    BY <1>7 DEF ExpandMappingFile, Hit
  <2>2. cur \in 1..NumTopics
    BY DEF QueriesInv, Topics
  <2>3. \A f \in Effective :
          f.topic \in 1..cur => f.kind \notin MappingFileKinds
    BY <1>7, <2>1, <2>2 DEF ExpandMappingFile
  <2>4. CASE cur = NumTopics
    <3>1. Free(MappingFileKinds)
      BY <2>1, <2>3, <2>4, ProblemPlaces DEF Free, Topics
    <3> QED
      BY <1>1, <1>2, <1>3, <1>4, <1>7, <2>4, <3>1 DEF ExpandMappingFile
  <2>5. CASE cur # NumTopics
    <3>1. cur' = cur + 1 /\ cur' - 1 = cur /\ pc' = "mappings"
      BY <1>7, <2>2, <2>5 DEF ExpandMappingFile
    <3> QED
      BY <1>1, <1>2, <1>3, <1>4, <1>7, <2>3, <3>1 DEF ExpandMappingFile
  <2> QED
    BY <2>4, <2>5
<1>8. CASE ResolvePlaceholders
  <2>1. Free(PlaceholderKinds \cup SecretKinds)
    BY <1>8 DEF ResolvePlaceholders, Hit, Free
  <2> QED
    BY <1>1, <1>2, <1>3, <1>4, <1>8, <2>1 DEF ResolvePlaceholders
<1>9. CASE RejectModel
  BY <1>1, <1>2, <1>3, <1>4, <1>9 DEF RejectModel
<1>10. CASE AcceptModel
  <2>1. Free(ModelKinds)
    BY <1>10 DEF AcceptModel, ModelErrors, ModelKinds, Free
  <2> QED
    BY <1>1, <1>2, <1>3, <1>4, <1>10, <2>1 DEF AcceptModel
<1>11. CASE ReportProblems
  BY <1>1, <1>2, <1>3, <1>4, <1>11 DEF ReportProblems
<1>12. CASE PassValidation
  <2>1. Free(ValidateKinds)
    BY <1>12 DEF PassValidation, Free
  <2> QED
    BY <1>1, <1>2, <1>3, <1>4, <1>12, <2>1 DEF PassValidation
<1>13. CASE AttachListener
  BY <1>1, <1>2, <1>3, <1>4, <1>13 DEF AttachListener
<1>14. CASE CreateBuilder
  BY <1>1, <1>2, <1>3, <1>4, <1>14 DEF CreateBuilder
<1>15. CASE ResolveSchema
  <2>1. \A f \in Effective : f.topic \in {App, cur} => f.kind # "schema_document"
    BY <1>15 DEF ResolveSchema, Hit
  <2>2. cur \in 1..NumTopics
    BY DEF QueriesInv, Topics
  <2>3. \A f \in Effective : f.topic \in 1..cur => f.kind # "schema_document"
    BY <1>15, <2>1, <2>2 DEF ResolveSchema
  <2>4. CASE cur = NumTopics
    <3>1. Free({"schema_document"})
      BY <2>1, <2>3, <2>4, ProblemPlaces DEF Free, Topics
    <3> QED
      BY <1>1, <1>2, <1>3, <1>4, <1>15, <2>4, <3>1 DEF ResolveSchema
  <2>5. CASE cur # NumTopics
    <3>1. cur' = cur + 1 /\ cur' - 1 = cur /\ pc' = "resolve"
      BY <1>15, <2>2, <2>5 DEF ResolveSchema
    <3> QED
      BY <1>1, <1>2, <1>3, <1>4, <1>15, <2>3, <3>1 DEF ResolveSchema
  <2> QED
    BY <2>4, <2>5
<1>16. CASE Announce
  BY <1>1, <1>2, <1>3, <1>4, <1>16 DEF Announce
<1>17. CASE OpenStream
  BY <1>1, <1>2, <1>3, <1>17 DEF OpenStream, Checked
<1>18. CASE StartMain
  BY <1>1, <1>2, <1>3, <1>18 DEF StartMain, Checked
<1>19. CASE Raise
  BY <1>1, <1>2, <1>3, <1>19 DEF Raise
<1>20. CASE UNCHANGED vars
  BY <1>1, <1>2, <1>3, <1>20 DEF vars
<1> QED
  BY <1>5, <1>6, <1>7, <1>8, <1>9, <1>10, <1>11, <1>12, <1>13, <1>14, <1>15,
     <1>16, <1>17, <1>18, <1>19, <1>20 DEF Next, Terminated

\* A problem that loading, the model, validation or a schema's resolution looks
\* for is found before any query of any topic is started, whatever the overlay
\* replaces; no query runs unannounced, none with --validate-only
\* (entrypoint.py:64-83, runner.py:43-60).
THEOREM ForeseenInTime == Spec => []ForeseenNeverStarts
<1>1. CheckedInv => ForeseenNeverStarts
  BY DEF CheckedInv, Checked, Free, ForeseenNeverStarts, LoadKinds, Foreseen,
         ReadKinds, OverlayKinds, MappingFileKinds, PlaceholderKinds,
         SecretKinds, ModelKinds, ValidateKinds
<1>2. QueriesInv /\ CheckedInv /\ [Next]_vars => CheckedInv'
  BY CheckedStep
<1> QED
  BY <1>1, <1>2, InitChecked, StagesKeepCount, PTL DEF Spec
-----------------------------------------------------------------------------
(* What a refusal names *)

\* What the refusal of a spec reports: the model's errors, or else validation's.
Refusal ==
    LET fields == {f \in Effective : f.kind = "fields"}
        cluster == {f \in Effective : f.kind = "source_cluster"}
    IN  CASE fields \cap [topic : Topics, kind : {"fields"}] # {} -> fields
          [] fields \subseteq [topic : {App}, kind : {"fields"}]
                 /\ fields \cup cluster # {} -> fields \cup cluster
          [] OTHER -> {f \in Effective : f.kind \in Foreseen}

\* Once merged, the spec has of the problems the model and validation look at
\* exactly those that count; only an auth provider's are not the spec's own.
RefusalInv ==
    /\ \A f \in base : f \in Problems \/ f.kind \in AuthKinds
    /\ pc \in {"read", "overlay", "raised"} \/
           \A f \in spec : f.kind \in ModelKinds \cup ValidateKinds => f \in Effective
    /\ pc = "raised" /\ cause = {} => reported = Refusal

LEMMA InitRefusal == Init => RefusalInv
<1> SUFFICES ASSUME Init PROVE RefusalInv
  OBVIOUS
<1>1. \A src : \A f \in CredentialProblems(src) : f.kind \in AuthKinds
  BY DEF CredentialProblems, AuthProblems, AuthKinds
<1>2. \A f \in base : f \in Problems \/ f.kind \in AuthKinds
  BY <1>1 DEF Init
<1> QED
  BY <1>2 DEF Init, RefusalInv

\* Nothing of the merged spec that the model or validation look at was replaced.
LEMMA MergeAddsNothing ==
    ASSUME OverlayOK, RefusalInv, spec = base,
           NEW f \in DeepMerge, f.kind \in ModelKinds \cup ValidateKinds
    PROVE  f \in Effective
<1>1. f.kind \notin AuthKinds
  BY DEF ModelKinds, ValidateKinds, AuthKinds
<1>2. CASE f \in overlay.problems
  BY <1>2 DEF OverlayOK, Effective
<1>3. CASE f \in base /\ Key(f) \notin overlay.keys
  BY <1>1, <1>3 DEF RefusalInv, Effective
<1> QED
  BY <1>2, <1>3 DEF DeepMerge

\* The errors of the model are what a refusal at the model reports.
LEMMA ModelRefusal ==
    ASSUME CheckedInv, RefusalInv, pc = "model", ModelErrors # {}
    PROVE  ModelErrors = Refusal
<1> DEFINE fields == {f \in Effective : f.kind = "fields"}
           cluster == {f \in Effective : f.kind = "source_cluster"}
<1>1. \A f : f \in spec /\ f.kind \in ModelKinds <=> f \in Effective /\ f.kind \in ModelKinds
  BY DEF CheckedInv, RefusalInv
<1>2. fields = {f \in spec : f.kind = "fields"}
      /\ cluster = {f \in spec : f.kind = "source_cluster"}
  BY <1>1 DEF ModelKinds
<1>3. ModelErrors = fields \cup {f \in cluster : \A g \in fields : g.topic = App}
  BY <1>2 DEF ModelErrors
<1>4. \A f \in fields : f \in [topic : {App}, kind : {"fields"}]
                            \/ f \in [topic : Topics, kind : {"fields"}]
  BY DEF Effective, Problems
<1>5. App \notin Topics
  BY DEF App, Topics
<1>6. CASE fields \cap [topic : Topics, kind : {"fields"}] # {}
  <2>1. \E g \in fields : g.topic # App
    BY <1>5, <1>6
  <2>2. ModelErrors = fields
    BY <1>3, <2>1
  <2>3. ~(fields \subseteq [topic : {App}, kind : {"fields"}])
    BY <2>1
  <2> QED
    BY <1>6, <2>2, <2>3 DEF Refusal
<1>7. CASE fields \cap [topic : Topics, kind : {"fields"}] = {}
  <2>1. fields \subseteq [topic : {App}, kind : {"fields"}]
    BY <1>4, <1>7
  <2>2. ModelErrors = fields \cup cluster
    BY <1>3, <2>1
  <2> QED
    BY <1>7, <2>1, <2>2 DEF Refusal
<1> QED
  BY <1>6, <1>7

\* A refusal by validation, which runs on a spec without errors of the model.
LEMMA ValidationRefusal ==
    ASSUME CheckedInv, RefusalInv, pc = "validate"
    PROVE  {f \in spec : f.kind \in ValidateKinds} = Refusal
<1>1. {f \in Effective : f.kind = "fields"} = {}
      /\ {f \in Effective : f.kind = "source_cluster"} = {}
  BY DEF CheckedInv, Free, ModelKinds
<1>2. {f \in spec : f.kind \in ValidateKinds} = {f \in Effective : f.kind \in ValidateKinds}
  BY DEF CheckedInv, RefusalInv
<1>3. ValidateKinds = Foreseen
  BY DEF ValidateKinds, Foreseen
<1> QED
  BY <1>1, <1>2, <1>3 DEF Refusal

LEMMA RefusalStep ==
    ASSUME CheckedInv, RefusalInv, [Next]_vars
    PROVE  RefusalInv'
<1> USE DEF RefusalInv, GoesOn, input, queries
<1>1. ASSUME UNCHANGED input PROVE Effective' = Effective /\ Refusal' = Refusal
  BY <1>1 DEF Effective, Refusal
<1>2. CASE ReadSpec
  BY <1>1, <1>2 DEF ReadSpec
<1>3. CASE ApplyOverlay
  <2>1. \A f \in spec' : f.kind \in ModelKinds \cup ValidateKinds => f \in Effective
    BY <1>3, MergeAddsNothing DEF ApplyOverlay, CheckedInv
  <2> QED
    BY <1>1, <1>3, <2>1 DEF ApplyOverlay
<1>4. CASE RejectModel
  BY <1>1, <1>4, ModelRefusal DEF RejectModel
<1>5. CASE ReportProblems
  BY <1>1, <1>5, ValidationRefusal DEF ReportProblems
<1>6. CASE Raise
  BY <1>1, <1>6 DEF Raise
<1>7. CASE UNCHANGED vars
  BY <1>1, <1>7 DEF vars
<1>8. CASE ExpandMappingFile
  BY <1>1, <1>8 DEF ExpandMappingFile
<1>9. CASE ResolvePlaceholders \/ AcceptModel \/ PassValidation
  BY <1>1, <1>9 DEF ResolvePlaceholders, AcceptModel, PassValidation
<1>10. CASE AttachListener \/ CreateBuilder \/ ResolveSchema \/ Announce
  BY <1>1, <1>10 DEF AttachListener, CreateBuilder, ResolveSchema, Announce
<1>11. CASE OpenStream
  BY <1>1, <1>11 DEF OpenStream
<1>12. CASE StartMain
  BY <1>1, <1>12 DEF StartMain
<1> QED
  BY <1>2, <1>3, <1>4, <1>5, <1>6, <1>7, <1>8, <1>9, <1>10, <1>11, <1>12
     DEF Next, Terminated

\* A refusal by the model or by validation names everything that the one or the
\* other knows of the spec as it is after the overlay, nothing that the overlay
\* has replaced; only a source without a cluster
\* waits for the errors of the topics (loader.py:97-104, validation.py:86-91).
THEOREM RefusalsAreComplete == Spec => []ReportedTogether
<1>1. RefusalInv => ReportedTogether
  BY DEF RefusalInv, ReportedTogether, Refusal
<1>2. QueriesInv /\ CheckedInv /\ RefusalInv /\ [Next]_vars
          => CheckedInv' /\ RefusalInv'
  BY CheckedStep, RefusalStep
<1> QED
  BY <1>1, <1>2, InitChecked, InitRefusal, StagesKeepCount, PTL DEF Spec
-----------------------------------------------------------------------------
(* The options of the readers *)

\* Each option of a Kafka reader has the value of the last level that sets it.
LEMMA KafkaLevels ==
    ASSUME NEW src, NEW t, src.type \in KafkaType
    PROVE  LET options == ReaderOptions(src, t)
               default == ProviderDefaults(src.type)
               auth == AuthOptionNames(src.auth)
               topic == src.topic[t]
           IN  /\ DOMAIN options = default \cup auth \cup src.cluster
                                       \cup src.options \cup topic \cup Fixed
               /\ \A x \in Fixed : options[x] = "fixed"
               /\ \A x \in topic \ Fixed : options[x] = "topic"
               /\ \A x \in src.options \ (topic \cup Fixed) : options[x] = "source"
               /\ \A x \in src.cluster \ (src.options \cup topic \cup Fixed) :
                      options[x] = "cluster"
               /\ \A x \in auth \ (src.cluster \cup src.options \cup topic \cup Fixed) :
                      options[x] = "auth"
               /\ \A x \in default \ (auth \cup src.cluster \cup src.options
                                          \cup topic \cup Fixed) :
                      options[x] = "default"
<1> DEFINE default == ProviderDefaults(src.type)
           auth == AuthOptionNames(src.auth)
           o1 == SetBy("default", default)
           o2 == Update(o1, SetBy("auth", auth))
           o3 == Update(o2, SetBy("cluster", src.cluster))
           o4 == Update(o3, SetBy("source", src.options))
           o5 == Update(o4, SetBy("topic", src.topic[t]))
           o6 == Update(o5, SetBy("fixed", Fixed))
<1>1. DOMAIN o1 = default /\ \A x \in default : o1[x] = "default"
  BY DEF SetBy
<1> HIDE DEF o1
<1>2. /\ DOMAIN o2 = DOMAIN o1 \cup auth
      /\ \A x \in auth : o2[x] = "auth"
      /\ \A x \in DOMAIN o1 \ auth : o2[x] = o1[x]
  BY DEF Update, SetBy
<1> HIDE DEF o2
<1>3. /\ DOMAIN o3 = DOMAIN o2 \cup src.cluster
      /\ \A x \in src.cluster : o3[x] = "cluster"
      /\ \A x \in DOMAIN o2 \ src.cluster : o3[x] = o2[x]
  BY DEF Update, SetBy
<1> HIDE DEF o3
<1>4. /\ DOMAIN o4 = DOMAIN o3 \cup src.options
      /\ \A x \in src.options : o4[x] = "source"
      /\ \A x \in DOMAIN o3 \ src.options : o4[x] = o3[x]
  BY DEF Update, SetBy
<1> HIDE DEF o4
<1>5. /\ DOMAIN o5 = DOMAIN o4 \cup src.topic[t]
      /\ \A x \in src.topic[t] : o5[x] = "topic"
      /\ \A x \in DOMAIN o4 \ src.topic[t] : o5[x] = o4[x]
  BY DEF Update, SetBy
<1> HIDE DEF o5
<1>6. /\ DOMAIN o6 = DOMAIN o5 \cup Fixed
      /\ \A x \in Fixed : o6[x] = "fixed"
      /\ \A x \in DOMAIN o5 \ Fixed : o6[x] = o5[x]
  BY DEF Update, SetBy
<1>7. ReaderOptions(src, t) = o6
  BY DEF ReaderOptions, SpecsLast, o1, o2, o3, o4, o5
<1> HIDE DEF o6, default, auth
<1>8. DOMAIN o6 = default \cup auth \cup src.cluster \cup src.options
                      \cup src.topic[t] \cup Fixed
  BY <1>1, <1>2, <1>3, <1>4, <1>5, <1>6
<1>9. /\ \A x \in src.topic[t] \ Fixed : o6[x] = "topic"
      /\ \A x \in src.options \ (src.topic[t] \cup Fixed) : o6[x] = "source"
  BY <1>4, <1>5, <1>6
<1>10. \A x \in src.cluster \ (src.options \cup src.topic[t] \cup Fixed) :
          o6[x] = "cluster"
  BY <1>3, <1>4, <1>5, <1>6
<1>11. \A x \in auth \ (src.cluster \cup src.options \cup src.topic[t] \cup Fixed) :
          o6[x] = "auth"
  BY <1>2, <1>3, <1>4, <1>5, <1>6
<1>12. \A x \in default \ (auth \cup src.cluster \cup src.options
                               \cup src.topic[t] \cup Fixed) : o6[x] = "default"
  BY <1>1, <1>2, <1>3, <1>4, <1>5, <1>6
<1> QED
  BY <1>6, <1>7, <1>8, <1>9, <1>10, <1>11, <1>12 DEF default, auth

\* The auto loader has no cluster, no authentication and nothing fixed.
LEMMA LoaderLevels ==
    ASSUME NEW src, NEW t, src.type \notin KafkaType
    PROVE  LET options == ReaderOptions(src, t)
               default == ProviderDefaults(src.type)
               topic == src.topic[t]
           IN  /\ DOMAIN options = default \cup src.options \cup topic
               /\ \A x \in topic : options[x] = "topic"
               /\ \A x \in src.options \ topic : options[x] = "source"
               /\ \A x \in default \ (src.options \cup topic) : options[x] = "default"
<1> DEFINE default == ProviderDefaults(src.type)
           o1 == SetBy("default", default)
           o2 == Update(o1, SetBy("source", src.options))
           o3 == Update(o2, SetBy("topic", src.topic[t]))
<1>1. DOMAIN o1 = default /\ \A x \in default : o1[x] = "default"
  BY DEF SetBy
<1> HIDE DEF o1
<1>2. /\ DOMAIN o2 = DOMAIN o1 \cup src.options
      /\ \A x \in src.options : o2[x] = "source"
      /\ \A x \in DOMAIN o1 \ src.options : o2[x] = o1[x]
  BY DEF Update, SetBy
<1> HIDE DEF o2
<1>3. /\ DOMAIN o3 = DOMAIN o2 \cup src.topic[t]
      /\ \A x \in src.topic[t] : o3[x] = "topic"
      /\ \A x \in DOMAIN o2 \ src.topic[t] : o3[x] = o2[x]
  BY DEF Update, SetBy
<1>4. ReaderOptions(src, t) = o3
  BY DEF ReaderOptions, SpecsLast, o1, o2
<1> HIDE DEF o3, default
<1> QED
  BY <1>1, <1>2, <1>3, <1>4 DEF default

\* A topic's reader was given the options of its own levels.
ReaderInv == \A t \in DOMAIN reader : reader[t] = ReaderOptions(source, t)

LEMMA InitReader == Init => ReaderInv
<1>1. DOMAIN <<>> = {}
  OBVIOUS
<1> QED
  BY <1>1 DEF Init, ReaderInv

LEMMA ReaderStep == ReaderInv /\ [Next]_vars => ReaderInv'
<1> SUFFICES ASSUME ReaderInv, [Next]_vars PROVE ReaderInv'
  OBVIOUS
<1> USE DEF GoesOn, input, queries
<1>1. ASSUME UNCHANGED <<reader, source>> PROVE ReaderInv'
  BY <1>1 DEF ReaderInv
<1>2. CASE OpenStream
  <2>1. reader' = Update(reader, [t \in {cur} |-> ReaderOptions(source, t)])
        /\ source' = source
    BY <1>2 DEF OpenStream
  <2> QED
    BY <2>1 DEF ReaderInv, Update
<1>3. CASE ReadSpec \/ ApplyOverlay \/ ExpandMappingFile \/ ResolvePlaceholders
           \/ AcceptModel \/ PassValidation
  BY <1>1, <1>3 DEF ReadSpec, ApplyOverlay, ExpandMappingFile,
                    ResolvePlaceholders, AcceptModel, PassValidation
<1>4. CASE AttachListener \/ CreateBuilder \/ ResolveSchema \/ Announce
  BY <1>1, <1>4 DEF AttachListener, CreateBuilder, ResolveSchema, Announce
<1>5. CASE RejectModel \/ ReportProblems \/ Raise
  BY <1>1, <1>5 DEF RejectModel, ReportProblems, Raise
<1>6. CASE StartMain
  BY <1>1, <1>6 DEF StartMain
<1>7. CASE UNCHANGED vars
  BY <1>1, <1>7 DEF vars
<1> QED
  BY <1>2, <1>3, <1>4, <1>5, <1>6, <1>7 DEF Next, Terminated

\* Whatever options the levels set, of whatever authentication and source, and
\* however many topics share the source's: every reader has exactly the options
\* somebody sets for its topic, each with the value of the last level in the
\* documented order (kafka.py:3-8, 47-54).
THEOREM LastLevelWins == Spec => []PrecedenceAsDocumented
<1>1. ReaderInv => PrecedenceAsDocumented
  <2> SUFFICES ASSUME ReaderInv, NEW t \in DOMAIN reader
               PROVE  LET setBy == [default |-> ProviderDefaults(source.type),
                                    auth |-> AuthOptionNames(source.auth),
                                    cluster |-> source.cluster,
                                    source |-> source.options,
                                    topic |-> source.topic[t],
                                    fixed |-> Fixed]
                          order == IF source.type \in KafkaType
                                   THEN <<"default", "auth", "cluster", "source",
                                          "topic", "fixed">>
                                   ELSE <<"default", "source", "topic">>
                          Sets(i, option) == option \in setBy[order[i]]
                      IN  /\ DOMAIN reader[t] =
                                 UNION {setBy[order[i]] : i \in DOMAIN order}
                          /\ \A i \in DOMAIN order : \A option \in setBy[order[i]] :
                                reader[t][option] = order[i]
                                    <=> \A j \in DOMAIN order :
                                            j > i => ~Sets(j, option)
    BY DEF PrecedenceAsDocumented
  <2>1. reader[t] = ReaderOptions(source, t)
    BY DEF ReaderInv
  <2>2. CASE source.type \in KafkaType
    <3> DEFINE order == <<"default", "auth", "cluster", "source", "topic", "fixed">>
    <3>1. DOMAIN order = {1, 2, 3, 4, 5, 6}
      OBVIOUS
    <3> QED
      BY <2>1, <2>2, <3>1, KafkaLevels
  <2>3. CASE source.type \notin KafkaType
    <3> DEFINE order == <<"default", "source", "topic">>
    <3>1. DOMAIN order = {1, 2, 3}
      OBVIOUS
    <3> QED
      BY <2>1, <2>3, <3>1, LoaderLevels
  <2> QED
    BY <2>2, <2>3
<1> QED
  BY <1>1, InitReader, ReaderStep, PTL DEF Spec
=============================================================================
