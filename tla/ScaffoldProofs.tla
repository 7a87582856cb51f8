---------------------------- MODULE ScaffoldProofs ----------------------------
(***************************************************************************)
(* What the generator leaves on disk, for any number of jobs, topics, runs *)
(* and mishaps: no file refers to a missing one (no path is ever deleted,  *)
(* so it is enough that each file is written after the ones it refers to,  *)
(* Emitted); the files of a job that was ready stay current until they are *)
(* forced; and a job that is alone on its paths is current whenever it was *)
(* ready, since a run that gets past a file leaves it as it is rendered    *)
(* (WrittenSoFar) and no other job's run touches it.                       *)
(***************************************************************************)
EXTENDS Scaffold, TLAPS

\* Paths and contents have their types.
LEMMA FileTypes ==
    ASSUME NEW s \in FunctionalSpec
    PROVE  /\ ConfigFile(s) \in File
           /\ EntryFile(s) \in File
           /\ ResourceFile(s) \in File
           /\ TestFile(s) \in File
  BY DEF FunctionalSpec, File, ConfigFile, EntryFile, ResourceFile, TestFile

\* The paths of a topic's files are files.
LEMMA TopicFileTypes ==
    ASSUME NEW t \in Topic
    PROVE  SchemaFile(t) \in File /\ MappingFile(t) \in File
  BY DEF Topic, File, SchemaFile, MappingFile

\* The topics of a spec, as a set and by position.
LEMMA TopicTypes ==
    ASSUME NEW s \in FunctionalSpec
    PROVE  /\ TopicsOf(s) \subseteq Topic
           /\ DOMAIN s.topics = 1..Len(s.topics) /\ Len(s.topics) \in Nat
           /\ \A i \in DOMAIN s.topics : s.topics[i] \in TopicsOf(s)
  BY DEF FunctionalSpec, TopicsOf

\* What the templates render is the content of a file.
LEMMA TextTypes ==
    ASSUME NEW j \in Jobs, NEW s \in FunctionalSpec
    PROVE  /\ \A t \in Topic : SchemaText(t) \in Content
           /\ \A t \in Topic : MappingText(j, s, t) \in Content
           /\ ConfigText(j, s) \in Content
           /\ EntryText(j) \in Content
           /\ ResourceText(j, s) \in Content
           /\ TestText(j, s) \in Content
<1>1. \A t \in Topic : SchemaText(t) \in Content
  BY DEF Topic, SchemaText, Content, Word
<1>2. \A t \in Topic : MappingText(j, s, t) \in Content
  <2>1. s.body \in Word
    BY DEF FunctionalSpec, Word
  <2>2. ASSUME NEW t \in Topic
        PROVE  j \in Word /\ t.name \in Word /\ t.mapping \in Word
    BY DEF Topic, Word
  <2>3. ASSUME NEW t \in Topic
        PROVE  <<j, s.body, t.name, t.mapping>> \in Seq(Word)
    BY <2>1, <2>2
  <2> QED
    BY <2>3 DEF MappingText, Content
<1>3. ConfigText(j, s) \in Content
  <2>1. ConfigText(j, s).needs \subseteq File
    BY TopicTypes, TopicFileTypes DEF ConfigText
  <2>2. <<j, s.body>> \in Seq(Word)
    BY DEF FunctionalSpec, Word
  <2>3. QED
    BY <2>1, <2>2 DEF ConfigText, Content
<1>4. EntryText(j) \in Content
  BY DEF EntryText, Content, Word
<1>5. ResourceText(j, s) \in Content
  BY FileTypes DEF ResourceText, Content, Word
<1>6. TestText(j, s) \in Content
  BY FileTypes DEF TestText, Content, Word
<1>7. QED
  BY <1>1, <1>2, <1>3, <1>4, <1>5, <1>6

\* A file that was written exists.
LEMMA TextsExist ==
    ASSUME NEW j, NEW s, NEW t
    PROVE  /\ SchemaText(t) # Absent
           /\ MappingText(j, s, t) # Absent
           /\ ConfigText(j, s) # Absent
           /\ EntryText(j) # Absent
           /\ ResourceText(j, s) # Absent
           /\ TestText(j, s) # Absent
           /\ Torn # Absent
  BY DEF SchemaText, MappingText, ConfigText, EntryText, ResourceText, TestText,
         Torn, Absent

PC == {"idle", "v1.ddl", "v1.mapping.yaml", "config", "entry", "job.yml",
       "test", "validate"}

\* What one _emit does, whatever its outcome: no file disappears, nothing comes
\* to dangle when what the new content refers to is there, and the run goes on
\* only with its file on disk.
LEMMA EmitStep ==
    ASSUME TypeOK, NoDanglingReference,
           NEW f \in File, NEW c \in Content, NEW next \in PC, NEW i \in Nat \ {0},
           c # Absent, \A g \in c.needs : Exists(g),
           Emit(f, c, next, i), UNCHANGED <<specs, job, runs>>
    PROVE  /\ TypeOK'
           /\ NoDanglingReference'
           /\ \A g \in File : Exists(g) => Exists(g)'
           /\ pc' = "idle" \/ (pc' = next /\ topic' = i /\ Exists(f)')
<1>1. Torn \in Content /\ Torn # Absent /\ Torn.needs = {}
  BY DEF Torn, Content, Word, Absent
<1>2. PICK d \in {disk[f], c, Torn} : disk' = [disk EXCEPT ![f] = d]
  BY DEF Emit, Write, TypeOK
<1>3. d \in Content /\ (d = disk[f] \/ d # Absent)
  BY <1>1 DEF TypeOK
<1>4. \A g \in File : disk'[g] = IF g = f THEN d ELSE disk[g]
  BY <1>2 DEF TypeOK
<1>5. \A g \in File : Exists(g) => Exists(g)'
  BY <1>3, <1>4 DEF Exists
<1>6. \A g \in d.needs : Exists(g)
  BY <1>1 DEF NoDanglingReference
<1>7. NoDanglingReference'
  <2> SUFFICES ASSUME NEW g \in File, NEW h \in disk'[g].needs
               PROVE  Exists(h)'
    BY DEF NoDanglingReference
  <2>1. Exists(h)
    BY <1>4, <1>6 DEF NoDanglingReference
  <2>2. h \in File
    BY <1>3, <1>4 DEF TypeOK, Content
  <2>3. QED
    BY <2>1, <2>2, <1>5
<1>8. pc' = "idle" \/ (pc' = next /\ topic' = i /\ Exists(f)')
  BY <1>3, <1>4 DEF Emit, EndRun, Write, Exists, TypeOK
<1>9. disk' \in [File -> Content]
  BY <1>2, <1>3 DEF TypeOK
<1>10. /\ pc' \in PC /\ topic' \in Nat \ {0} /\ force' \in BOOLEAN
       /\ settled' \in [Jobs -> BOOLEAN] /\ mishaps' \in Nat
  <2>1. settled' \in {settled, [settled EXCEPT ![job] = FALSE]}
    BY DEF Emit
  <2>2. [settled EXCEPT ![job] = FALSE] \in [Jobs -> BOOLEAN]
    BY DEF TypeOK
  <2>3. mishaps' \in {mishaps, mishaps + 1} /\ force' \in {force, FALSE}
    BY DEF Emit, EndRun
  <2>4. pc' \in {"idle", next} /\ topic' \in {1, i}
    BY DEF Emit, EndRun
  <2>5. settled' \in [Jobs -> BOOLEAN]
    BY <2>1, <2>2 DEF TypeOK
  <2>6. mishaps' \in Nat /\ force' \in BOOLEAN
    <3>1. mishaps \in Nat /\ force \in BOOLEAN
      BY DEF TypeOK
    <3>2. mishaps + 1 \in Nat
      BY <3>1
    <3>3. force' \in BOOLEAN
      BY <2>3, <3>1, Zenon
    <3>4. QED
      BY <2>3, <3>1, <3>2, <3>3
  <2>7. pc' \in PC
    BY <2>4 DEF PC
  <2>8. QED
    BY <2>4, <2>5, <2>6, <2>7
<1>11. TypeOK'
  BY <1>9, <1>10 DEF TypeOK, PC
<1>12. QED
  BY <1>5, <1>7, <1>8, <1>11

\* TopicDone(t) after the step.
DoneNext(t) ==
    /\ disk'[SchemaFile(t)] # Absent
    /\ t.mapping # NoMapping => disk'[MappingFile(t)] # Absent

\* What is done stays done.
LEMMA DonePersists ==
    ASSUME NEW t \in Topic, TopicDone(t),
           \A g \in File : disk[g] # Absent => disk'[g] # Absent
    PROVE  DoneNext(t)
  BY TopicFileTypes DEF TopicDone, DoneNext, Exists

\* Where the loop goes after topic i, all topics up to it being done.
LEMMA LoopStep ==
    ASSUME TypeOK, NEW i \in 0..Len(S.topics),
           specs' = specs, job' = job,
           pc' = AfterTopic(S, i), topic' = i + 1,
           \A k \in DOMAIN S.topics : k <= i => DoneNext(S.topics[k])
    PROVE  Emitted'
<1>1. S' = S /\ S \in FunctionalSpec
  BY DEF S, TypeOK
<1>2. DOMAIN S.topics = 1..Len(S.topics) /\ Len(S.topics) \in Nat
  BY <1>1, TopicTypes
<1>3. CASE i < Len(S.topics)
  <2>1. topic' \in DOMAIN S.topics /\ pc' = "v1.ddl"
    BY <1>2, <1>3 DEF AfterTopic
  <2>2. \A k \in DOMAIN S.topics : k < topic' => DoneNext(S.topics[k])
    BY <1>2
  <2>3. QED
    BY <1>1, <2>1, <2>2 DEF Emitted, TopicDone, DoneNext, Exists
<1>4. CASE i = Len(S.topics)
  <2>1. pc' = "config"
    BY <1>2, <1>4 DEF AfterTopic
  <2>2. \A t \in TopicsOf(S) : DoneNext(t)
    BY <1>2, <1>4 DEF TopicsOf
  <2>3. QED
    BY <1>1, <2>1, <2>2 DEF Emitted, TopicDone, DoneNext, Exists
<1>5. QED
  BY <1>2, <1>3, <1>4

\* A developer's edit yields a spec again.
LEMMA RevisionTypes ==
    ASSUME NEW s \in FunctionalSpec
    PROVE  Revisions(s) \subseteq FunctionalSpec
<1>1. ASSUME NEW b \in Bodies \cup Unfit
      PROVE  [s EXCEPT !.body = b] \in FunctionalSpec
  BY DEF FunctionalSpec
<1>2. ASSUME NEW i \in DOMAIN s.topics, NEW x \in Texts
      PROVE  [s EXCEPT !.topics[i].fields = x] \in FunctionalSpec
  <2>1. [s.topics[i] EXCEPT !.fields = x] \in Topic
    <3>1. s.topics[i] \in Topic
      BY DEF FunctionalSpec
    <3>2. QED
      BY <3>1 DEF Topic
  <2>2. [s.topics EXCEPT ![i] = [s.topics[i] EXCEPT !.fields = x]] \in Seq(Topic)
    BY <2>1 DEF FunctionalSpec
  <2>3. QED
    BY <2>2 DEF FunctionalSpec
<1>3. ASSUME NEW i \in DOMAIN s.topics, NEW x \in Texts \cup {NoMapping}
      PROVE  [s EXCEPT !.topics[i].mapping = x] \in FunctionalSpec
  <2>1. [s.topics[i] EXCEPT !.mapping = x] \in Topic
    <3>1. s.topics[i] \in Topic
      BY DEF FunctionalSpec
    <3>2. QED
      BY <3>1 DEF Topic
  <2>2. [s.topics EXCEPT ![i] = [s.topics[i] EXCEPT !.mapping = x]] \in Seq(Topic)
    BY <2>1 DEF FunctionalSpec
  <2>3. QED
    BY <2>2 DEF FunctionalSpec
<1>4. QED
  BY <1>1, <1>2, <1>3 DEF Revisions

\* The end of a run of the generator keeps all types.
LEMMA EndRunTypes ==
    ASSUME TypeOK, EndRun, UNCHANGED <<specs, disk, job, runs, mishaps>>,
           settled' \in [Jobs -> BOOLEAN]
    PROVE  TypeOK'
<1>1. force' \in BOOLEAN
  BY DEF EndRun
<1>2. pc' = "idle" /\ topic' \in Nat \ {0}
  BY DEF EndRun
<1>3. /\ specs' \in [Jobs -> FunctionalSpec] /\ disk' \in [File -> Content]
      /\ job' \in Jobs /\ runs' \in Nat /\ mishaps' \in Nat
  BY DEF TypeOK
<1>4. QED
  BY <1>1, <1>2, <1>3 DEF TypeOK

\* Every step of add_job and of the developers preserves the invariant.
LEMMA Step == IInv /\ [Next]_vars => IInv'
<1> SUFFICES ASSUME IInv, [Next]_vars
             PROVE  IInv'
  OBVIOUS
<1> USE DEF IInv
<1>1. S \in FunctionalSpec /\ job \in Jobs
  BY DEF S, TypeOK
<1>2. /\ DOMAIN S.topics = 1..Len(S.topics) /\ Len(S.topics) \in Nat
      /\ TopicsOf(S) \subseteq Topic
      /\ \A i \in DOMAIN S.topics : S.topics[i] \in TopicsOf(S)
  BY <1>1, TopicTypes
<1>3. ASSUME UNCHANGED <<specs, disk, job>>, TypeOK', pc' = "idle"
      PROVE  IInv'
  BY <1>3 DEF Emitted, NoDanglingReference, Exists
<1>4. ASSUME NEW j \in Jobs, Begin(j)
      PROVE  IInv'
  <2>1. TypeOK'
    <3>1. pc' \in {"v1.ddl", "config"}
      BY <1>4 DEF Begin, AfterTopic
    <3>2. QED
      BY <1>4, <3>1 DEF Begin, TypeOK
  <2>2. NoDanglingReference'
    BY <1>4 DEF Begin, NoDanglingReference, Exists
  <2>3. S' = specs[j] /\ specs[j] \in FunctionalSpec
    BY <1>4 DEF Begin, S, TypeOK
  <2>4. DOMAIN specs[j].topics = 1..Len(specs[j].topics)
        /\ Len(specs[j].topics) \in Nat
    BY <2>3, TopicTypes
  <2>5. pc' = AfterTopic(specs[j], 0) /\ topic' = 1
    BY <1>4 DEF Begin
  <2>6. CASE 0 < Len(specs[j].topics)
    BY <2>1, <2>2, <2>3, <2>4, <2>5, <2>6 DEF AfterTopic, Emitted
  <2>7. CASE Len(specs[j].topics) = 0
    <3>1. TopicsOf(specs[j]) = {}
      BY <2>4, <2>7 DEF TopicsOf
    <3>2. QED
      BY <2>1, <2>2, <2>3, <2>5, <2>7, <3>1 DEF AfterTopic, Emitted
  <2>8. QED
    BY <2>4, <2>6, <2>7
<1>5. ASSUME NEW j \in Jobs, Reject(j)
      PROVE  IInv'
  BY <1>3, <1>5 DEF Reject, TypeOK
<1>6. ASSUME NEW j \in Jobs, Edit(j)
      PROVE  IInv'
  <2>1. specs' \in [Jobs -> FunctionalSpec]
    <3>1. PICK s \in Revisions(specs[j]) : specs' = [specs EXCEPT ![j] = s]
      BY <1>6 DEF Edit
    <3>2. s \in FunctionalSpec
      BY RevisionTypes DEF TypeOK
    <3>3. QED
      BY <3>1, <3>2 DEF TypeOK
  <2>2. TypeOK'
    BY <1>6, <2>1 DEF Edit, TypeOK
  <2>3. QED
    BY <1>6, <2>2 DEF Edit, Emitted, NoDanglingReference, Exists
<1>7. ASSUME NEW j \in Jobs, Extend(j)
      PROVE  IInv'
  <2> DEFINE f == TestFile(specs[j])
             d == [disk[f] EXCEPT !.text = <<j, "extended">>]
  <2>1. f \in File /\ disk[f] \in Content
    BY FileTypes DEF TypeOK
  <2>2. d \in Content /\ d # Absent /\ d.needs = disk[f].needs
    <3>1. <<j, "extended">> \in Seq(Word) /\ <<j, "extended">> # <<>>
      BY DEF Word
    <3>2. /\ d = [text |-> <<j, "extended">>, needs |-> disk[f].needs]
          /\ disk[f].needs \subseteq File
      BY <2>1 DEF Content
    <3>3. QED
      BY <3>1, <3>2 DEF Content, Absent
  <2>3. disk' = [disk EXCEPT ![f] = d]
    BY <1>7 DEF Extend
  <2>4. TypeOK'
    BY <1>7, <2>1, <2>2, <2>3 DEF Extend, TypeOK
  <2>5. \A g \in File : disk'[g].needs = disk[g].needs
    BY <2>2, <2>3 DEF TypeOK
  <2>6. \A g \in File : Exists(g) => Exists(g)'
    BY <2>2, <2>3 DEF Exists, TypeOK
  <2>7. NoDanglingReference'
    <3> SUFFICES ASSUME NEW g \in File, NEW h \in disk'[g].needs
                 PROVE  Exists(h)'
      BY DEF NoDanglingReference
    <3>1. h \in File /\ Exists(h)
      BY <2>5 DEF NoDanglingReference, TypeOK, Content
    <3>2. QED
      BY <2>6, <3>1
  <2>8. QED
    BY <1>7, <2>4, <2>7 DEF Extend, Emitted
<1>8. CASE EmitSchema
  <2> DEFINE t == S.topics[topic]
  <2>1. /\ topic \in DOMAIN S.topics /\ t \in Topic /\ T = t
        /\ UNCHANGED <<specs, job, runs>>
        /\ \A k \in DOMAIN S.topics : k < topic => TopicDone(S.topics[k])
    BY <1>2, <1>8 DEF EmitSchema, Emitted, T
  <2>2. /\ SchemaFile(t) \in File /\ SchemaText(t) \in Content
        /\ SchemaText(t) # Absent /\ SchemaText(t).needs = {}
    BY <1>1, <2>1, TopicFileTypes, TextTypes, TextsExist DEF SchemaText
  <2>3. /\ AfterTopic(S, topic) \in PC /\ "v1.mapping.yaml" \in PC
        /\ topic \in Nat \ {0} /\ topic + 1 \in Nat \ {0}
    BY DEF AfterTopic, PC, TypeOK
  <2>4. S' = S
    BY <2>1 DEF S
  <2>5. CASE t.mapping # NoMapping
    <3>1. Emit(SchemaFile(t), SchemaText(t), "v1.mapping.yaml", topic)
      BY <1>8, <2>1, <2>5 DEF EmitSchema
    <3>2. /\ TypeOK' /\ NoDanglingReference'
          /\ \A g \in File : disk[g] # Absent => disk'[g] # Absent
          /\ \/ pc' = "idle"
             \/ /\ pc' = "v1.mapping.yaml" /\ topic' = topic
                /\ disk'[SchemaFile(t)] # Absent
      BY <2>1, <2>2, <2>3, <3>1, EmitStep DEF Exists
    <3>3. \A k \in DOMAIN S.topics : k < topic => DoneNext(S.topics[k])
      BY <1>2, <2>1, <3>2, DonePersists
    <3>4. CASE pc' = "v1.mapping.yaml"
      <4>1. T' = t
        BY <2>4, <3>2, <3>4 DEF T
      <4>2. QED
        BY <2>1, <2>4, <3>2, <3>3, <3>4, <4>1
        DEF Emitted, TopicDone, DoneNext, Exists
    <3>5. QED
      BY <3>2, <3>4 DEF Emitted
  <2>6. CASE t.mapping = NoMapping
    <3>1. Emit(SchemaFile(t), SchemaText(t), AfterTopic(S, topic), topic + 1)
      BY <1>8, <2>1, <2>6 DEF EmitSchema
    <3>2. /\ TypeOK' /\ NoDanglingReference'
          /\ \A g \in File : disk[g] # Absent => disk'[g] # Absent
          /\ \/ pc' = "idle"
             \/ /\ pc' = AfterTopic(S, topic) /\ topic' = topic + 1
                /\ disk'[SchemaFile(t)] # Absent
      BY <2>1, <2>2, <2>3, <3>1, EmitStep DEF Exists
    <3>3. ASSUME pc' = AfterTopic(S, topic), topic' = topic + 1,
                 disk'[SchemaFile(t)] # Absent
          PROVE  Emitted'
      <4>1. \A k \in DOMAIN S.topics : k < topic => DoneNext(S.topics[k])
        BY <1>2, <2>1, <3>2, DonePersists
      <4>2. DoneNext(t)
        BY <2>6, <3>3 DEF DoneNext
      <4>3. \A k \in DOMAIN S.topics : k <= topic => DoneNext(S.topics[k])
        BY <1>2, <2>3, <4>1, <4>2
      <4>4. topic \in 0..Len(S.topics)
        BY <1>2, <2>1
      <4>5. QED
        BY <2>1, <3>3, <4>3, <4>4, LoopStep
    <3>4. QED
      BY <3>2, <3>3 DEF Emitted
  <2>7. QED
    BY <2>5, <2>6
<1>9. CASE EmitMapping
  <2> DEFINE t == S.topics[topic]
  <2>1. /\ topic \in DOMAIN S.topics /\ t \in Topic /\ T = t
        /\ UNCHANGED <<specs, job, runs>> /\ Exists(SchemaFile(t))
        /\ \A k \in DOMAIN S.topics : k < topic => TopicDone(S.topics[k])
    BY <1>2, <1>9 DEF EmitMapping, Emitted, T
  <2>2. /\ MappingFile(t) \in File /\ MappingText(job, S, t) \in Content
        /\ MappingText(job, S, t) # Absent /\ MappingText(job, S, t).needs = {}
        /\ SchemaFile(t) \in File
    BY <1>1, <2>1, TopicFileTypes, TextTypes, TextsExist DEF MappingText
  <2>3. /\ AfterTopic(S, topic) \in PC
        /\ topic \in Nat \ {0} /\ topic + 1 \in Nat \ {0}
    BY DEF AfterTopic, PC, TypeOK
  <2>4. Emit(MappingFile(t), MappingText(job, S, t), AfterTopic(S, topic), topic + 1)
    BY <1>9, <2>1 DEF EmitMapping
  <2>5. /\ TypeOK' /\ NoDanglingReference'
        /\ \A g \in File : disk[g] # Absent => disk'[g] # Absent
        /\ \/ pc' = "idle"
           \/ /\ pc' = AfterTopic(S, topic) /\ topic' = topic + 1
              /\ disk'[MappingFile(t)] # Absent
    BY <2>1, <2>2, <2>3, <2>4, EmitStep DEF Exists
  <2>6. ASSUME pc' = AfterTopic(S, topic), topic' = topic + 1,
               disk'[MappingFile(t)] # Absent
        PROVE  Emitted'
    <3>1. \A k \in DOMAIN S.topics : k < topic => DoneNext(S.topics[k])
      BY <1>2, <2>1, <2>5, DonePersists
    <3>2. DoneNext(t)
      BY <2>1, <2>2, <2>5, <2>6 DEF DoneNext, Exists
    <3>3. \A k \in DOMAIN S.topics : k <= topic => DoneNext(S.topics[k])
      BY <1>2, <2>3, <3>1, <3>2
    <3>4. topic \in 0..Len(S.topics)
      BY <1>2, <2>1
    <3>5. QED
      BY <2>1, <2>6, <3>3, <3>4, LoopStep
  <2>7. QED
    BY <2>5, <2>6 DEF Emitted
<1>10. CASE EmitConfig
  <2>1. /\ ConfigFile(S) \in File /\ ConfigText(job, S) \in Content
        /\ ConfigText(job, S) # Absent /\ "entry" \in PC
    BY <1>1, FileTypes, TextTypes, TextsExist DEF PC
  <2>2. \A g \in ConfigText(job, S).needs : Exists(g)
    BY <1>10 DEF EmitConfig, Emitted, ConfigText, TopicDone
  <2>3. /\ Emit(ConfigFile(S), ConfigText(job, S), "entry", topic)
        /\ UNCHANGED <<specs, job, runs>> /\ topic \in Nat \ {0}
    BY <1>10 DEF EmitConfig, TypeOK
  <2>4. /\ TypeOK' /\ NoDanglingReference'
        /\ pc' = "idle" \/ (pc' = "entry" /\ disk'[ConfigFile(S)] # Absent)
    BY <2>1, <2>2, <2>3, EmitStep DEF Exists
  <2>5. S' = S
    BY <2>3 DEF S
  <2>6. QED
    BY <2>4, <2>5 DEF Emitted, Exists
<1>11. CASE EmitEntry
  <2>1. /\ ConfigFile(S) \in File /\ EntryFile(S) \in File
        /\ EntryText(job) \in Content /\ EntryText(job) # Absent
        /\ EntryText(job).needs = {} /\ "job.yml" \in PC
    BY <1>1, FileTypes, TextTypes, TextsExist DEF EntryText, PC
  <2>2. /\ Emit(EntryFile(S), EntryText(job), "job.yml", topic)
        /\ UNCHANGED <<specs, job, runs>> /\ topic \in Nat \ {0}
    BY <1>11 DEF EmitEntry, TypeOK
  <2>3. /\ TypeOK' /\ NoDanglingReference'
        /\ \A g \in File : Exists(g) => Exists(g)'
        /\ pc' = "idle" \/ (pc' = "job.yml" /\ disk'[EntryFile(S)] # Absent)
    BY <2>1, <2>2, EmitStep DEF Exists
  <2>4. S' = S /\ Exists(ConfigFile(S))'
    BY <1>11, <2>1, <2>2, <2>3 DEF EmitEntry, Emitted, S
  <2>5. QED
    BY <2>3, <2>4 DEF Emitted, Exists
<1>12. CASE EmitResource
  <2>1. /\ ConfigFile(S) \in File /\ ResourceFile(S) \in File
        /\ ResourceText(job, S) \in Content /\ ResourceText(job, S) # Absent
        /\ "test" \in PC
    BY <1>1, FileTypes, TextTypes, TextsExist DEF PC
  <2>2. \A g \in ResourceText(job, S).needs : Exists(g)
    BY <1>12 DEF EmitResource, Emitted, ResourceText
  <2>3. /\ Emit(ResourceFile(S), ResourceText(job, S), "test", topic)
        /\ UNCHANGED <<specs, job, runs>> /\ topic \in Nat \ {0}
    BY <1>12 DEF EmitResource, TypeOK
  <2>4. /\ TypeOK' /\ NoDanglingReference'
        /\ \A g \in File : Exists(g) => Exists(g)'
        /\ pc' \in {"idle", "test"}
    BY <2>1, <2>2, <2>3, EmitStep
  <2>5. S' = S /\ Exists(ConfigFile(S))'
    BY <1>12, <2>1, <2>3, <2>4 DEF EmitResource, Emitted, S
  <2>6. QED
    BY <2>4, <2>5 DEF Emitted, Exists
<1>13. CASE EmitTest
  <2>1. /\ TestFile(S) \in File /\ TestText(job, S) \in Content
        /\ TestText(job, S) # Absent /\ "validate" \in PC
    BY <1>1, FileTypes, TextTypes, TextsExist DEF PC
  <2>2. \A g \in TestText(job, S).needs : Exists(g)
    BY <1>13 DEF EmitTest, Emitted, TestText
  <2>3. /\ Emit(TestFile(S), TestText(job, S), "validate", topic)
        /\ UNCHANGED <<specs, job, runs>> /\ topic \in Nat \ {0}
    BY <1>13 DEF EmitTest, TypeOK
  <2>4. TypeOK' /\ NoDanglingReference' /\ pc' \in {"idle", "validate"}
    BY <2>1, <2>2, <2>3, EmitStep
  <2>5. QED
    BY <2>4 DEF Emitted
<1>14. CASE Ready
  <2>1. settled' \in [Jobs -> BOOLEAN]
    BY <1>14 DEF Ready, TypeOK
  <2>2. EndRun /\ UNCHANGED <<specs, disk, job, runs, mishaps>>
    BY <1>14 DEF Ready
  <2>3. QED
    BY <1>3, <2>1, <2>2, EndRunTypes DEF EndRun
<1>15. CASE Invalid
  <2>1. settled' \in [Jobs -> BOOLEAN]
    BY <1>15 DEF Invalid, TypeOK
  <2>2. EndRun /\ UNCHANGED <<specs, disk, job, runs, mishaps>>
    BY <1>15 DEF Invalid
  <2>3. QED
    BY <1>3, <2>1, <2>2, EndRunTypes DEF EndRun
<1>16. CASE UNCHANGED vars
  BY <1>16 DEF vars, TypeOK, Emitted, NoDanglingReference, TopicDone, Exists,
               S, T, TopicsOf
<1>17. QED
  BY <1>4, <1>5, <1>6, <1>7, <1>8, <1>9, <1>10, <1>11, <1>12, <1>13, <1>14,
     <1>15, <1>16 DEF Next, Terminated

\* What add_job has put on disk is known at every step of it.
THEOREM EmittedInOrder == Spec => []IInv
<1>1. Init => IInv
  <2> SUFFICES ASSUME Init
               PROVE  IInv
    OBVIOUS
  <2>1. specs \in [Jobs -> FunctionalSpec]
    BY DraftsAssumption DEF Init
  <2>2. Absent \in Content /\ Absent.needs = {}
    BY DEF Absent, Content
  <2>3. TypeOK
    <3>1. force \in BOOLEAN /\ settled \in [Jobs -> BOOLEAN]
      BY DEF Init
    <3>2. disk \in [File -> Content]
      BY <2>2 DEF Init
    <3>3. pc = "idle" /\ topic = 1 /\ job \in Jobs /\ runs = 0 /\ mishaps = 0
      BY DEF Init
    <3>4. QED
      BY <2>1, <3>1, <3>2, <3>3 DEF TypeOK
  <2>4. Emitted
    BY DEF Init, Emitted
  <2>5. NoDanglingReference
    BY <2>2 DEF Init, NoDanglingReference
  <2>6. QED
    BY <2>3, <2>4, <2>5 DEF IInv
<1>2. QED
  BY <1>1, Step, PTL DEF Spec

\* For any jobs, specs, runs, refusals and crashes, no generated file refers to
\* a file that is not on disk: add_job writes schemas and mappings before the
\* config, and the config and the entry point before the job resource
\* (scaffold.py:82-127).
THEOREM ReferencesResolve == Spec => []NoDanglingReference
<1>1. IInv => NoDanglingReference
  BY DEF IInv
<1>2. QED
  BY <1>1, EmittedInOrder, PTL

-----------------------------------------------------------------------------
(* Finished jobs and runs without --force *)

\* The paths of a job are files, and its test is no other path of any job.
LEMMA PathTypes ==
    ASSUME NEW s \in FunctionalSpec, NEW r \in FunctionalSpec
    PROVE  /\ Paths(s) \subseteq File
           /\ \A p \in Paths(s) : p = TestFile(r) => p = TestFile(s)
<1>1. \A t \in TopicsOf(s) : SchemaFile(t) \in File /\ MappingFile(t) \in File
  BY TopicTypes, TopicFileTypes
<1>2. Paths(s) \subseteq File
  BY <1>1, FileTypes DEF Paths
<1>3. \A t \in TopicsOf(s) : SchemaFile(t) # TestFile(r) /\ MappingFile(t) # TestFile(r)
  BY DEF SchemaFile, MappingFile, TestFile
<1>4. ConfigFile(s) # TestFile(r) /\ EntryFile(s) # TestFile(r)
         /\ ResourceFile(s) # TestFile(r)
  <2>1. Len(TestFile(r)) = 2
    BY DEF TestFile
  <2>2. Len(ConfigFile(s)) = 3 /\ Len(EntryFile(s)) = 3 /\ Len(ResourceFile(s)) = 3
    BY DEF ConfigFile, EntryFile, ResourceFile
  <2> QED
    BY <2>1, <2>2
<1> QED
  BY <1>2, <1>3, <1>4 DEF Paths

\* Without --force an _emit leaves every file alone that is there.
LEMMA EmitSpares ==
    ASSUME TypeOK, ~force, NEW f, NEW c, NEW next, NEW i, Emit(f, c, next, i),
           NEW g \in File, disk[g] # Absent
    PROVE  disk'[g] = disk[g]
BY DEF Emit, Write, TypeOK

\* A job whose files stay as they are stays current.
LEMMA CurrentStays ==
    ASSUME NEW j \in Jobs, specs[j] \in FunctionalSpec, Current(j),
           specs'[j] = specs[j],
           \A g \in Paths(specs[j]) : disk[g] # Absent => disk'[g] = disk[g]
    PROVE  Current(j)'
<1> DEFINE s == specs[j]
<1>1. \A t \in TopicsOf(s) :
        /\ disk'[SchemaFile(t)] = SchemaText(t)
        /\ t.mapping # NoMapping => disk'[MappingFile(t)] = MappingText(j, s, t)
  BY TextsExist DEF Current, Paths
<1>2. /\ disk'[ConfigFile(s)] = ConfigText(j, s)
      /\ disk'[EntryFile(s)] = EntryText(j)
      /\ disk'[ResourceFile(s)] = ResourceText(j, s)
      /\ disk'[TestFile(s)] = TestText(j, s)
  BY TextsExist DEF Current, Paths
<1> QED
  BY <1>1, <1>2 DEF Current

\* Without --force no run, for whatever job, refused, cut short or complete,
\* takes a finished job's files away from its spec (scaffold.py:145-160).
THEOREM FinishedJobsStay == Spec => CurrentUntilForced
<1> DEFINE Kept ==
        \A j \in Jobs :
            settled[j] /\ settled'[j] /\ Current(j) /\ ~force => Current(j)'
<1>1. IInv /\ [Next]_vars => Kept
  <2> SUFFICES ASSUME IInv, [Next]_vars, NEW j \in Jobs,
                      settled[j], settled'[j], Current(j), ~force
               PROVE  Current(j)'
    OBVIOUS
  <2>1. TypeOK /\ specs[j] \in FunctionalSpec
    BY DEF IInv, TypeOK
  <2>2. Paths(specs[j]) \subseteq File
    BY <2>1, PathTypes
  <2>3. ASSUME NEW k \in Jobs, Edit(k)
        PROVE  Current(j)'
    <3>1. j # k /\ specs'[j] = specs[j] /\ disk' = disk
      BY <2>1, <2>3 DEF Edit, TypeOK
    <3> QED
      BY <2>1, <3>1, CurrentStays
  <2>4. ASSUME NEW k \in Jobs, Extend(k)
        PROVE  Current(j)'
    <3>1. j # k /\ specs' = specs
      BY <2>1, <2>4 DEF Extend, TypeOK
    <3>2. specs[k] \in FunctionalSpec
      BY <2>1 DEF TypeOK
    <3>3. TestFile(specs[k]) # TestFile(specs[j])
      <4>1. disk[TestFile(specs[k])].text = <<k>>
        BY <2>4 DEF Extend, TestText
      <4>2. disk[TestFile(specs[j])].text = <<j>>
        BY DEF Current, TestText
      <4> QED
        BY <3>1, <4>1, <4>2
    <3>4. \A g \in Paths(specs[j]) : g # TestFile(specs[k])
      BY <2>1, <3>2, <3>3, PathTypes
    <3>5. \A g \in Paths(specs[j]) : disk'[g] = disk[g]
      BY <2>1, <2>2, <2>4, <3>4 DEF Extend, TypeOK
    <3> QED
      BY <2>1, <3>1, <3>5, CurrentStays
  <2>5. ASSUME specs' = specs,
               \E f, c, next, i : Emit(f, c, next, i)
        PROVE  Current(j)'
    <3>1. PICK f, c, next, i : Emit(f, c, next, i)
      BY <2>5
    <3>2. \A g \in File : disk[g] # Absent => disk'[g] = disk[g]
      BY <2>1, <3>1, EmitSpares
    <3> QED
      BY <2>1, <2>2, <2>5, <3>2, CurrentStays
  <2>6. ASSUME UNCHANGED <<specs, disk>> PROVE Current(j)'
    BY <2>1, <2>6, CurrentStays
  <2>7. CASE EmitSchema
    BY <2>5, <2>7 DEF EmitSchema
  <2>8. CASE EmitMapping
    BY <2>5, <2>8 DEF EmitMapping
  <2>9. CASE EmitConfig
    BY <2>5, <2>9 DEF EmitConfig
  <2>10. CASE EmitEntry
    BY <2>5, <2>10 DEF EmitEntry
  <2>11. CASE EmitResource
    BY <2>5, <2>11 DEF EmitResource
  <2>12. CASE EmitTest
    BY <2>5, <2>12 DEF EmitTest
  <2>13. CASE Ready \/ Invalid \/ Terminated \/ UNCHANGED vars
    BY <2>6, <2>13 DEF Ready, Invalid, Terminated, vars
  <2>14. ASSUME NEW k \in Jobs, Begin(k) \/ Reject(k) PROVE Current(j)'
    BY <2>6, <2>14 DEF Begin, Reject
  <2> QED
    BY <2>3, <2>4, <2>7, <2>8, <2>9, <2>10, <2>11, <2>12, <2>13, <2>14 DEF Next
<1> QED
  BY <1>1, EmittedInOrder, PTL DEF CurrentUntilForced, Spec

-----------------------------------------------------------------------------
(* Regeneration *)

Rendered(j, t) ==
    /\ disk[SchemaFile(t)] = SchemaText(t)
    /\ t.mapping # NoMapping => disk[MappingFile(t)] = MappingText(j, specs[j], t)

\* What the run at hand has been through is current, unless a path is shared.
WrittenSoFar ==
    pc # "idle" /\ Alone(job) =>
        /\ \A i \in DOMAIN S.topics :
              i < topic \/ pc \notin {"v1.ddl", "v1.mapping.yaml"}
                  => Rendered(job, S.topics[i])
        /\ pc = "v1.mapping.yaml" => disk[SchemaFile(T)] = SchemaText(T)
        /\ pc \in {"entry", "job.yml", "test", "validate"} =>
              disk[ConfigFile(S)] = ConfigText(job, S)
        /\ pc \in {"job.yml", "test", "validate"} => disk[EntryFile(S)] = EntryText(job)
        /\ pc \in {"test", "validate"} => disk[ResourceFile(S)] = ResourceText(job, S)
        /\ pc = "validate" => disk[TestFile(S)] = TestText(job, S)

\* The mapping file is emitted for topics that have a mapping.
MappingAhead == pc = "v1.mapping.yaml" => T.mapping # NoMapping

LEMMA MappingStep == ASSUME MappingAhead, [Next]_vars PROVE MappingAhead'
<1> USE DEF MappingAhead, Emit, EndRun, AfterTopic
<1>1. CASE EmitSchema
  BY <1>1 DEF EmitSchema, S, T
<1>2. CASE EmitMapping
  BY <1>2 DEF EmitMapping
<1>3. CASE EmitConfig \/ EmitEntry \/ EmitResource \/ EmitTest
  BY <1>3 DEF EmitConfig, EmitEntry, EmitResource, EmitTest
<1>4. ASSUME NEW j \in Jobs, Begin(j) \/ Reject(j) \/ Edit(j) \/ Extend(j)
      PROVE  MappingAhead'
  BY <1>4 DEF Begin, Reject, Edit, Extend, S, T
<1>5. CASE Ready \/ Invalid \/ UNCHANGED vars
  BY <1>5 DEF Ready, Invalid, vars, S, T
<1> QED
  BY <1>1, <1>2, <1>3, <1>4, <1>5 DEF Next, Terminated

\* The files of a job are at different paths.
LEMMA PathsApart ==
    ASSUME NEW s \in FunctionalSpec, NEW t \in Topic, NEW u \in Topic
    PROVE  /\ SchemaFile(t) # MappingFile(u)
           /\ SchemaFile(t) = SchemaFile(u) => t.subject = u.subject
           /\ MappingFile(t) = MappingFile(u) => t.subject = u.subject
           /\ {SchemaFile(t), MappingFile(t)} \cap
                 {ConfigFile(s), EntryFile(s), ResourceFile(s), TestFile(s)} = {}
<1> USE DEF SchemaFile, MappingFile, ConfigFile, EntryFile, ResourceFile, TestFile
<1>1. Len(SchemaFile(t)) = 2 /\ Len(MappingFile(t)) = 2 /\ Len(TestFile(s)) = 2
  OBVIOUS
<1>2. Len(ConfigFile(s)) = 3 /\ Len(EntryFile(s)) = 3 /\ Len(ResourceFile(s)) = 3
  OBVIOUS
<1>3. SchemaFile(t) # TestFile(s) /\ MappingFile(t) # TestFile(s)
  OBVIOUS
<1>5. {SchemaFile(t), MappingFile(t)} \cap
          {ConfigFile(s), EntryFile(s), ResourceFile(s), TestFile(s)} = {}
  <2> HIDE DEF SchemaFile, MappingFile, ConfigFile, EntryFile, ResourceFile, TestFile
  <2> QED
    BY <1>1, <1>2, <1>3
<1>7. SchemaFile(t) # MappingFile(u)
  OBVIOUS
<1>8. /\ SchemaFile(t) = SchemaFile(u) => t.subject = u.subject
      /\ MappingFile(t) = MappingFile(u) => t.subject = u.subject
  OBVIOUS
<1> QED
  BY <1>5, <1>7, <1>8

LEMMA OwnPathsApart ==
    ASSUME NEW s \in FunctionalSpec
    PROVE  /\ ConfigFile(s) # EntryFile(s) /\ ConfigFile(s) # ResourceFile(s)
           /\ ConfigFile(s) # TestFile(s) /\ EntryFile(s) # ResourceFile(s)
           /\ EntryFile(s) # TestFile(s) /\ ResourceFile(s) # TestFile(s)
<1>1. Len(TestFile(s)) = 2
  BY DEF TestFile
<1>2. Len(ConfigFile(s)) = 3 /\ Len(EntryFile(s)) = 3 /\ Len(ResourceFile(s)) = 3
  BY DEF ConfigFile, EntryFile, ResourceFile
<1>3. ConfigFile(s) # EntryFile(s) /\ ConfigFile(s) # ResourceFile(s)
         /\ EntryFile(s) # ResourceFile(s)
  BY DEF ConfigFile, EntryFile, ResourceFile
<1> QED
  BY <1>1, <1>2, <1>3

\* A revision of a spec names the same paths.
LEMMA RevisionKeepsPaths ==
    ASSUME NEW s \in FunctionalSpec, NEW r \in Revisions(s)
    PROVE  /\ Paths(r) = Paths(s)
           /\ DOMAIN r.topics = DOMAIN s.topics
           /\ \A i \in DOMAIN s.topics : r.topics[i].subject = s.topics[i].subject
<1>1. /\ r.domain = s.domain /\ r.snake = s.snake /\ r.platform = s.platform
      /\ DOMAIN r.topics = DOMAIN s.topics
      /\ \A i \in DOMAIN s.topics : r.topics[i].subject = s.topics[i].subject
  <2>1. CASE \E b \in Bodies \cup Unfit : r = [s EXCEPT !.body = b]
    BY <2>1 DEF FunctionalSpec
  <2>2. CASE \E i \in DOMAIN s.topics, x \in Texts : r = [s EXCEPT !.topics[i].fields = x]
    BY <2>2 DEF FunctionalSpec, Topic
  <2>3. CASE \E i \in DOMAIN s.topics, x \in Texts \cup {NoMapping} :
                 r = [s EXCEPT !.topics[i].mapping = x]
    BY <2>3 DEF FunctionalSpec, Topic
  <2> QED
    BY <2>1, <2>2, <2>3 DEF Revisions
<1>2. {ConfigFile(r), EntryFile(r), ResourceFile(r), TestFile(r)} =
      {ConfigFile(s), EntryFile(s), ResourceFile(s), TestFile(s)}
  BY <1>1 DEF ConfigFile, EntryFile, ResourceFile, TestFile
<1>3. \A i \in DOMAIN s.topics :
        /\ SchemaFile(r.topics[i]) = SchemaFile(s.topics[i])
        /\ MappingFile(r.topics[i]) = MappingFile(s.topics[i])
  BY <1>1 DEF SchemaFile, MappingFile
<1>4. UNION {{SchemaFile(t), MappingFile(t)} : t \in TopicsOf(r)} =
      UNION {{SchemaFile(t), MappingFile(t)} : t \in TopicsOf(s)}
  BY <1>1, <1>3 DEF TopicsOf
<1> QED
  BY <1>1, <1>2, <1>4 DEF Paths

\* What an _emit of the run's own files means for the jobs that are finished.
LEMMA EmitKeepsFinished ==
    ASSUME TypeOK, RegenerationIsIdempotent, UNCHANGED <<specs, job>>,
           NEW f \in Paths(S), NEW c, NEW next, NEW i, Emit(f, c, next, i),
           Current(job) => disk[f] = c
    PROVE  RegenerationIsIdempotent'
<1> SUFFICES ASSUME NEW j \in Jobs, settled'[j], Alone(j)
             PROVE  Current(j)'
  BY DEF RegenerationIsIdempotent, Alone
<1>1. job \in Jobs /\ specs[j] \in FunctionalSpec /\ S \in FunctionalSpec
  BY DEF TypeOK, S
<1>2. settled[j]
  BY DEF Emit, TypeOK
<1>3. Current(j)
  BY <1>2 DEF RegenerationIsIdempotent
<1>4. Paths(specs[j]) \subseteq File /\ f \in File
  BY <1>1, PathTypes
<1>5. CASE j = job
  <2>1. disk' = disk
    BY <1>3, <1>4, <1>5 DEF Emit, Write, TypeOK
  <2> QED
    BY <1>1, <1>3, <2>1, CurrentStays
<1>6. CASE j # job
  <2>1. f \notin Paths(specs[j])
    BY <1>1, <1>6 DEF Alone, S
  <2>2. \A g \in Paths(specs[j]) : disk'[g] = disk[g]
    BY <1>4, <2>1 DEF Emit, Write, TypeOK
  <2> QED
    BY <1>1, <1>3, <2>2, CurrentStays
<1> QED
  BY <1>5, <1>6

\* An _emit after which the run goes on has written its file.
LEMMA EmitGoesOn ==
    ASSUME TypeOK, NEW f \in File, NEW c, NEW next, NEW i, Emit(f, c, next, i),
           pc' # "idle"
    PROVE  /\ pc' = next /\ topic' = i
           /\ \A g \in File : disk'[g] = IF g = f THEN c ELSE disk[g]
BY DEF Emit, EndRun, Write, TypeOK

LEMMA RegenerationStep ==
    ASSUME IInv, MappingAhead, WrittenSoFar, RegenerationIsIdempotent, [Next]_vars
    PROVE  WrittenSoFar' /\ RegenerationIsIdempotent'
<1>1. TypeOK /\ job \in Jobs /\ S \in FunctionalSpec /\ \A j \in Jobs : specs[j] \in FunctionalSpec
  BY DEF IInv, TypeOK, S
<1>2. \A j \in Jobs : Paths(specs[j]) \subseteq File
  BY <1>1, PathTypes
<1>3. {ConfigFile(S), EntryFile(S), ResourceFile(S), TestFile(S)} \subseteq Paths(S)
         /\ \A t \in TopicsOf(S) : {SchemaFile(t), MappingFile(t)} \subseteq Paths(S)
         /\ Paths(S) \subseteq File
  BY <1>1, <1>2 DEF Paths, S
<1>4. /\ DOMAIN S.topics = 1..Len(S.topics) /\ Len(S.topics) \in Nat
      /\ \A i \in DOMAIN S.topics : S.topics[i] \in TopicsOf(S) /\ S.topics[i] \in Topic
  BY <1>1, TopicTypes
<1>5. pc \in {"v1.ddl", "v1.mapping.yaml"} =>
          topic \in DOMAIN S.topics /\ T \in TopicsOf(S) /\ T \in Topic
  BY <1>4 DEF IInv, Emitted, T
<1>6. Alone(job) => \A i, k \in DOMAIN S.topics :
          S.topics[i].subject = S.topics[k].subject => i = k
  BY DEF Alone, S
<1>7. ASSUME UNCHANGED <<specs, job>>
      PROVE  S' = S /\ (Alone(job)' <=> Alone(job))
  BY <1>7 DEF S, Alone
<1>10. ASSUME NEW j \in Jobs, Begin(j)
       PROVE  WrittenSoFar' /\ RegenerationIsIdempotent'
  <2>1. RegenerationIsIdempotent'
    BY <1>10 DEF Begin, RegenerationIsIdempotent, Alone, Current
  <2>2. S' = specs[j] /\ specs[j] \in FunctionalSpec
    BY <1>1, <1>10 DEF Begin, S
  <2>3. CASE Len(specs[j].topics) = 0
    <3>1. DOMAIN S'.topics = {} /\ pc' = "config"
      BY <1>10, <2>2, <2>3, TopicTypes DEF Begin, AfterTopic
    <3> QED
      BY <2>1, <3>1 DEF WrittenSoFar
  <2>4. CASE Len(specs[j].topics) > 0
    <3>1. DOMAIN S'.topics \subseteq Nat \ {0} /\ pc' = "v1.ddl" /\ topic' = 1
      BY <1>10, <2>2, <2>4, TopicTypes DEF Begin, AfterTopic
    <3> QED
      BY <2>1, <3>1 DEF WrittenSoFar
  <2> QED
    BY <2>2, <2>3, <2>4, TopicTypes
<1>11. ASSUME NEW j \in Jobs, Reject(j) PROVE WrittenSoFar' /\ RegenerationIsIdempotent'
  BY <1>11 DEF Reject, WrittenSoFar, RegenerationIsIdempotent, Rendered, Alone, Current, S, T
<1>12. ASSUME NEW j \in Jobs, Edit(j) PROVE WrittenSoFar' /\ RegenerationIsIdempotent'
  <2>1. WrittenSoFar'
    BY <1>12 DEF Edit, WrittenSoFar
  <2>2. PICK r \in Revisions(specs[j]) : specs' = [specs EXCEPT ![j] = r]
    BY <1>12 DEF Edit
  <2>3. \A k \in Jobs : Paths(specs'[k]) = Paths(specs[k])
    BY <1>1, <2>2, RevisionKeepsPaths DEF TypeOK
  <2> SUFFICES ASSUME NEW k \in Jobs, settled'[k], Alone(k)'
               PROVE  Current(k)'
    BY <2>1 DEF RegenerationIsIdempotent
  <2>4. k # j /\ settled[k] /\ specs'[k] = specs[k] /\ disk' = disk
    BY <1>1, <1>12, <2>2 DEF Edit, TypeOK
  <2>5. Alone(k)
    BY <2>3, <2>4 DEF Alone
  <2>6. Current(k)
    BY <2>4, <2>5 DEF RegenerationIsIdempotent
  <2> QED
    BY <1>1, <2>4, <2>6, CurrentStays
<1>13. ASSUME NEW j \in Jobs, Extend(j) PROVE WrittenSoFar' /\ RegenerationIsIdempotent'
  <2>1. WrittenSoFar'
    BY <1>13 DEF Extend, WrittenSoFar
  <2> SUFFICES ASSUME NEW k \in Jobs, settled'[k], Alone(k)'
               PROVE  Current(k)'
    BY <2>1 DEF RegenerationIsIdempotent
  <2>2. k # j /\ settled[k] /\ specs' = specs
    BY <1>1, <1>13 DEF Extend, TypeOK
  <2>3. Alone(k) /\ Current(k)
    BY <2>2 DEF RegenerationIsIdempotent, Alone
  <2>4. TestFile(specs[j]) \in Paths(specs[j])
    BY DEF Paths
  <2>5. TestFile(specs[j]) \notin Paths(specs[k])
    BY <2>2, <2>3, <2>4 DEF Alone
  <2>6. \A g \in Paths(specs[k]) : disk'[g] = disk[g]
    BY <1>1, <1>2, <1>13, <2>5 DEF Extend, TypeOK
  <2> QED
    BY <1>1, <2>2, <2>3, <2>6, CurrentStays
<1>14. CASE EmitSchema
  <2>1. PICK t \in Topic, f \in File, c \in Content :
          t = T /\ t \in TopicsOf(S) /\ f = SchemaFile(T) /\ f = SchemaFile(t)
            /\ c = SchemaText(T) /\ c = SchemaText(t)
    BY <1>1, <1>3, <1>5, <1>14, TextTypes DEF EmitSchema
  <2>2. PICK next, i :
          /\ Emit(f, c, next, i)
          /\ \/ next = "v1.mapping.yaml" /\ i = topic
             \/ next = AfterTopic(S, topic) /\ i = topic + 1 /\ t.mapping = NoMapping
    BY <1>14, <2>1 DEF EmitSchema
  <2>3. UNCHANGED <<specs, job>> /\ f \in Paths(S)
    BY <1>3, <1>14, <2>1 DEF EmitSchema
  <2>4. RegenerationIsIdempotent'
    <3>1. Current(job) => disk[f] = c
      BY <2>1 DEF Current, S
    <3> QED
      BY <1>1, <2>2, <2>3, <3>1, EmitKeepsFinished
  <2>5. ASSUME pc' # "idle", Alone(job) PROVE WrittenSoFar'
    <3>1. pc' = next /\ topic' = i
          /\ \A g \in File : disk'[g] = IF g = f THEN c ELSE disk[g]
      BY <1>1, <2>2, <2>5, EmitGoesOn
    <3>2. \A k \in DOMAIN S.topics : k < topic => Rendered(job, S.topics[k])'
      <4> SUFFICES ASSUME NEW k \in DOMAIN S.topics, k < topic
                   PROVE  Rendered(job, S.topics[k])'
        OBVIOUS
      <4>1. SchemaFile(S.topics[k]) # f /\ MappingFile(S.topics[k]) # f
        BY <1>1, <1>4, <1>5, <1>6, <1>14, <2>1, <2>5, PathsApart DEF EmitSchema, T
      <4>2. Rendered(job, S.topics[k])
        BY <1>14, <2>5 DEF WrittenSoFar, EmitSchema
      <4>3. SchemaFile(S.topics[k]) \in File /\ MappingFile(S.topics[k]) \in File
        BY <1>3, <1>4
      <4> QED
        BY <1>7, <2>3, <3>1, <4>1, <4>2, <4>3 DEF Rendered
    <3>3. disk'[f] = c
      BY <3>1
    <3>4. CASE next = "v1.mapping.yaml" /\ i = topic
      <4>1. T' = t
        BY <1>7, <2>1, <2>3, <3>1, <3>4 DEF T
      <4>2. (disk[SchemaFile(T)] = SchemaText(T))'
        BY <2>1, <3>3, <4>1
      <4> QED
        BY <1>7, <2>3, <3>1, <3>2, <3>4, <4>2 DEF WrittenSoFar
    <3>5. CASE next = AfterTopic(S, topic) /\ i = topic + 1 /\ t.mapping = NoMapping
      <4>1. Rendered(job, t)'
        BY <2>1, <3>3, <3>5 DEF Rendered
      <4>2. topic \in DOMAIN S.topics /\ S.topics[topic] = t
        BY <1>5, <1>14, <2>1 DEF EmitSchema, T
      <4>3. \A k \in DOMAIN S.topics : k < topic' => Rendered(job, S.topics[k])'
        BY <1>4, <1>7, <2>3, <3>1, <3>2, <3>5, <4>1, <4>2
      <4>4. pc' = "v1.ddl" \/ (pc' = "config" /\ topic = Len(S.topics))
        BY <1>4, <3>1, <3>5, <4>2 DEF AfterTopic
      <4>5. pc' = "config" => \A k \in DOMAIN S.topics : k < topic'
        BY <1>4, <3>1, <3>5, <4>2, <4>4
      <4> QED
        BY <1>7, <2>3, <4>3, <4>4, <4>5 DEF WrittenSoFar
    <3> QED
      BY <2>2, <3>4, <3>5
  <2> QED
    BY <1>7, <2>3, <2>4, <2>5 DEF WrittenSoFar
<1>15. CASE EmitMapping
  <2>1. PICK t \in Topic, f \in File, c \in Content :
          t = T /\ t \in TopicsOf(S) /\ f = MappingFile(T) /\ f = MappingFile(t)
            /\ c = MappingText(job, S, T) /\ c = MappingText(job, S, t)
    BY <1>1, <1>3, <1>5, <1>15, TextTypes DEF EmitMapping
  <2>2. PICK next, i : Emit(f, c, next, i) /\ next = AfterTopic(S, topic) /\ i = topic + 1
    BY <1>15, <2>1 DEF EmitMapping
  <2>3. UNCHANGED <<specs, job>> /\ f \in Paths(S)
    BY <1>3, <1>15, <2>1 DEF EmitMapping
  <2>4. RegenerationIsIdempotent'
    <3>1. Current(job) => disk[f] = c
      BY <1>15, <2>1 DEF Current, EmitMapping, S, MappingAhead
    <3> QED
      BY <1>1, <2>2, <2>3, <3>1, EmitKeepsFinished
  <2>5. ASSUME pc' # "idle", Alone(job) PROVE WrittenSoFar'
    <3>1. pc' = next /\ topic' = i
          /\ \A g \in File : disk'[g] = IF g = f THEN c ELSE disk[g]
      BY <1>1, <2>2, <2>5, EmitGoesOn
    <3>2. \A k \in DOMAIN S.topics : k < topic => Rendered(job, S.topics[k])'
      <4> SUFFICES ASSUME NEW k \in DOMAIN S.topics, k < topic
                   PROVE  Rendered(job, S.topics[k])'
        OBVIOUS
      <4>1. SchemaFile(S.topics[k]) # f /\ MappingFile(S.topics[k]) # f
        BY <1>1, <1>4, <1>5, <1>6, <1>15, <2>1, <2>5, PathsApart DEF EmitMapping, T
      <4>2. Rendered(job, S.topics[k])
        BY <1>15, <2>5 DEF WrittenSoFar, EmitMapping
      <4>3. SchemaFile(S.topics[k]) \in File /\ MappingFile(S.topics[k]) \in File
        BY <1>3, <1>4
      <4> QED
        BY <1>7, <2>3, <3>1, <4>1, <4>2, <4>3 DEF Rendered
    <3>3. Rendered(job, t)'
      <4>1. disk[SchemaFile(t)] = SchemaText(t)
        BY <1>15, <2>1, <2>5 DEF WrittenSoFar, EmitMapping
      <4>2. SchemaFile(t) \in File /\ SchemaFile(t) # f
        BY <1>1, <1>3, <2>1, PathsApart
      <4> QED
        BY <2>1, <2>3, <3>1, <4>1, <4>2 DEF Rendered, S
    <3>4. topic \in DOMAIN S.topics /\ S.topics[topic] = t
      BY <1>5, <1>15, <2>1 DEF EmitMapping, T
    <3>5. \A k \in DOMAIN S.topics : k < topic' => Rendered(job, S.topics[k])'
      BY <1>4, <1>7, <2>2, <2>3, <3>1, <3>2, <3>3, <3>4
    <3>6. pc' = "v1.ddl" \/ (pc' = "config" /\ topic = Len(S.topics))
      BY <1>4, <2>2, <3>1, <3>4 DEF AfterTopic
    <3>7. pc' = "config" => \A k \in DOMAIN S.topics : k < topic'
      BY <1>4, <2>2, <3>1, <3>4, <3>6
    <3> QED
      BY <1>7, <2>3, <3>5, <3>6, <3>7 DEF WrittenSoFar
  <2> QED
    BY <1>7, <2>3, <2>4, <2>5 DEF WrittenSoFar
<1>16. CASE EmitConfig
  <2>1. PICK f \in File, c \in Content : f = ConfigFile(S) /\ c = ConfigText(job, S)
    BY <1>1, <1>3, FileTypes, TextTypes DEF TypeOK
  <2>2. PICK i : Emit(f, c, "entry", i)
    BY <1>16, <2>1 DEF EmitConfig
  <2>3. UNCHANGED <<specs, job>> /\ f \in Paths(S) /\ S' = S
    BY <1>3, <1>7, <1>16, <2>1 DEF EmitConfig
  <2>4. RegenerationIsIdempotent'
    <3>1. Current(job) => disk[f] = c
      BY <2>1 DEF Current, S
    <3> QED
      BY <1>1, <2>2, <2>3, <3>1, EmitKeepsFinished
  <2>5. ASSUME pc' # "idle", Alone(job) PROVE WrittenSoFar'
    <3>1. pc' = "entry" /\ \A g \in File : disk'[g] = IF g = f THEN c ELSE disk[g]
      BY <1>1, <2>2, <2>5, EmitGoesOn
    <3>2. \A k \in DOMAIN S.topics : Rendered(job, S.topics[k])'
      <4> SUFFICES ASSUME NEW k \in DOMAIN S.topics PROVE Rendered(job, S.topics[k])'
        OBVIOUS
      <4>1. /\ SchemaFile(S.topics[k]) \in File \ {f}
            /\ MappingFile(S.topics[k]) \in File \ {f}
        BY <1>1, <1>3, <1>4, <2>1, PathsApart
      <4>2. Rendered(job, S.topics[k])
        BY <1>16, <2>5 DEF WrittenSoFar, EmitConfig
      <4> QED
        BY <2>3, <3>1, <4>1, <4>2 DEF Rendered
    <3>3. (disk[ConfigFile(S)] = ConfigText(job, S))'
      BY <2>1, <2>3, <3>1
    <3> QED
      BY <2>3, <3>1, <3>2, <3>3 DEF WrittenSoFar
  <2> QED
    BY <1>7, <2>3, <2>4, <2>5 DEF WrittenSoFar
<1>17. CASE EmitEntry
  <2>1. PICK f \in File, c \in Content : f = EntryFile(S) /\ c = EntryText(job)
    BY <1>1, <1>3, FileTypes, TextTypes DEF TypeOK
  <2>2. PICK i : Emit(f, c, "job.yml", i)
    BY <1>17, <2>1 DEF EmitEntry
  <2>3. UNCHANGED <<specs, job>> /\ f \in Paths(S) /\ S' = S
    BY <1>3, <1>7, <1>17, <2>1 DEF EmitEntry
  <2>4. RegenerationIsIdempotent'
    <3>1. Current(job) => disk[f] = c
      BY <2>1 DEF Current, S
    <3> QED
      BY <1>1, <2>2, <2>3, <3>1, EmitKeepsFinished
  <2>5. ASSUME pc' # "idle", Alone(job) PROVE WrittenSoFar'
    <3>1. pc' = "job.yml" /\ \A g \in File : disk'[g] = IF g = f THEN c ELSE disk[g]
      BY <1>1, <2>2, <2>5, EmitGoesOn
    <3>2. \A k \in DOMAIN S.topics : Rendered(job, S.topics[k])'
      <4> SUFFICES ASSUME NEW k \in DOMAIN S.topics PROVE Rendered(job, S.topics[k])'
        OBVIOUS
      <4>1. /\ SchemaFile(S.topics[k]) \in File \ {f}
            /\ MappingFile(S.topics[k]) \in File \ {f}
        BY <1>1, <1>3, <1>4, <2>1, PathsApart
      <4>2. Rendered(job, S.topics[k])
        BY <1>17, <2>5 DEF WrittenSoFar, EmitEntry
      <4> QED
        BY <2>3, <3>1, <4>1, <4>2 DEF Rendered
    <3>3. (disk[EntryFile(S)] = EntryText(job))'
      BY <2>1, <2>3, <3>1
    <3>4. /\ (disk[ConfigFile(S)] = ConfigText(job, S))'
      <4>1. {ConfigFile(S)} \subseteq File \ {f}
        BY <1>1, <1>3, <2>1, FileTypes, OwnPathsApart
      <4> QED
        BY <1>17, <2>3, <2>5, <3>1, <4>1 DEF WrittenSoFar, EmitEntry
    <3> QED
      BY <2>3, <3>1, <3>2, <3>3, <3>4 DEF WrittenSoFar
  <2> QED
    BY <1>7, <2>3, <2>4, <2>5 DEF WrittenSoFar
<1>18. CASE EmitResource
  <2>1. PICK f \in File, c \in Content : f = ResourceFile(S) /\ c = ResourceText(job, S)
    BY <1>1, <1>3, FileTypes, TextTypes DEF TypeOK
  <2>2. PICK i : Emit(f, c, "test", i)
    BY <1>18, <2>1 DEF EmitResource
  <2>3. UNCHANGED <<specs, job>> /\ f \in Paths(S) /\ S' = S
    BY <1>3, <1>7, <1>18, <2>1 DEF EmitResource
  <2>4. RegenerationIsIdempotent'
    <3>1. Current(job) => disk[f] = c
      BY <2>1 DEF Current, S
    <3> QED
      BY <1>1, <2>2, <2>3, <3>1, EmitKeepsFinished
  <2>5. ASSUME pc' # "idle", Alone(job) PROVE WrittenSoFar'
    <3>1. pc' = "test" /\ \A g \in File : disk'[g] = IF g = f THEN c ELSE disk[g]
      BY <1>1, <2>2, <2>5, EmitGoesOn
    <3>2. \A k \in DOMAIN S.topics : Rendered(job, S.topics[k])'
      <4> SUFFICES ASSUME NEW k \in DOMAIN S.topics PROVE Rendered(job, S.topics[k])'
        OBVIOUS
      <4>1. /\ SchemaFile(S.topics[k]) \in File \ {f}
            /\ MappingFile(S.topics[k]) \in File \ {f}
        BY <1>1, <1>3, <1>4, <2>1, PathsApart
      <4>2. Rendered(job, S.topics[k])
        BY <1>18, <2>5 DEF WrittenSoFar, EmitResource
      <4> QED
        BY <2>3, <3>1, <4>1, <4>2 DEF Rendered
    <3>3. (disk[ResourceFile(S)] = ResourceText(job, S))'
      BY <2>1, <2>3, <3>1
    <3>4. /\ (disk[ConfigFile(S)] = ConfigText(job, S))'
          /\ (disk[EntryFile(S)] = EntryText(job))'
      <4>1. {ConfigFile(S), EntryFile(S)} \subseteq File \ {f}
        BY <1>1, <1>3, <2>1, FileTypes, OwnPathsApart
      <4> QED
        BY <1>18, <2>3, <2>5, <3>1, <4>1 DEF WrittenSoFar, EmitResource
    <3> QED
      BY <2>3, <3>1, <3>2, <3>3, <3>4 DEF WrittenSoFar
  <2> QED
    BY <1>7, <2>3, <2>4, <2>5 DEF WrittenSoFar
<1>19. CASE EmitTest
  <2>1. PICK f \in File, c \in Content : f = TestFile(S) /\ c = TestText(job, S)
    BY <1>1, <1>3, FileTypes, TextTypes DEF TypeOK
  <2>2. PICK i : Emit(f, c, "validate", i)
    BY <1>19, <2>1 DEF EmitTest
  <2>3. UNCHANGED <<specs, job>> /\ f \in Paths(S) /\ S' = S
    BY <1>3, <1>7, <1>19, <2>1 DEF EmitTest
  <2>4. RegenerationIsIdempotent'
    <3>1. Current(job) => disk[f] = c
      BY <2>1 DEF Current, S
    <3> QED
      BY <1>1, <2>2, <2>3, <3>1, EmitKeepsFinished
  <2>5. ASSUME pc' # "idle", Alone(job) PROVE WrittenSoFar'
    <3>1. pc' = "validate" /\ \A g \in File : disk'[g] = IF g = f THEN c ELSE disk[g]
      BY <1>1, <2>2, <2>5, EmitGoesOn
    <3>2. \A k \in DOMAIN S.topics : Rendered(job, S.topics[k])'
      <4> SUFFICES ASSUME NEW k \in DOMAIN S.topics PROVE Rendered(job, S.topics[k])'
        OBVIOUS
      <4>1. /\ SchemaFile(S.topics[k]) \in File \ {f}
            /\ MappingFile(S.topics[k]) \in File \ {f}
        BY <1>1, <1>3, <1>4, <2>1, PathsApart
      <4>2. Rendered(job, S.topics[k])
        BY <1>19, <2>5 DEF WrittenSoFar, EmitTest
      <4> QED
        BY <2>3, <3>1, <4>1, <4>2 DEF Rendered
    <3>3. (disk[TestFile(S)] = TestText(job, S))'
      BY <2>1, <2>3, <3>1
    <3>4. /\ (disk[ConfigFile(S)] = ConfigText(job, S))'
          /\ (disk[EntryFile(S)] = EntryText(job))'
          /\ (disk[ResourceFile(S)] = ResourceText(job, S))'
      <4>1. {ConfigFile(S), EntryFile(S), ResourceFile(S)} \subseteq File \ {f}
        BY <1>1, <1>3, <2>1, FileTypes, OwnPathsApart
      <4> QED
        BY <1>19, <2>3, <2>5, <3>1, <4>1 DEF WrittenSoFar, EmitTest
    <3> QED
      BY <2>3, <3>1, <3>2, <3>3, <3>4 DEF WrittenSoFar
  <2> QED
    BY <1>7, <2>3, <2>4, <2>5 DEF WrittenSoFar
<1>20. CASE Ready
  <2>1. WrittenSoFar'
    BY <1>20 DEF Ready, EndRun, WrittenSoFar
  <2>2. Alone(job) => Current(job)
    BY <1>20 DEF Ready, WrittenSoFar, Rendered, Current, S, TopicsOf
  <2>3. \A j \in Jobs : settled'[j] => settled[j] \/ j = job
    BY <1>1, <1>20 DEF Ready, TypeOK
  <2>4. UNCHANGED <<specs, disk, job>>
    BY <1>20 DEF Ready
  <2> QED
    BY <2>1, <2>2, <2>3, <2>4 DEF RegenerationIsIdempotent, Alone, Current
<1>21. CASE Invalid
  BY <1>21 DEF Invalid, EndRun, WrittenSoFar, RegenerationIsIdempotent, Alone, Current
<1>22. CASE UNCHANGED vars
  BY <1>22 DEF vars, WrittenSoFar, RegenerationIsIdempotent, Rendered, Alone, Current, S, T
<1> QED
  BY <1>10, <1>11, <1>12, <1>13, <1>14, <1>15, <1>16, <1>17, <1>18, <1>19,
     <1>20, <1>21, <1>22 DEF Next, Terminated

\* A job that was ready once is current for good, whatever is generated, forced,
\* refused or cut short for other jobs, as long as its spec and its test are not
\* edited and no other job shares a path of its (ADR 0004:43).
THEOREM RegenerationFindsNothing == Spec => []RegenerationIsIdempotent
<1>1. Init => MappingAhead /\ WrittenSoFar /\ RegenerationIsIdempotent
  BY DEF Init, MappingAhead, WrittenSoFar, RegenerationIsIdempotent
<1>2. IInv /\ MappingAhead /\ WrittenSoFar /\ RegenerationIsIdempotent /\ [Next]_vars
          => MappingAhead' /\ WrittenSoFar' /\ RegenerationIsIdempotent'
  BY MappingStep, RegenerationStep
<1> QED
  BY <1>1, <1>2, EmittedInOrder, PTL DEF Spec
=============================================================================
