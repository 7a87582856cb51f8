-------------------------------- MODULE Startup --------------------------------
(***************************************************************************)
(* Starting an application (entrypoint.py): loading the spec and its       *)
(* environment overlay (config/loader.py, config/secrets.py), its model    *)
(* (config/models.py), then PipelineRunner.run up to supervision, with the *)
(* startup validation (config/validation.py), the builder's constructor    *)
(* and build (pipeline/builder.py) and start_topic for every topic, with   *)
(* the reader options (KafkaOptions) and the checkpoint of each query.     *)
(*                                                                         *)
(* A spec is abstracted to the problems it has, at most two of them.  Each *)
(* kind of problem is tripped over at a stage of the code; the ones that   *)
(* neither loading nor validation look at are found while topics are being *)
(* started.  Of the source and its cluster only the type, the credentials  *)
(* and the names of the options are kept.                                  *)
(***************************************************************************)
EXTENDS Integers, FiniteSets, KafkaOptions

CONSTANTS
    NumTopics,     \* number of topic entries of the spec
    DlqEnabled,    \* reliability.dlq.enabled
    PlainSource,   \* a source with complete credentials and no options
    SourceInputs   \* other sources and clusters

ASSUME StartupAssumption ==
    /\ NumTopics \in Nat \ {0}
    /\ DlqEnabled \in BOOLEAN
    /\ PlainSource.type \in KafkaType
    /\ AuthProblems(PlainSource.auth) = {}

Topics == 1..NumTopics
App == 0  \* the place of a problem that is not a topic's

-----------------------------------------------------------------------------
(* The kinds of problems, by the stage that trips over them *)

\* read_config_file: no such file, another suffix, not a mapping.
ReadKinds == {"spec_unreadable"}

\* The overlay is there, but not a mapping; without a file there is no overlay.
OverlayKinds == {"overlay_unreadable"}

\* A topic's mapping file is nowhere, or has no list of columns.
MappingFileKinds == {"mapping_file"}

\* ${env:...} not set or ${secret:...} without a slash; a secret that neither
\* the scope nor the environment has.
PlaceholderKinds == {"placeholder"}
SecretKinds == {"secret"}

\* Fields that are unknown, missing or out of range, of a topic or of the
\* application outside its source; and SourceSpec's check that a Kafka source
\* names a cluster.
ModelKinds == {"fields", "source_cluster"}

\* Variant: the sinks that topics override are not looked up.
AppSinkOnly ==
    {"source_type", "sink_type", "repository_type", "publisher_type",
     "checkpoint_root", "dlq_table", "duplicate_name", "parser_type",
     "schema_missing"}

\* What validate_app_spec looks at.
ValidateKinds ==
    {"source_type", "sink_type", "repository_type", "publisher_type",
     "checkpoint_root", "dlq_table", "topic_sink_type", "duplicate_name",
     "parser_type", "schema_missing"}

\* Registry.get of a name that is not registered (moot after validation)
RegistryKinds == {"source_type", "topic_sink_type", "parser_type"} \ ValidateKinds

\* The publishers' constructors: a missing table or url.
PublisherKinds == {"publisher_options"}

\* PipelineBuilder.__init__: the schema repository's options, and the cluster's
\* file, with an overlay and placeholders of its own.
RepositoryKinds == {"repository_options"}
ClusterKinds == {"cluster_config"}

\* What only the auth provider knows of the credentials
AuthKinds == {"auth_required", "sasl_mechanism"}

\* The fixed-width parser's field list; the document a parser needs (validation
\* knows four of the parsers that do, not xml), in the format it needs.
ParserKinds == {"parser_fields"}
NeedsSchemaKinds == {"schema_missing", "xml_schema_missing"} \ ValidateKinds
AvroKinds == {"schema_not_avro"}

\* Rules without the options of their type, compiled before any query starts
RuleKinds == {"quality_options"}

\* An earlier topic with the same safe_name holds the query's name: met where
\* the topic's first query starts.  A topic may also be called as another
\* one's DLQ query: either name may be the one that is taken.
NameKinds == {"safe_name_taken"}
DlqNameKinds == {"dlq_name_taken"}
NamedLikeDlqKinds == {"named_like_dlq"}

\* Variant: the quality rules are compiled after the DLQ query is started.
RulesLast ==
    RegistryKinds \cup AuthKinds \cup ParserKinds
        \cup NeedsSchemaKinds \cup AvroKinds

\* What start_topic trips over before a query runs.
OpenKinds ==
    RegistryKinds \cup AuthKinds \cup ParserKinds
        \cup NeedsSchemaKinds \cup AvroKinds \cup RuleKinds
        \cup (IF DlqEnabled THEN NameKinds \cup DlqNameKinds ELSE {})

\* What it trips over after the DLQ query is running: duplicate mapping targets,
\* a watermark without its keys, a merge sink without a table.
FinishKinds ==
    ({"mapping_targets", "watermark_keys", "merge_target"}
        \cup NamedLikeDlqKinds \cup NameKinds \cup RuleKinds) \ OpenKinds

AppKinds ==
    ReadKinds \cup OverlayKinds \cup PlaceholderKinds \cup SecretKinds
        \cup ModelKinds \cup PublisherKinds \cup RepositoryKinds
        \cup ClusterKinds
        \cup {"source_type", "sink_type", "repository_type", "publisher_type",
              "checkpoint_root"}
        \cup (IF DlqEnabled THEN {"dlq_table"} ELSE {})
NamesTaken ==
    NameKinds \cup (IF DlqEnabled THEN DlqNameKinds \cup NamedLikeDlqKinds ELSE {})
TopicKinds ==
    MappingFileKinds \cup PlaceholderKinds \cup SecretKinds \cup {"fields"}
        \cup ParserKinds \cup AvroKinds \cup RuleKinds \cup NamesTaken
        \cup {"topic_sink_type", "duplicate_name", "parser_type",
              "schema_missing", "xml_schema_missing", "schema_document",
              "mapping_targets", "watermark_keys", "merge_target"}
\* The first topic repeats no name and meets none that is taken.
Problems == [topic : {App}, kind : AppKinds] \cup
            ([topic : Topics, kind : TopicKinds]
                 \ [topic : {1}, kind : {"duplicate_name"} \cup NamesTaken])
\* Credentials belong to the cluster's file.
CredentialProblems(source) ==
    IF source.type \in KafkaType
    THEN [topic : {App}, kind : AuthProblems(source.auth)] ELSE {}


\* The key of the spec a problem lies under.  Lists are one key each; the
\* problems of other files are under none.
Key(f) ==
    CASE f.topic # App -> "topics"
      [] f.kind \in {"publisher_type"} \cup PublisherKinds -> "publishers"
      [] f.kind \in ReadKinds \cup OverlayKinds \cup ClusterKinds
                        \cup AuthKinds -> "elsewhere"
      [] OTHER -> f.kind
Keys == {Key(f) : f \in Problems} \ {"elsewhere"}

VARIABLES
    base,         \* the problems of the spec file and of what it refers to
    overlay,      \* of the environment: the keys it sets, with their problems
    validateOnly, \* --validate-only
    source,       \* the source's type and options, the cluster's credentials
    sharing,      \* the topics whose sink names the same checkpoint_location
    spec,         \* the problems of the spec as loaded so far
    pc,           \* the stage of the start-up
    cur,          \* the topic the current loop is at
    reported,     \* the problems of the SpecValidationError
    cause,        \* the one problem that raised at another stage
    listener,     \* the streaming listener is attached
    announced,    \* run_started was audited
    running,      \* the queries started: <<topic, role>>
    active,       \* the topics whose queries are in _active
    reader        \* the reader options of the streams opened

input == <<base, overlay, validateOnly, source, sharing>>
queries == <<running, active, reader>>
vars == <<input, spec, pc, cur, reported, cause, listener, announced, queries>>

\* What the code trips over at the stage it is at: problems of the application
\* and of the topic of the loop; placeholders are looked for everywhere.
Hit ==
    LET kinds == CASE pc = "read"         -> ReadKinds
                   [] pc = "overlay"      -> OverlayKinds
                   [] pc = "mappings"     -> MappingFileKinds
                   [] pc = "placeholders" -> PlaceholderKinds \cup SecretKinds
                   [] pc = "publishers"   -> PublisherKinds
                   [] pc = "builder"      -> RepositoryKinds \cup ClusterKinds
                   [] pc = "resolve"      -> {"schema_document"}
                   [] pc = "open"         -> OpenKinds
                   [] pc = "finish"       -> FinishKinds
                   [] OTHER               -> {}
    IN  {f \in spec : f.kind \in kinds
                         /\ (f.topic \in {App, cur} \/ pc = "placeholders")}

NoOverlay == [keys |-> {}, problems |-> {}]
Overrides(src) ==
    src.cluster \cup src.options \cup UNION {src.topic[t] : t \in Topics}

\* Bounds: at most two problems, or one and a key in the overlay, one and other
\* credentials or sinks that share a checkpoint, or options at any levels.
Init ==
    /\ \/ /\ base \in {{}} \cup {{f, g} : f \in Problems, g \in Problems}
          /\ overlay = NoOverlay
          /\ source = PlainSource
          /\ sharing \in IF Cardinality(base) = 2 THEN {{}} ELSE {{}, Topics}
       \/ /\ base \in {{}} \cup {{f} : f \in Problems}
          /\ \E key \in Keys :
                overlay \in [keys : {{key}},
                             problems : {{}} \cup {{f} : f \in
                                 {g \in Problems : Key(g) = key}}]
          /\ source = PlainSource
          /\ sharing = {}
       \/ /\ overlay = NoOverlay
          /\ sharing = {}
          /\ source \in SourceInputs
          /\ base \in {CredentialProblems(source)} \cup
                 IF Overrides(source) # {} THEN {}
                 ELSE {CredentialProblems(source) \cup {f} : f \in
                          {g \in Problems : g.kind \notin {"source_type", "source_cluster"}}}
    /\ validateOnly \in BOOLEAN
    /\ spec = base
    /\ pc = "read"
    /\ cur = 1
    /\ reported = {}
    /\ cause = {}
    /\ listener = FALSE
    /\ announced = FALSE
    /\ running = {}
    /\ active = {}
    /\ reader = <<>>

-----------------------------------------------------------------------------
(* Loading *)

\* Stages that only go on when nothing is wrong
GoesOn(from, to) ==
    /\ pc = from
    /\ Hit = {}
    /\ pc' = to
    /\ UNCHANGED <<input, reported, cause, queries>>

ReadSpec ==
    /\ GoesOn("read", "overlay")
    /\ UNCHANGED <<spec, cur, listener, announced>>

\* Variant: lists are appended to.
MergeAppending == spec \cup overlay.problems

\* deep_merge: the overlay's value of a key wins, and a list is one value.
DeepMerge == {f \in spec : Key(f) \notin overlay.keys} \cup overlay.problems

ApplyOverlay ==
    /\ GoesOn("overlay", "mappings")
    /\ spec' = DeepMerge
    /\ UNCHANGED <<cur, listener, announced>>

\* The topics in their order
LoopEnds == cur = NumTopics
NextTopic == IF LoopEnds THEN 1 ELSE cur + 1

ExpandMappingFile ==
    /\ GoesOn("mappings", IF LoopEnds THEN "placeholders" ELSE "mappings")
    /\ cur' = NextTopic
    /\ UNCHANGED <<spec, listener, announced>>

ResolvePlaceholders ==
    /\ GoesOn("placeholders", "model")
    /\ UNCHANGED <<spec, cur, listener, announced>>

\* The model's errors.  SourceSpec is checked as a whole only when its fields,
\* the topics among them, are right.
ModelErrors ==
    LET fields == {f \in spec : f.kind = "fields"}
    IN  fields \cup
        {f \in spec : f.kind = "source_cluster" /\ \A g \in fields : g.topic = App}

\* AppSpec.model_validate raises with all the model's errors.
RejectModel ==
    /\ pc = "model"
    /\ reported' = ModelErrors
    /\ reported' # {}
    /\ pc' = "raised"
    /\ UNCHANGED <<input, spec, cur, cause, listener, announced, queries>>

AcceptModel ==
    /\ ModelErrors = {}
    /\ GoesOn("model", "validate")
    /\ UNCHANGED <<spec, cur, listener, announced>>

-----------------------------------------------------------------------------
(* Validating and starting *)

\* validate_app_spec raises with every problem it found.
ReportProblems ==
    /\ pc = "validate"
    /\ reported' = {f \in spec : f.kind \in ValidateKinds}
    /\ reported' # {}
    /\ pc' = "raised"
    /\ UNCHANGED <<input, spec, cur, cause, listener, announced, queries>>

\* With --validate-only that is all.
PassValidation ==
    /\ \A f \in spec : f.kind \notin ValidateKinds
    /\ GoesOn("validate", IF validateOnly THEN "valid" ELSE "publishers")
    /\ UNCHANGED <<spec, cur, listener, announced>>

\* build_publishers, then addListener
AttachListener ==
    /\ GoesOn("publishers", "builder")
    /\ listener' = TRUE
    /\ UNCHANGED <<spec, cur, announced>>

CreateBuilder ==
    /\ GoesOn("builder", "resolve")
    /\ UNCHANGED <<spec, cur, listener, announced>>

\* build(): the schema of one topic after the other
ResolveSchema ==
    /\ GoesOn("resolve", IF LoopEnds THEN "announce" ELSE "resolve")
    /\ cur' = NextTopic
    /\ UNCHANGED <<spec, listener, announced>>

Announce ==
    /\ GoesOn("announce", "open")
    /\ announced' = TRUE
    /\ UNCHANGED <<spec, cur, listener>>

\* Variant: the default location is the root for every topic.
CheckpointOfApp(t, role) ==
    IF role = "main" /\ t \in sharing THEN <<"sink">> ELSE <<"root", role>>

\* The location the sink names, or the pipeline's directory under the root; the
\* DLQ never uses the sink's.
Checkpoint(t, role) ==
    IF role = "main" /\ t \in sharing THEN <<"sink">> ELSE <<"root", t, role>>

\* Spark takes a query for a restart of the one that runs on its checkpoint, and
\* stops that one (spark.sql.streaming.stopActiveRunOnRestart, on by default).
StartQuery(t, role) ==
    running' = {q \in running : Checkpoint(q[1], q[2]) # Checkpoint(t, role)}
                   \cup {<<t, role>>}

\* start_topic up to the quality rules, then the DLQ query if there is one
OpenStream ==
    /\ pc = "open"
    /\ Hit = {}
    /\ reader' = Update(reader, [t \in {cur} |-> ReaderOptions(source, t)])
    /\ IF DlqEnabled THEN StartQuery(cur, "dlq") ELSE UNCHANGED running
    /\ pc' = "finish"
    /\ UNCHANGED <<input, spec, cur, reported, cause, listener, announced, active>>

\* mapping, watermark and sink: the main query runs, _active gets the list
StartMain ==
    /\ pc = "finish"
    /\ Hit = {}
    /\ StartQuery(cur, "main")
    /\ active' = active \cup {cur}
    /\ pc' = IF LoopEnds THEN "supervise" ELSE "open"
    /\ cur' = NextTopic
    /\ UNCHANGED <<input, spec, reported, cause, listener, announced, reader>>

\* A problem met at one of the other stages leaves the program as an exception;
\* nothing that was started or attached is undone.
Raise ==
    /\ \E f \in Hit : cause' = {f}
    /\ pc' = "raised"
    /\ UNCHANGED <<input, spec, cur, reported, listener, announced, queries>>

\* The program has raised, has validated or has reached _supervise.
Terminated == pc \in {"raised", "valid", "supervise"} /\ UNCHANGED vars

Next ==
    \/ ReadSpec \/ ApplyOverlay \/ ExpandMappingFile \/ ResolvePlaceholders
    \/ RejectModel \/ AcceptModel
    \/ ReportProblems \/ PassValidation \/ AttachListener \/ CreateBuilder
    \/ ResolveSchema \/ Announce \/ OpenStream \/ StartMain \/ Raise
    \/ Terminated

Spec == Init /\ [][Next]_vars

-----------------------------------------------------------------------------
(* Properties *)

\* Found by the loader, one at a time
LoadKinds == {"spec_unreadable", "overlay_unreadable", "mapping_file",
              "placeholder", "secret"}

\* Found by validate_app_spec
Foreseen == {"source_type", "sink_type", "topic_sink_type", "repository_type",
             "publisher_type", "checkpoint_root", "dlq_table", "duplicate_name",
             "parser_type", "schema_missing"}

\* The problems that count in the environment: those of the overlay, and those
\* of the spec file that the overlay does not replace.
Effective ==
    {f \in Problems : \/ f \in overlay.problems
                      \/ f \in base /\ (Key(f) = "elsewhere" \/ overlay.keys # {Key(f)})}

\* A refusal by the model or by validation names everything that the one or the
\* other knows, of every topic, after the overlay (loader.py:97-104,
\* validation.py:86-91); except that a source without a cluster stays hidden
\* behind the errors of its topics.
ReportedTogether ==
    LET fields == {f \in Effective : f.kind = "fields"}
        cluster == {f \in Effective : f.kind = "source_cluster"}
    IN  pc = "raised" /\ cause = {} =>
            reported = CASE fields \cap [topic : Topics, kind : {"fields"}] # {} -> fields
                         [] fields \subseteq [topic : {App}, kind : {"fields"}]
                                /\ fields \cup cluster # {} -> fields \cup cluster
                         [] OTHER -> {f \in Effective : f.kind \in Foreseen}

\* A spec with a problem that loading, the model, validation or a schema's
\* resolution names, in whatever topic, never starts a query, not even for the
\* topics before it; --validate-only starts none at all; and no query runs of
\* which the audit table does not know the run.
ForeseenNeverStarts ==
    \/ validateOnly
    \/ ~announced
    \/ \E f \in Effective :
          f.kind \in LoadKinds \cup {"fields", "source_cluster", "schema_document"}
                         \cup Foreseen
    => running = {}

\* A query started but not in _active is the DLQ query of the topic at hand:
\* its start is still going on, or its mapping, watermark or sink raised.
OnlyLateProblemsOrphan ==
    \A q \in running : q[1] \notin active =>
        /\ q = <<cur, "dlq">>
        /\ pc = "raised" => \A f \in cause :
              f.kind \in {"mapping_targets", "watermark_keys", "merge_target",
                          "named_like_dlq"}

\* When supervision begins every topic's queries run and are listened to, on
\* checkpoints of their own: none has stopped an earlier one for a restart of
\* it.  Sinks that name one checkpoint_location are the exception: of their main
\* queries only the last one is still running.
SupervisedAllRun ==
    pc = "supervise" =>
        /\ listener
        /\ active = Topics
        /\ running = {<<t, "main">> : t \in {u \in Topics : u \notin sharing \/
                                             \A v \in sharing : v <= u}}
                     \cup (IF DlqEnabled THEN Topics \X {"dlq"} ELSE {})

\* Every stream is opened with exactly the options somebody sets for it, each
\* with the value of the last level in the documented order (kafka.py:3-8):
\* a topic's options reach no other topic, and broker list and topic name are
\* nobody's to override.
PrecedenceAsDocumented ==
    \A t \in DOMAIN reader :
        LET setBy == [default |-> ProviderDefaults(source.type),
                      auth |-> AuthOptionNames(source.auth),
                      cluster |-> source.cluster,
                      source |-> source.options,
                      topic |-> source.topic[t],
                      fixed |-> Fixed]
            order == IF source.type \in KafkaType
                     THEN <<"default", "auth", "cluster", "source", "topic", "fixed">>
                     ELSE <<"default", "source", "topic">>
            Sets(i, option) == option \in setBy[order[i]]
        IN  /\ DOMAIN reader[t] = UNION {setBy[order[i]] : i \in DOMAIN order}
            /\ \A i \in DOMAIN order : \A option \in setBy[order[i]] :
                  reader[t][option] = order[i]
                      <=> \A j \in DOMAIN order : j > i => ~Sets(j, option)
=============================================================================
