------------------------------- MODULE Scaffold -------------------------------
(***************************************************************************)
(* The code generator (cli/scaffold.py, dfx job add in cli/main.py): a     *)
(* functional spec is rendered into the files of a job, one write after    *)
(* the other and without rollback.  Runs of the generator follow one       *)
(* another; between them the developers edit the specs and extend the      *)
(* generated tests, and a run may die at any write.                        *)
(*                                                                         *)
(* A file is the path it is written to.  Its content keeps what decides    *)
(* whether two renderings are equal and which files it refers to: all      *)
(* templates but schema.ddl.j2 name the spec they are rendered from.       *)
(*                                                                         *)
(* Abstractions: an edit leaves a job's name, domain and platform and its  *)
(* topics' subjects alone (with other ones it is another job, and what the *)
(* old one generated stays on disk), and is made between two runs (one run *)
(* reads its spec once).                                                   *)
(***************************************************************************)
EXTENDS Integers, Sequences

CONSTANTS
    Jobs,      \* the functional specs of the project
    Domains, Platforms, Snakes, Subjects, Names,
    Texts,     \* what the field list, or the mapping, of a topic may be
    Bodies,    \* what all the rest of a spec may be
    Drafts,    \* the projects to consider: the first spec of every job
    MaxRuns,   \* bound: runs of the generator
    MaxMishaps \* bound: edits, extended tests and runs that die

NoMapping == "no mapping"

\* "malformed": no FunctionalSpec; "invalid": a FunctionalSpec whose job config
\* validate_app_spec refuses, for instance for its parser's name.
Unfit == {"malformed", "invalid"}

Topic == [name : Names, subject : Subjects, fields : Texts,
          mapping : Texts \cup {NoMapping}]

FunctionalSpec ==
    [domain : Domains, platform : Platforms, snake : Snakes,
     topics : Seq(Topic), body : Bodies \cup Unfit]

ASSUME DraftsAssumption == Drafts \subseteq [Jobs -> FunctionalSpec]
ASSUME BoundsAssumption == MaxRuns \in Nat /\ MaxMishaps \in Nat

\* The files the generator writes.
SchemaFile(t)   == <<"v1.ddl", t.subject>>
MappingFile(t)  == <<"v1.mapping.yaml", t.subject>>
ConfigFile(s)   == <<"config", s.domain, s.snake>>
EntryFile(s)    == <<"entry", s.domain, s.platform>>
ResourceFile(s) == <<"job.yml", s.domain, s.snake>>
TestFile(s)     == <<"test", s.snake>>

File ==
    ({"v1.ddl", "v1.mapping.yaml"} \X Subjects)
        \cup ({"config", "job.yml"} \X Domains \X Snakes)
        \cup ({"entry"} \X Domains \X Platforms)
        \cup ({"test"} \X Snakes)

Word == Jobs \cup Names \cup Texts \cup Bodies \cup Unfit
             \cup {NoMapping, "extended", "torn"}
Content == [text : Seq(Word), needs : SUBSET File]

Absent == [text |-> <<>>, needs |-> {}]

\* What a write leaves that was cut short.
Torn == [text |-> <<"torn">>, needs |-> {}]

VARIABLES
    specs,    \* specs/**/*.md
    disk,     \* conf/jobs, resources, tests/jobs
    job,      \* the job the generator is run for
    force,    \* --force
    pc,       \* the artifact add_job emits next, "idle" between runs
    topic,    \* its position in the loop over the topics
    settled,  \* history: jobs whose last run ended "ready" and that nobody
              \* has edited, extended or cut short since
    runs, mishaps

vars == <<specs, disk, job, force, pc, topic, settled, runs, mishaps>>

-----------------------------------------------------------------------------
(* The templates *)

SchemaText(t) == [text |-> <<t.fields>>, needs |-> {}]

\* Its head names the spec's sink table, which is part of the body.
MappingText(j, s, t) ==
    [text |-> <<j, s.body, t.name, t.mapping>>, needs |-> {}]

TopicsOf(s) == {s.topics[i] : i \in DOMAIN s.topics}

ConfigText(j, s) ==
    [text  |-> <<j, s.body>>,
     needs |-> {SchemaFile(t) : t \in TopicsOf(s)} \cup
               {MappingFile(t) : t \in {u \in TopicsOf(s) : u.mapping # NoMapping}}]

EntryText(j) == [text |-> <<j>>, needs |-> {}]

ResourceText(j, s) ==
    [text |-> <<j>>, needs |-> {ConfigFile(s), EntryFile(s)}]

TestText(j, s) == [text |-> <<j>>, needs |-> {ConfigFile(s)}]

-----------------------------------------------------------------------------
(* add_job *)

S == specs[job]
T == S.topics[topic]

\* Variant: returns from inside the loop.
AfterFirstTopic(s, i) == IF i = 0 /\ s.topics # <<>> THEN "v1.ddl" ELSE "config"

\* Where the loop over the topics is after topic number i, and at first.
AfterTopic(s, i) == IF i < Len(s.topics) THEN "v1.ddl" ELSE "config"

Init ==
    /\ specs \in Drafts
    /\ disk = [f \in File |-> Absent]
    /\ job \in Jobs
    /\ force = FALSE
    /\ pc = "idle"
    /\ topic = 1
    /\ settled = [j \in Jobs |-> FALSE]
    /\ runs = 0
    /\ mishaps = 0

\* dfx job add: parse_functional_spec, then add_job.
Begin(j) ==
    /\ pc = "idle"
    /\ runs < MaxRuns
    /\ specs[j].body # "malformed"
    /\ job' = j
    /\ force' \in BOOLEAN
    /\ pc' = AfterTopic(specs[j], 0)
    /\ topic' = 1
    /\ runs' = runs + 1
    /\ UNCHANGED <<specs, disk, settled, mishaps>>

\* SpecValidationError: nothing is touched.
Reject(j) ==
    /\ pc = "idle"
    /\ runs < MaxRuns
    /\ specs[j].body = "malformed"
    /\ runs' = runs + 1
    /\ UNCHANGED <<specs, disk, job, force, pc, topic, settled, mishaps>>

EndRun ==
    /\ pc' = "idle"
    /\ force' = FALSE
    /\ topic' = 1

\* Variant: overwrites without being told to.
WriteAlways(f, c) == disk' = [disk EXCEPT ![f] = c]

\* Variant: takes any file that exists for current.
WriteMissing(f, c) ==
    disk' = IF force \/ disk[f] = Absent THEN [disk EXCEPT ![f] = c] ELSE disk

\* _emit when it returns: a file that is current already is skipped.
Write(f, c) ==
    /\ force \/ disk[f] \in {Absent, c}
    /\ disk' = [disk EXCEPT ![f] = c]

\* _emit: it returns and add_job goes on at `next`; or it refuses; or the run
\* dies before the file is opened, or with the file cut short.
Emit(f, c, next, i) ==
    \/ /\ Write(f, c)
       /\ pc' = next
       /\ topic' = i
       /\ UNCHANGED <<force, settled, mishaps>>
    \/ /\ ~force
       /\ disk[f] \notin {Absent, c}
       /\ EndRun
       /\ UNCHANGED <<disk, settled, mishaps>>
    \/ /\ mishaps < MaxMishaps
       /\ mishaps' = mishaps + 1
       /\ EndRun
       /\ \/ UNCHANGED <<disk, settled>>
          \/ /\ force \/ disk[f] = Absent
             /\ disk' = [disk EXCEPT ![f] = Torn]
             /\ settled' = [settled EXCEPT ![job] = FALSE]

EmitSchema ==
    /\ pc = "v1.ddl"
    /\ \/ /\ T.mapping # NoMapping
          /\ Emit(SchemaFile(T), SchemaText(T), "v1.mapping.yaml", topic)
       \/ /\ T.mapping = NoMapping
          /\ Emit(SchemaFile(T), SchemaText(T), AfterTopic(S, topic), topic + 1)
    /\ UNCHANGED <<specs, job, runs>>

EmitMapping ==
    /\ pc = "v1.mapping.yaml"
    /\ Emit(MappingFile(T), MappingText(job, S, T), AfterTopic(S, topic), topic + 1)
    /\ UNCHANGED <<specs, job, runs>>

EmitConfig ==
    /\ pc = "config"
    /\ Emit(ConfigFile(S), ConfigText(job, S), "entry", topic)
    /\ UNCHANGED <<specs, job, runs>>

EmitEntry ==
    /\ pc = "entry"
    /\ Emit(EntryFile(S), EntryText(job), "job.yml", topic)
    /\ UNCHANGED <<specs, job, runs>>

EmitResource ==
    /\ pc = "job.yml"
    /\ Emit(ResourceFile(S), ResourceText(job, S), "test", topic)
    /\ UNCHANGED <<specs, job, runs>>

EmitTest ==
    /\ pc = "test"
    /\ Emit(TestFile(S), TestText(job, S), "validate", topic)
    /\ UNCHANGED <<specs, job, runs>>

\* _validate, or --skip-validate: "Job ... is ready."
Ready ==
    /\ pc = "validate"
    /\ settled' = [settled EXCEPT ![job] = TRUE]
    /\ EndRun
    /\ UNCHANGED <<specs, disk, job, runs, mishaps>>

\* _validate finds the config invalid: exit 1, the files stay.
Invalid ==
    /\ pc = "validate"
    /\ S.body = "invalid"
    /\ EndRun
    /\ UNCHANGED <<specs, disk, job, settled, runs, mishaps>>

-----------------------------------------------------------------------------
(* The developers *)

Revisions(s) ==
    {[s EXCEPT !.body = b] : b \in Bodies \cup Unfit} \cup
    {[s EXCEPT !.topics[i].fields = x] : i \in DOMAIN s.topics, x \in Texts} \cup
    {[s EXCEPT !.topics[i].mapping = x] :
        i \in DOMAIN s.topics, x \in Texts \cup {NoMapping}}

Edit(j) ==
    /\ pc = "idle"
    /\ mishaps < MaxMishaps
    /\ \E s \in Revisions(specs[j]) \ {specs[j]} :
            specs' = [specs EXCEPT ![j] = s]
    /\ settled' = [settled EXCEPT ![j] = FALSE]
    /\ mishaps' = mishaps + 1
    /\ UNCHANGED <<disk, job, force, pc, topic, runs>>

\* The generated test is "safe to extend with job-specific assertions".
Extend(j) ==
    /\ pc = "idle"
    /\ mishaps < MaxMishaps
    /\ disk[TestFile(specs[j])] = TestText(j, specs[j])
    /\ disk' = [disk EXCEPT ![TestFile(specs[j])].text = <<j, "extended">>]
    /\ settled' = [settled EXCEPT ![j] = FALSE]
    /\ mishaps' = mishaps + 1
    /\ UNCHANGED <<specs, job, force, pc, topic, runs>>

Terminated == pc = "idle" /\ runs = MaxRuns /\ UNCHANGED vars

Next ==
    \/ \E j \in Jobs : Begin(j) \/ Reject(j) \/ Edit(j) \/ Extend(j)
    \/ EmitSchema \/ EmitMapping \/ EmitConfig \/ EmitEntry \/ EmitResource
    \/ EmitTest \/ Ready \/ Invalid
    \/ Terminated

Spec == Init /\ [][Next]_vars

-----------------------------------------------------------------------------
(* Properties *)

TypeOK ==
    /\ specs \in [Jobs -> FunctionalSpec]
    /\ disk \in [File -> Content]
    /\ job \in Jobs
    /\ force \in BOOLEAN
    /\ pc \in {"idle", "v1.ddl", "v1.mapping.yaml", "config", "entry", "job.yml",
               "test", "validate"}
    /\ topic \in Nat \ {0}
    /\ settled \in [Jobs -> BOOLEAN]
    /\ runs \in Nat
    /\ mishaps \in Nat

Exists(f) == disk[f] # Absent

\* Wherever a run was refused or died, no generated file on disk refers to a
\* file that is not: a job config to its schemas and mappings, a job resource to
\* its config and entry point, so a bundle that is deployed never dangles.
NoDanglingReference ==
    \A f \in File : \A g \in disk[f].needs : Exists(g)

\* Every file of the job is what add_job would write now.
Current(j) ==
    LET s == specs[j]
    IN  /\ \A t \in TopicsOf(s) :
              /\ disk[SchemaFile(t)] = SchemaText(t)
              /\ t.mapping # NoMapping =>
                    disk[MappingFile(t)] = MappingText(j, s, t)
        /\ disk[ConfigFile(s)] = ConfigText(j, s)
        /\ disk[EntryFile(s)] = EntryText(j)
        /\ disk[ResourceFile(s)] = ResourceText(j, s)
        /\ disk[TestFile(s)] = TestText(j, s)

Paths(s) ==
    {ConfigFile(s), EntryFile(s), ResourceFile(s), TestFile(s)} \cup
    UNION {{SchemaFile(t), MappingFile(t)} : t \in TopicsOf(s)}

\* No other job, and no second topic of this one, writes to a path of the job.
Alone(j) ==
    /\ \A k \in Jobs \ {j} : Paths(specs[j]) \cap Paths(specs[k]) = {}
    /\ \A m, n \in DOMAIN specs[j].topics :
            specs[j].topics[m].subject = specs[j].topics[n].subject => m = n

\* "Regeneration is idempotent (unchanged output = skip)" (ADR 0004:43), which
\* the drift check of the CI rests on: as long as its spec is unchanged, another
\* run for a job that was ready once finds every file current, whatever is
\* generated, refused or cut short for other jobs; provided no path is shared.
RegenerationIsIdempotent ==
    \A j \in Jobs : settled[j] /\ Alone(j) => Current(j)

\* Without --force no run, for whatever job, refused, cut short or complete,
\* makes the files of a finished job differ from its spec, shared paths or not.
CurrentUntilForced ==
    [][\A j \in Jobs :
          settled[j] /\ settled'[j] /\ Current(j) /\ ~force => Current(j)']_vars

-----------------------------------------------------------------------------
(* The inductive invariant behind NoDanglingReference *)

\* What the part of add_job that is behind the run has put on disk.
TopicDone(t) ==
    /\ Exists(SchemaFile(t))
    /\ t.mapping # NoMapping => Exists(MappingFile(t))

Emitted ==
    /\ pc \in {"v1.ddl", "v1.mapping.yaml"} =>
            /\ topic \in DOMAIN S.topics
            /\ \A i \in DOMAIN S.topics : i < topic => TopicDone(S.topics[i])
    /\ pc = "v1.mapping.yaml" => Exists(SchemaFile(T))
    /\ pc = "config" => \A t \in TopicsOf(S) : TopicDone(t)
    /\ pc \in {"entry", "job.yml", "test"} => Exists(ConfigFile(S))
    /\ pc = "job.yml" => Exists(EntryFile(S))

IInv == TypeOK /\ Emitted /\ NoDanglingReference
=============================================================================
