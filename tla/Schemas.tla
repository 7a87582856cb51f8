-------------------------------- MODULE Schemas --------------------------------
(***************************************************************************)
(* Schema management: the versioned documents of one subject               *)
(* (schema/repository.py), what check_compatibility says of a change       *)
(* (schema/evolution.py), and the resolution of the topics' schema         *)
(* references when a run is built (schema/resolver.py, pipeline/builder.py *)
(* build).  Documents are released and rewritten at any moment, also while *)
(* a run is being built; runs follow one another.                          *)
(*                                                                         *)
(* Nothing in the program calls check_compatibility (evolution.py:11       *)
(* leaves it to the deployment tooling), so no change is kept from         *)
(* happening; `ungated` remembers whether one was made that the check      *)
(* would have refused.                                                     *)
(*                                                                         *)
(* Abstractions: one subject; no avro document (it has no StructType, so   *)
(* the gate cannot look at one), thus JSON ones only in the registry; a    *)
(* version is written with or without a "v", not with leading zeros.       *)
(***************************************************************************)
EXTENDS Integers

CONSTANTS
    Repositories, \* "file", which volume is another name of, and "registry"
    Columns,     \* the columns documents may have
    Types,       \* their types
    Documents,   \* what documents may declare: columns with type and nullability
    Modes,       \* the compatibility modes to consider
    NumTopics,   \* topics with a schema reference to the subject
    MaxChanges,  \* bound: releases and rewritings of documents
    MaxRuns      \* bound: runs of the application

ASSUME SchemasAssumption ==
    /\ Repositories \subseteq {"file", "registry"}
    /\ Modes \subseteq {"none", "backward", "forward", "full"}
    /\ NumTopics \in Nat \ {0} /\ MaxChanges \in Nat /\ MaxRuns \in Nat

Formats == {"ddl", "json_schema"}
Versions == 1..(MaxChanges + 1)

\* schema_ref.version is a text, "latest", "2" or "v2": it becomes a number only
\* in fetch.
Latest == [prefix |-> "", num |-> 0]
Texts == {Latest} \cup [prefix : {"", "v"}, num : Versions]

Field == [type : Types, nullable : BOOLEAN]
Fields == UNION {[cols -> Field] : cols \in SUBSET Columns}

ASSUME DocumentsAssumption == Documents \subseteq Fields

\* A file of the subject's directory: the number in its name, its suffix and
\* the columns it declares.
File == [num : Versions, format : Formats, fields : Documents]
Ref == [version : Texts, format : Formats]

VARIABLES
    repository, \* schema_management.repository
    mode,       \* the subject's compatibility mode
    files,      \* the files of the subject's directory
    disputed,   \* history: the numbers a second file has claimed
    rewritten,  \* history: the numbers of the files rewritten in place
    changed,    \* bound: releases and rewritings so far
    ungated,    \* history: a change of the newest document would not pass the gate
    refs,       \* schema_ref of every topic
    run,        \* the number of the current run
    cur,        \* the topic build() is at, 0 when no run is being built
    cache,      \* SchemaResolver._cache: version as written -> document
    newest,     \* history: the newest version when the run began
    seen        \* history: every resolution, with its run and topic

changes == <<files, changed, disputed, rewritten, ungated>>
vars == <<repository, mode, changes, refs, run, cur, cache, newest, seen>>

-----------------------------------------------------------------------------
(* repository.py *)

\* candidates: of several files with one number the last one listed wins, and
\* the order of the listing is the file system's.
Candidates(n) == {f \in files : f.num = n}
Numbers == {f.num : f \in files}

\* max(candidates)
NewestNumber == CHOOSE n \in Numbers : \A k \in Numbers : k <= n

\* Variant: falls back to the newest version when the pinned one is missing.
FetchOrNewest(text) ==
    IF text.num \in Numbers THEN Candidates(text.num) ELSE Candidates(NewestNumber)

\* fetch: what it may return; nothing when it raises.  The file repository strips
\* the "v" and converts, the registry is asked for the text itself and knows
\* numbers and "latest".
Fetch(text) ==
    IF text = Latest THEN Candidates(NewestNumber)
    ELSE IF repository = "registry" /\ text.prefix = "v" THEN {}
    ELSE Candidates(text.num)

-----------------------------------------------------------------------------
(* evolution.py *)

\* spark_schema: the conversion of a JSON schema leaves out which properties
\* are required.
StructOf(file) ==
    IF file.format = "ddl" THEN file.fields
    ELSE [c \in DOMAIN file.fields |->
             [type |-> file.fields[c].type, nullable |-> TRUE]]

Added(old, new) == DOMAIN new \ DOMAIN old

\* Variant: does not compare the types of the fields that stay.
BackwardByName(old, new) ==
    /\ DOMAIN old \subseteq DOMAIN new
    /\ \A c \in Added(old, new) : new[c].nullable

Backward(old, new) ==
    /\ DOMAIN old \subseteq DOMAIN new
    /\ \A c \in DOMAIN old : new[c].type = old[c].type
    /\ \A c \in Added(old, new) : new[c].nullable

Forward(old, new) ==
    /\ \A c \in Added(old, new) : new[c].nullable
    /\ \A c \in Added(new, old) : old[c].nullable

\* check_compatibility raises no error.
Compatible(old, new) ==
    /\ mode \in {"backward", "full"} => Backward(old, new)
    /\ mode \in {"forward", "full"} => Forward(old, new)

-----------------------------------------------------------------------------
\* The documents a repository can hold
Holds(file) == repository = "registry" => file.format = "json_schema"

Init ==
    /\ repository \in Repositories
    /\ mode \in Modes
    /\ \E f \in File : f.num = 1 /\ Holds(f) /\ files = {f}
    /\ disputed = {}
    /\ rewritten = {}
    /\ changed = 0
    /\ ungated = FALSE
    /\ refs \in [1..NumTopics -> Ref]
    /\ run = 0
    /\ cur = 0
    /\ cache = <<>>
    /\ newest = 0
    /\ seen = {}

\* The gate would let the newest document be followed by this one.
Gate(file) ==
    \A old \in Candidates(NewestNumber) : Compatible(StructOf(old), StructOf(file))

\* Someone releases a document: the next version, or by mistake a file with a
\* number that is there under another name (v2.ddl and 2.json).  The registry
\* gives out the numbers itself.
Publish(file) ==
    /\ changed < MaxChanges
    /\ changed' = changed + 1
    /\ file \notin files
    /\ Holds(file)
    /\ \/ file.num = NewestNumber + 1
       \/ file.num \in Numbers /\ repository = "file"
    /\ files' = files \cup {file}
    /\ disputed' = IF file.num \in Numbers THEN disputed \cup {file.num} ELSE disputed
    /\ ungated' = (ungated \/ (file.num >= NewestNumber /\ ~Gate(file)))
    /\ UNCHANGED <<repository, mode, rewritten, refs, run, cur, cache, newest, seen>>

\* A file gets other columns in place: by hand, or v1.ddl by the generator's
\* --force for another job of the subject.
Rewrite(file, fields) ==
    LET new == [file EXCEPT !.fields = fields]
    IN  /\ changed < MaxChanges
        /\ changed' = changed + 1
        /\ repository = "file"
        /\ new \notin files
        /\ files' = (files \ {file}) \cup {new}
        /\ rewritten' = rewritten \cup {file.num}
        /\ ungated' = (ungated \/ (file.num = NewestNumber /\ ~Gate(new)))
        /\ UNCHANGED <<repository, mode, disputed, refs, run, cur, cache, newest, seen>>

\* A run creates its builder, and that its resolver.
BeginBuild ==
    /\ cur = 0
    /\ run < MaxRuns
    /\ run' = run + 1
    /\ cur' = 1
    /\ cache' = <<>>
    /\ newest' = NewestNumber
    /\ UNCHANGED <<repository, mode, changes, refs, seen>>

\* The loop of build() goes on, or ends.
NextTopic == IF cur < NumTopics THEN cur + 1 ELSE 0

\* build() resolves a topic's reference to this file.
Resolved(file) ==
    /\ seen' = seen \cup
         {[run |-> run, topic |-> cur, ref |-> refs[cur], file |-> file]}
    /\ cur' = NextTopic
    /\ UNCHANGED <<repository, mode, changes, refs, run, newest>>

\* The reference is in the cache.  Subject and version are looked up, the version
\* as it is written: "v2" does not find what "2" got.  The format the topic asks
\* for is not compared.
ResolveCached ==
    /\ cur # 0
    /\ refs[cur].version \in DOMAIN cache
    /\ Resolved(cache[refs[cur].version])
    /\ UNCHANGED cache

\* Variant: nothing is remembered.
FetchUncached(file) ==
    /\ cur # 0
    /\ refs[cur].version \notin DOMAIN cache
    /\ file \in Fetch(refs[cur].version)
    /\ file.format = refs[cur].format
    /\ Resolved(file)
    /\ UNCHANGED cache

\* Variant: the format is not compared.
FetchAnyFormat(file) ==
    /\ cur # 0
    /\ refs[cur].version \notin DOMAIN cache
    /\ file \in Fetch(refs[cur].version)
    /\ Resolved(file)
    /\ cache' = [v \in DOMAIN cache \cup {refs[cur].version} |->
                    IF v \in DOMAIN cache THEN cache[v] ELSE file]

\* The repository has the document, in the format the topic asks for.
ResolveFetched(file) ==
    /\ cur # 0
    /\ refs[cur].version \notin DOMAIN cache
    /\ file \in Fetch(refs[cur].version)
    /\ file.format = refs[cur].format
    /\ Resolved(file)
    /\ cache' = [v \in DOMAIN cache \cup {refs[cur].version} |->
                    IF v \in DOMAIN cache THEN cache[v] ELSE file]

\* SchemaError: no such version, or another format.  Nothing was started.
ResolveRaises ==
    /\ cur # 0
    /\ refs[cur].version \notin DOMAIN cache
    /\ \/ Fetch(refs[cur].version) = {}
       \/ \E file \in Fetch(refs[cur].version) : file.format # refs[cur].format
    /\ cur' = 0
    /\ UNCHANGED <<repository, mode, changes, refs, run, cache, newest, seen>>

\* The registry answers with another status than 200, or with a schema type that
\* is neither AVRO nor JSON: SchemaError, too.
RegistryRefuses ==
    /\ cur # 0
    /\ repository = "registry"
    /\ refs[cur].version \notin DOMAIN cache
    /\ cur' = 0
    /\ UNCHANGED <<repository, mode, changes, refs, run, cache, newest, seen>>

Next ==
    \/ \E file \in File : Publish(file)
    \/ \E file \in files, fields \in Documents : Rewrite(file, fields)
    \/ BeginBuild
    \/ ResolveCached
    \/ \E file \in files : ResolveFetched(file)
    \/ ResolveRaises
    \/ RegistryRefuses

Spec == Init /\ [][Next]_vars

-----------------------------------------------------------------------------
(* Properties *)

\* Every column of one document is in the other, with its type.
KeepsColumns(f, g) ==
    \A c \in DOMAIN f.fields :
        c \in DOMAIN g.fields /\ g.fields[c].type = f.fields[c].type

\* "latest resolves once at startup (deterministic run)" (framework-spec.md:80):
\* topics of a run whose references write the same version work with the same
\* document, whatever is released, rewritten or claimed twice between their
\* resolutions; and latest is no older than the newest version there was when
\* the run was built.  Topics that write it differently ("v2" and "2") fetch each
\* for themselves; PinnedIsStable says when they still agree.
SameRefSameSchema ==
    /\ \A a, b \in seen :
          a.run = b.run /\ a.ref.version = b.ref.version => a.file = b.file
    /\ \A s \in seen :
          s.run = run /\ s.ref.version = Latest => s.file.num >= newest

\* "Pinned versions are immutable" (resolver.py:66): over all runs, topics and
\* ways to write it a pinned version means one document, whatever happens to the
\* other versions, unless a file of that number was rewritten in place or a
\* second one claims it.  The program prevents neither.
PinnedIsStable ==
    \A a, b \in seen :
        LET n == a.ref.version.num
        IN  /\ n = b.ref.version.num
            /\ Latest \notin {a.ref.version, b.ref.version}
            /\ n \notin rewritten \cup disputed
            => a.file = b.file

\* A topic gets a document in another format than it asks for only when an
\* earlier topic of the run asked for the same version in that other format.
WrongFormatOnlyFromCache ==
    \A s \in seen :
        s.file.format # s.ref.format =>
            \E e \in seen : /\ e.run = s.run /\ e.topic < s.topic
                            /\ e.ref = [s.ref EXCEPT !.format = s.file.format]

\* What check_compatibility is for: had every release and every rewriting of the
\* newest document passed it, under backward or full compatibility, the latest
\* document of a later run would have every column of an earlier run's, with its
\* type, however many changes lie between; unless two files claim a number.  The
\* check looks at one step of the newest document at a time and never at what a
\* run uses.
RestartKeepsColumns ==
    mode \in {"backward", "full"} /\ ~ungated /\ disputed = {} =>
        \A a, b \in seen :
            a.ref.version = Latest /\ b.ref.version = Latest /\ a.run < b.run =>
                KeepsColumns(a.file, b.file)

-----------------------------------------------------------------------------
(* The inductive invariant of the proofs *)

TypeOK ==
    /\ files \subseteq File
    /\ refs \in [1..NumTopics -> Ref]
    /\ run \in Nat
    /\ cur \in 0..NumTopics
    /\ DOMAIN cache \subseteq Texts
    /\ \A v \in DOMAIN cache : cache[v] \in File
    /\ newest \in Nat
    /\ \A s \in seen : /\ s.run \in 0..run
                       /\ s.topic \in 1..NumTopics
                       /\ s.ref \in Ref
                       /\ s.file \in File

\* There is a newest version, and it is no older than a run's.
HasNewest ==
    \E n \in Numbers : newest <= n /\ \A k \in Numbers : k <= n

\* An undisputed number means one file, and while every change of the newest
\* document passed the gate, that document has the columns of every latest one a
\* topic ever got.
NewestKeeps ==
    /\ \A f, g \in files : f.num = g.num /\ f.num \notin disputed => f = g
    /\ mode \in {"backward", "full"} /\ ~ungated /\ disputed = {} =>
            \A s \in seen : s.ref.version = Latest =>
                \A f \in Candidates(NewestNumber) : KeepsColumns(s.file, f)

\* What the current run has resolved is what its cache holds, ...
CacheOfRun ==
    \A s \in seen :
        s.run = run => s.ref.version \in DOMAIN cache /\ cache[s.ref.version] = s.file

\* ... and the topic that made it look is one of the run's earlier ones.
CacheSeen ==
    cur # 0 =>
        \A v \in DOMAIN cache :
            \E e \in seen : /\ e.run = run /\ e.topic < cur
                            /\ e.ref.version = v
                            /\ e.ref.format = cache[v].format

\* A pinned reference got its number, a reference to the latest version one from
\* the newest of the run on.
CacheAnswers ==
    \A v \in DOMAIN cache :
        IF v = Latest THEN cache[v].num >= newest ELSE cache[v].num = v.num

\* What a topic got is there still, unless it was rewritten.
SeenAnswers ==
    \A s \in seen :
        /\ s.ref.version # Latest => s.file.num = s.ref.version.num
        /\ s.file.num \notin rewritten => s.file \in files

IInv ==
    /\ TypeOK /\ HasNewest /\ NewestKeeps
    /\ CacheOfRun /\ CacheSeen /\ CacheAnswers /\ SeenAnswers
    /\ SameRefSameSchema /\ WrongFormatOnlyFromCache /\ RestartKeepsColumns
=============================================================================
