----------------------------- MODULE SchemasProofs -----------------------------
(***************************************************************************)
(* Proofs about Schemas, for any columns, types, modes, numbers of topics, *)
(* documents and runs: what the topics of one run and of different runs    *)
(* may expect of the schemas they get.                                     *)
(***************************************************************************)
EXTENDS Schemas, TLAPS

LEMMA FieldsOfFile ==
    ASSUME NEW f \in File
    PROVE  f.num \in Nat /\ f.format \in Formats
BY SchemasAssumption DEF File, Versions

\* A file that is rewritten stays one of its number and format.
LEMMA RewrittenFile ==
    ASSUME NEW f \in File, NEW fields \in Documents,
           NEW g, g = [f EXCEPT !.fields = fields]
    PROVE  g \in File /\ g.num = f.num /\ g.format = f.format
BY DEF File

LEMMA KeepsTransitive ==
    ASSUME NEW f, NEW g, NEW h, KeepsColumns(f, g), KeepsColumns(g, h)
    PROVE  KeepsColumns(f, h)
BY DEF KeepsColumns

\* The newest number is one, and the highest.
LEMMA NewestIsNewest ==
    ASSUME HasNewest
    PROVE  /\ NewestNumber \in Numbers
           /\ \A k \in Numbers : k <= NewestNumber
<1>1. \E n \in Numbers : \A k \in Numbers : k <= n
  BY DEF HasNewest
<1> QED
  BY <1>1 DEF NewestNumber

\* The newest documents change with the files only.
LEMMA SameNewest ==
    ASSUME files' = files
    PROVE  Numbers' = Numbers /\ Candidates(NewestNumber)' = Candidates(NewestNumber)
<1>1. Numbers' = Numbers
  BY DEF Numbers
<1>2. NewestNumber' = NewestNumber
  BY <1>1 DEF NewestNumber
<1> QED
  BY <1>1, <1>2 DEF Candidates

LEMMA NewestNotBelow == TypeOK /\ HasNewest => NewestNumber >= newest
<1> SUFFICES ASSUME TypeOK, HasNewest PROVE NewestNumber >= newest
  OBVIOUS
<1>1. PICK n \in Numbers : newest <= n
  BY DEF HasNewest
<1>2. n <= NewestNumber
  BY <1>1, NewestIsNewest
<1>3. n \in Nat /\ NewestNumber \in Nat /\ newest \in Nat
  BY <1>1, NewestIsNewest, FieldsOfFile DEF Numbers, TypeOK
<1> QED
  BY <1>1, <1>2, <1>3

-----------------------------------------------------------------------------
LEMMA InitInv == Init => IInv
<1> SUFFICES ASSUME Init PROVE IInv
  OBVIOUS
<1>1. PICK f \in File : f.num = 1 /\ files = {f}
  BY DEF Init
<1>2. TypeOK
  <2>1. DOMAIN cache = {}
    BY DEF Init
  <2> QED
    BY <1>1, <2>1, SchemasAssumption DEF Init, TypeOK
<1>3. HasNewest
  BY <1>1 DEF Init, HasNewest, Numbers
<1>4. NewestKeeps
  BY <1>1 DEF Init, NewestKeeps
<1>5. CacheAnswers /\ CacheSeen /\ CacheOfRun
  BY DEF Init, CacheAnswers, CacheSeen, CacheOfRun
<1>6. SeenAnswers /\ SameRefSameSchema /\ WrongFormatOnlyFromCache
        /\ RestartKeepsColumns
  BY DEF Init, SeenAnswers, SameRefSameSchema, WrongFormatOnlyFromCache,
         RestartKeepsColumns
<1> QED
  BY <1>2, <1>3, <1>4, <1>5, <1>6 DEF IInv

-----------------------------------------------------------------------------
(* A change of the documents *)

\* What passes the gate has the columns of the newest version.
LEMMA GateKeepsColumns ==
    ASSUME NEW old \in File, NEW new \in File, mode \in {"backward", "full"},
           Compatible(StructOf(old), StructOf(new))
    PROVE  KeepsColumns(old, new)
<1>1. Backward(StructOf(old), StructOf(new))
  BY DEF Compatible
<1>2. /\ DOMAIN StructOf(old) = DOMAIN old.fields
      /\ DOMAIN StructOf(new) = DOMAIN new.fields
  BY DEF StructOf
<1>3. ASSUME NEW c \in DOMAIN old.fields
      PROVE  StructOf(old)[c].type = old.fields[c].type
  BY <1>3 DEF StructOf
<1>4. ASSUME NEW c \in DOMAIN new.fields
      PROVE  StructOf(new)[c].type = new.fields[c].type
  BY <1>4 DEF StructOf
<1> QED
  BY <1>1, <1>2, <1>3, <1>4 DEF Backward, KeepsColumns

\* If the newest number stays or moves to the new file, the gate has let it
\* pass, and the number means one file, the newest document still has all
\* columns any topic got.
LEMMA GatedKeeps ==
    ASSUME TypeOK, HasNewest, NewestKeeps,
           mode \in {"backward", "full"}, ~ungated, disputed = {},
           NEW new \in File, Gate(new),
           NEW s \in seen, s.ref.version = Latest
    PROVE  KeepsColumns(s.file, new)
<1>1. PICK old \in Candidates(NewestNumber) : old \in File
  BY NewestIsNewest DEF Candidates, Numbers, TypeOK
<1>2. KeepsColumns(s.file, old)
  BY <1>1 DEF NewestKeeps
<1>3. KeepsColumns(old, new)
  BY <1>1, GateKeepsColumns DEF Gate
<1> QED
  BY <1>2, <1>3, KeepsTransitive

LEMMA PublishInv == ASSUME IInv, NEW new \in File, Publish(new) PROVE IInv'
<1> USE DEF IInv
<1>1. TypeOK'
  BY DEF Publish, TypeOK
<1>2. files \subseteq File /\ new.num \in Nat /\ NewestNumber \in Nat
        /\ NewestNumber \in Numbers /\ \A k \in Numbers : k \in Nat
  BY FieldsOfFile, NewestIsNewest DEF TypeOK, Numbers
<1>3. /\ files' = files \cup {new} /\ Numbers' = Numbers \cup {new.num}
      /\ seen' = seen /\ mode' = mode /\ newest' = newest
  BY DEF Publish, Numbers
<1>4. HasNewest'
  <2>1. newest \in Nat /\ NewestNumber >= newest
    BY NewestNotBelow DEF TypeOK
  <2>2. CASE new.num = NewestNumber + 1
    <3>1. newest <= new.num /\ \A k \in Numbers' : k <= new.num
      BY <1>2, <1>3, <2>1, <2>2, NewestIsNewest
    <3> QED
      BY <1>3, <3>1 DEF HasNewest
  <2>3. CASE new.num \in Numbers
    BY <1>3, <2>3 DEF HasNewest
  <2> QED
    BY <2>2, <2>3 DEF Publish
<1>5. NewestKeeps'
  <2>1. \A f, g \in files' : f.num = g.num /\ f.num \notin disputed' => f = g
    <3> SUFFICES ASSUME NEW f \in files', NEW g \in files', f.num = g.num,
                        f.num \notin disputed', f # g
                 PROVE  FALSE
      OBVIOUS
    <3>1. disputed \subseteq disputed' /\ (new.num \in Numbers => new.num \in disputed')
      BY DEF Publish
    <3>2. CASE f \in files /\ g \in files
      BY <3>1, <3>2 DEF NewestKeeps
    <3>3. CASE f = new \/ g = new
      BY <1>3, <3>1, <3>3 DEF Numbers
    <3> QED
      BY <1>3, <3>2, <3>3
  <2>2. ASSUME mode \in {"backward", "full"}, ~ungated', disputed' = {},
               NEW s \in seen, s.ref.version = Latest,
               NEW f \in Candidates(NewestNumber)'
        PROVE  KeepsColumns(s.file, f)
    <3>1. ~ungated /\ disputed = {} /\ new.num \notin Numbers
            /\ new.num = NewestNumber + 1
      BY <2>2 DEF Publish
    <3>2. Gate(new)
      <4>1. ungated' = (ungated \/ (new.num >= NewestNumber /\ ~Gate(new)))
        BY DEF Publish
      <4>2. new.num >= NewestNumber
        BY <1>2, <3>1
      <4> QED
        BY <2>2, <4>1, <4>2
    <3>3. /\ NewestNumber' \in Numbers'
          /\ \A k \in Numbers' : k <= NewestNumber'
      <4>1. \E n \in Numbers' : \A k \in Numbers' : k <= n
        BY <1>4 DEF HasNewest
      <4> QED
        BY <4>1 DEF NewestNumber
    <3>4. NewestNumber' = new.num
      <4>1. new.num \in Numbers' /\ new.num <= NewestNumber'
        BY <1>3, <3>3
      <4>2. NewestNumber' \notin Numbers
        <5> SUFFICES ASSUME NewestNumber' \in Numbers PROVE FALSE
          OBVIOUS
        <5>1. NewestNumber' <= NewestNumber /\ NewestNumber' \in Nat
          BY <1>2, NewestIsNewest
        <5> QED
          BY <1>2, <3>1, <4>1, <5>1
      <4> QED
        BY <1>3, <3>3, <4>2
    <3>5. f = new
      <4>1. f \in files' /\ f.num = new.num
        BY <2>2, <3>4 DEF Candidates
      <4> QED
        BY <1>3, <3>1, <4>1 DEF Numbers
    <3> QED
      BY <2>2, <3>1, <3>2, <3>5, GatedKeeps
  <2> QED
    BY <1>3, <2>1, <2>2 DEF NewestKeeps
<1>6. CacheOfRun' /\ CacheSeen' /\ CacheAnswers' /\ SeenAnswers'
  BY DEF Publish, CacheOfRun, CacheSeen, CacheAnswers, SeenAnswers
<1>7. SameRefSameSchema' /\ WrongFormatOnlyFromCache'
  BY DEF Publish, SameRefSameSchema, WrongFormatOnlyFromCache
<1>8. RestartKeepsColumns'
  BY DEF Publish, RestartKeepsColumns
<1> QED
  BY <1>1, <1>4, <1>5, <1>6, <1>7, <1>8

LEMMA RewriteInv ==
    ASSUME IInv, NEW file \in files, NEW fields \in Documents, Rewrite(file, fields)
    PROVE  IInv'
<1> DEFINE new == [file EXCEPT !.fields = fields]
<1> USE DEF IInv
<1>1. /\ new \in File /\ new.num = file.num /\ new \notin files
      /\ files' = (files \ {file}) \cup {new}
      /\ disputed' = disputed /\ rewritten' = rewritten \cup {file.num}
      /\ ungated' = (ungated \/ (file.num = NewestNumber /\ ~Gate(new)))
      /\ UNCHANGED <<repository, mode, refs, run, cur, cache, newest, seen>>
  BY RewrittenFile DEF Rewrite, TypeOK
<1> HIDE DEF new
<1>2. TypeOK'
  BY <1>1 DEF TypeOK
<1>3. Numbers' = Numbers
  BY <1>1 DEF Numbers
<1>4. HasNewest' /\ NewestNumber' = NewestNumber
  BY <1>1, <1>3 DEF HasNewest, NewestNumber
<1>5. NewestKeeps'
  <2>1. \A f, g \in files' : f.num = g.num /\ f.num \notin disputed' => f = g
    BY <1>1 DEF NewestKeeps
  <2>2. ASSUME mode \in {"backward", "full"}, ~ungated', disputed' = {},
               NEW s \in seen, s.ref.version = Latest,
               NEW f \in Candidates(NewestNumber)'
        PROVE  KeepsColumns(s.file, f)
    <3>1. ~ungated /\ disputed = {} /\ f \in files' /\ f.num = NewestNumber
      BY <1>1, <1>4, <2>2 DEF Candidates
    <3>2. CASE f \in files
      <4>1. f \in Candidates(NewestNumber)
        BY <3>1, <3>2 DEF Candidates
      <4> QED
        BY <2>2, <3>1, <4>1 DEF NewestKeeps
    <3>3. CASE f = new
      <4>1. Gate(new)
        BY <1>1, <2>2, <3>1, <3>3
      <4> QED
        BY <1>1, <2>2, <3>1, <3>3, <4>1, GatedKeeps
    <3> QED
      BY <1>1, <3>1, <3>2, <3>3
  <2> QED
    BY <1>1, <2>1, <2>2 DEF NewestKeeps
<1>6. CacheOfRun' /\ CacheSeen' /\ CacheAnswers'
  BY <1>1 DEF CacheOfRun, CacheSeen, CacheAnswers
<1>7. SeenAnswers'
  BY <1>1 DEF SeenAnswers
<1>8. SameRefSameSchema' /\ WrongFormatOnlyFromCache' /\ RestartKeepsColumns'
  BY <1>1 DEF SameRefSameSchema, WrongFormatOnlyFromCache, RestartKeepsColumns
<1> QED
  BY <1>2, <1>4, <1>5, <1>6, <1>7, <1>8

-----------------------------------------------------------------------------
(* A run *)

LEMMA BeginInv == ASSUME IInv, BeginBuild PROVE IInv'
<1> USE DEF IInv, BeginBuild, changes
<1>1. NewestNumber \in Nat /\ NewestNumber \in Numbers
        /\ NewestNumber >= newest
        /\ \A f \in files : f.num \in Nat /\ f.num <= NewestNumber
  BY NewestIsNewest, NewestNotBelow, FieldsOfFile DEF TypeOK, Numbers
<1>2. \A s \in seen : s.run <= run /\ s.run \in Nat /\ s.run < run'
  BY DEF TypeOK
<1>3. DOMAIN cache' = {}
  OBVIOUS
<1>4. TypeOK'
  BY <1>1, <1>2, <1>3, SchemasAssumption DEF TypeOK
<1>5. HasNewest'
  BY <1>1, NewestIsNewest DEF HasNewest, Numbers
<1>6. NewestKeeps'
  BY DEF NewestKeeps, Candidates, NewestNumber, Numbers
<1>7. CacheOfRun' /\ CacheSeen' /\ CacheAnswers'
  BY <1>2, <1>3 DEF CacheOfRun, CacheSeen, CacheAnswers
<1>8. SeenAnswers'
  BY DEF SeenAnswers
<1>9. SameRefSameSchema'
  BY <1>2 DEF SameRefSameSchema
<1>10. WrongFormatOnlyFromCache' /\ RestartKeepsColumns'
  BY DEF WrongFormatOnlyFromCache, RestartKeepsColumns
<1> QED
  BY <1>4, <1>5, <1>6, <1>7, <1>8, <1>9, <1>10

\* A resolution that answers with a file, from the cache or from the repository
LEMMA ResolvedInv ==
    ASSUME IInv, cur # 0, NEW file \in File, Resolved(file),
           file.num \notin rewritten => file \in files,
           NEW v, v = refs[cur].version,
           DOMAIN cache' = DOMAIN cache \cup {v},
           \A w \in DOMAIN cache : cache'[w] = cache[w],
           cache'[v] = file,
           IF v = Latest THEN file.num >= newest ELSE file.num = v.num,
           v = Latest => \/ file \in Candidates(NewestNumber)
                         \/ \E e \in seen : /\ e.run = run /\ e.file = file
                                            /\ e.ref.version = Latest,
           file.format # refs[cur].format => v \in DOMAIN cache
    PROVE  IInv'
<1> USE DEF IInv
<1> DEFINE new == [run |-> run, topic |-> cur, ref |-> refs[cur], file |-> file]
<1>1. /\ seen' = seen \cup {new} /\ new \in seen'
      /\ files' = files /\ refs' = refs /\ run' = run /\ newest' = newest
      /\ mode' = mode /\ ungated' = ungated /\ disputed' = disputed
      /\ rewritten' = rewritten
  BY DEF Resolved, changes
<1>2. cur \in 1..NumTopics /\ cur' \in 0..NumTopics /\ (cur' # 0 => cur' = cur + 1)
        /\ run \in Nat
  BY SchemasAssumption DEF TypeOK, Resolved, NextTopic
<1>3. refs[cur] \in Ref /\ v \in Texts
  BY <1>2 DEF TypeOK, Ref
<1>4. TypeOK'
  <2>1. \A s \in seen' : /\ s.run \in 0..run' /\ s.topic \in 1..NumTopics
                         /\ s.ref \in Ref /\ s.file \in File
    BY <1>1, <1>2, <1>3 DEF TypeOK
  <2>2. DOMAIN cache' \subseteq Texts
          /\ \A w \in DOMAIN cache' : cache'[w] \in File
    BY <1>1, <1>3 DEF TypeOK
  <2> QED
    BY <1>1, <1>2, <2>1, <2>2 DEF TypeOK
<1>5. HasNewest' /\ NewestKeeps'
  <2>1. HasNewest' /\ Candidates(NewestNumber)' = Candidates(NewestNumber)
    BY <1>1 DEF HasNewest, Candidates, NewestNumber, Numbers
  <2>2. ASSUME mode \in {"backward", "full"}, ~ungated, disputed = {},
               v = Latest, NEW f \in Candidates(NewestNumber)
        PROVE  KeepsColumns(file, f)
    <3>1. CASE file \in Candidates(NewestNumber)
      <4>1. f = file
        BY <2>2, <3>1 DEF NewestKeeps, Candidates
      <4> QED
        BY <4>1 DEF KeepsColumns
    <3>2. CASE \E e \in seen : e.file = file /\ e.ref.version = Latest
      BY <2>2, <3>2 DEF NewestKeeps
    <3> QED
      BY <2>2, <3>1, <3>2
  <2>3. \A f, g \in files' : f.num = g.num /\ f.num \notin disputed' => f = g
    BY <1>1 DEF NewestKeeps
  <2>4. mode' \in {"backward", "full"} /\ ~ungated' /\ disputed' = {} =>
          \A s \in seen' : s.ref.version = Latest =>
             \A f \in Candidates(NewestNumber)' : KeepsColumns(s.file, f)
    BY <1>1, <2>1, <2>2 DEF NewestKeeps
  <2> QED
    BY <2>1, <2>3, <2>4 DEF NewestKeeps
\* What the cache held already is what the reference gets.
<1>6. v \in DOMAIN cache => cache[v] = file
  OBVIOUS
<1>7. \A s \in seen : s.run = run =>
         s.ref.version \in DOMAIN cache /\ cache[s.ref.version] = s.file
  BY DEF CacheOfRun
<1>8. CacheOfRun'
  BY <1>1, <1>7 DEF CacheOfRun
<1>9. CacheAnswers'
  BY <1>1, <1>6 DEF CacheAnswers
<1>10. SeenAnswers'
  <2>1. new.ref.version # Latest => new.file.num = new.ref.version.num
    OBVIOUS
  <2> QED
    BY <1>1, <2>1 DEF SeenAnswers
<1>11. CacheSeen'
  <2> SUFFICES ASSUME cur' # 0, NEW w \in DOMAIN cache'
               PROVE  \E e \in seen' : /\ e.run = run /\ e.topic < cur'
                                       /\ e.ref.version = w
                                       /\ e.ref.format = cache'[w].format
    BY <1>1 DEF CacheSeen
  <2>1. CASE w \in DOMAIN cache
    <3>1. PICK e \in seen : /\ e.run = run /\ e.topic < cur
                            /\ e.ref.version = w
                            /\ e.ref.format = cache[w].format
      BY <2>1 DEF CacheSeen
    <3>2. e.topic \in Nat /\ e.topic < cur'
      BY <1>2, <3>1 DEF TypeOK
    <3> QED
      BY <1>1, <2>1, <3>1, <3>2
  <2>2. CASE w \notin DOMAIN cache
    <3>1. w = v /\ file.format = refs[cur].format
      BY <2>2
    <3>2. new.topic < cur'
      BY <1>2
    <3> QED
      BY <1>1, <3>1, <3>2
  <2> QED
    BY <2>1, <2>2
<1>12. SameRefSameSchema'
  <2>1. \A a \in seen : a.run = run /\ a.ref.version = v => a.file = file
    BY <1>6, <1>7
  <2>2. v = Latest => file.num >= newest
    OBVIOUS
  <2> QED
    BY <1>1, <2>1, <2>2 DEF SameRefSameSchema
<1>13. WrongFormatOnlyFromCache'
  <2>1. ASSUME file.format # refs[cur].format
        PROVE  \E e \in seen : /\ e.run = run /\ e.topic < cur
                               /\ e.ref = [refs[cur] EXCEPT !.format = file.format]
    <3>1. PICK e \in seen : /\ e.run = run /\ e.topic < cur
                            /\ e.ref.version = v
                            /\ e.ref.format = file.format
      BY <1>6, <2>1 DEF CacheSeen
    <3>2. e.ref \in Ref
      BY DEF TypeOK
    <3> QED
      BY <1>3, <3>1, <3>2 DEF Ref
  <2> SUFFICES ASSUME NEW s \in seen', s.file.format # s.ref.format
               PROVE  \E e \in seen' : /\ e.run = s.run /\ e.topic < s.topic
                                       /\ e.ref = [s.ref EXCEPT !.format = s.file.format]
    BY DEF WrongFormatOnlyFromCache
  <2>2. CASE s \in seen
    BY <1>1, <2>2 DEF WrongFormatOnlyFromCache
  <2>3. CASE s = new
    BY <1>1, <2>1, <2>3
  <2> QED
    BY <1>1, <2>2, <2>3
<1>14. RestartKeepsColumns'
  <2> SUFFICES ASSUME mode \in {"backward", "full"}, ~ungated, disputed = {},
                      NEW a \in seen', NEW b \in seen',
                      a.ref.version = Latest, b.ref.version = Latest, a.run < b.run
               PROVE  KeepsColumns(a.file, b.file)
    BY <1>1 DEF RestartKeepsColumns
  <2>1. a \in seen
    BY <1>1, <1>2 DEF TypeOK
  <2>2. CASE b \in seen
    BY <2>1, <2>2 DEF RestartKeepsColumns
  <2>3. CASE b = new
    <3>1. CASE file \in Candidates(NewestNumber)
      BY <2>1, <2>3, <3>1 DEF NewestKeeps
    <3>2. CASE \E e \in seen : /\ e.run = run /\ e.file = file
                               /\ e.ref.version = Latest
      BY <2>1, <2>3, <3>2 DEF RestartKeepsColumns
    <3> QED
      BY <2>3, <3>1, <3>2
  <2> QED
    BY <1>1, <2>2, <2>3
<1> QED
  BY <1>4, <1>5, <1>8, <1>9, <1>10, <1>11, <1>12, <1>13, <1>14

LEMMA CachedInv == ASSUME IInv, ResolveCached PROVE IInv'
<1> DEFINE v == refs[cur].version
<1>1. /\ cur # 0 /\ v \in DOMAIN cache /\ Resolved(cache[v])
      /\ cache' = cache
  BY DEF ResolveCached
<1>2. cache[v] \in File
        /\ IF v = Latest THEN cache[v].num >= newest ELSE cache[v].num = v.num
  BY <1>1 DEF IInv, TypeOK, CacheAnswers
<1>3. DOMAIN cache' = DOMAIN cache \cup {v}
  BY <1>1
<1>4. PICK e \in seen : e.run = run /\ e.ref.version = v /\ e.file = cache[v]
  BY <1>1 DEF IInv, CacheSeen, CacheOfRun
<1>5. cache[v].num \notin rewritten => cache[v] \in files
  BY <1>4 DEF IInv, SeenAnswers
<1> QED
  BY <1>1, <1>2, <1>3, <1>4, <1>5, ResolvedInv

LEMMA FetchedInv ==
    ASSUME IInv, NEW file \in files, ResolveFetched(file) PROVE IInv'
<1> DEFINE v == refs[cur].version
<1>1. /\ cur # 0 /\ file \in Fetch(v) /\ Resolved(file)
      /\ v \notin DOMAIN cache /\ file.format = refs[cur].format
      /\ file \in File
  BY DEF ResolveFetched, IInv, TypeOK
<1>2. /\ DOMAIN cache' = DOMAIN cache \cup {v}
      /\ \A w \in DOMAIN cache : cache'[w] = cache[w]
      /\ cache'[v] = file
  BY <1>1 DEF ResolveFetched
<1>3. v = Latest => file \in Candidates(NewestNumber)
  BY <1>1 DEF Fetch
<1>4. IF v = Latest THEN file.num >= newest ELSE file.num = v.num
  BY <1>1, <1>3, NewestNotBelow DEF Fetch, Candidates, IInv
<1> QED
  BY <1>1, <1>2, <1>3, <1>4, ResolvedInv

\* A resolution that raises ends the build.
LEMMA RaisesInv == ASSUME IInv, ResolveRaises \/ RegistryRefuses PROVE IInv'
<1> USE DEF IInv
<1>1. /\ cur' = 0
      /\ UNCHANGED <<repository, mode, files, disputed, rewritten, ungated, refs,
                     run, cache, newest, seen>>
  BY DEF ResolveRaises, RegistryRefuses, changes
<1>2. TypeOK'
  BY <1>1, SchemasAssumption DEF TypeOK
<1>3. HasNewest' /\ NewestKeeps' /\ CacheOfRun' /\ CacheSeen' /\ CacheAnswers'
        /\ SeenAnswers'
  BY <1>1, SameNewest DEF HasNewest, NewestKeeps, CacheOfRun, CacheSeen,
                          CacheAnswers, SeenAnswers
<1>4. SameRefSameSchema' /\ WrongFormatOnlyFromCache' /\ RestartKeepsColumns'
  BY <1>1 DEF SameRefSameSchema, WrongFormatOnlyFromCache, RestartKeepsColumns
<1> QED
  BY <1>2, <1>3, <1>4

LEMMA StutterInv == ASSUME IInv, UNCHANGED vars PROVE IInv'
BY SameNewest
   DEF IInv, vars, changes, TypeOK, HasNewest, NewestKeeps, CacheOfRun, CacheSeen, CacheAnswers, SeenAnswers, SameRefSameSchema,
       WrongFormatOnlyFromCache, RestartKeepsColumns

LEMMA StepInv == IInv /\ [Next]_vars => IInv'
BY PublishInv, RewriteInv, BeginInv, CachedInv, FetchedInv, RaisesInv, StutterInv DEF Next

-----------------------------------------------------------------------------
\* The cache, the releases and the history of resolutions agree in every state,
\* for any columns, types, modes and numbers of topics, documents and runs.
THEOREM ResolutionsAgree == Spec => []IInv
BY InitInv, StepInv, PTL DEF Spec

\* Topics of one run that ask for one version get one document, and latest is
\* no older than the run (resolver.py:78-88).
THEOREM OneDocumentPerRun == Spec => []SameRefSameSchema
<1>1. IInv => SameRefSameSchema
  BY DEF IInv
<1> QED
  BY <1>1, ResolutionsAgree, PTL

\* A pinned version means one document over all runs as long as no two files
\* claim a number (repository.py:46-61).
THEOREM PinnedForGood == Spec => []PinnedIsStable
<1>1. IInv => PinnedIsStable
  BY DEF IInv, NewestKeeps, SeenAnswers, PinnedIsStable
<1> QED
  BY <1>1, ResolutionsAgree, PTL

\* A document in the wrong format comes from the cache, where an earlier topic
\* of the run that asked for that format has put it (resolver.py:79-86).
THEOREM FormatCheckedOnce == Spec => []WrongFormatOnlyFromCache
<1>1. IInv => WrongFormatOnlyFromCache
  BY DEF IInv
<1> QED
  BY <1>1, ResolutionsAgree, PTL

\* Columns of the latest document survive restarts over any chain of releases
\* that passed the gate in mode backward or full (evolution.py:41-53).
THEOREM ColumnsSurvive == Spec => []RestartKeepsColumns
<1>1. IInv => RestartKeepsColumns
  BY DEF IInv
<1> QED
  BY <1>1, ResolutionsAgree, PTL
=============================================================================
