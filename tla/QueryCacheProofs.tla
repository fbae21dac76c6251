-------------------------- MODULE QueryCacheProofs --------------------------
(***************************************************************************)
(* Theorems about QueryCache for any number of articles, writers, queries  *)
(* and questions: the cache beside the articles is the articles' own       *)
(* specification, and invalidation is atomic with the writes of jobs.      *)
(*                                                                         *)
(* The argument: between a job's first mark and its commit it alone holds  *)
(* query_cache, so nobody stores an answer; until the commit every entry   *)
(* that cites an article the job wrote is stale, or marked, or about to be *)
(* (MarksInv).  An answer stored later records the committed revision,     *)
(* which is the last of the history (HistoryInv of Articles).              *)
(***************************************************************************)
EXTENDS QueryCache, ArticlesProofs

\* What a writer has pending has the origin of the writer.
OriginInv == \A w \in Writers : \A p \in pend[w] : p.origin = Origin(w)

\* A job has marked every entry that cites an article it wrote, but for the one
\* it is at.
MarksInv ==
    \A w \in Jobs : \A p \in pend[w] :
        \/ phase[w] = "mark" /\ p.slug = item[w]
        \/ /\ marker = w
           /\ \A q \in Citing(p.slug) : q \in rows \/ cache[q].stale

CacheTypes == cache \in [Questions -> Entry] /\ read \in [Readers -> [Slugs -> Nat]]

\* Table locks are held by jobs under way, and an ingest takes that on chunks
\* before that on query_cache.
LocksInv ==
    /\ marker # Nobody =>
          /\ marker \in Jobs
          /\ phase[marker] \in {"loop", "write", "mark"}
          /\ Kind[marker] = "ingest" => chunks = marker
    /\ chunks # Nobody =>
          /\ chunks \in Jobs
          /\ phase[chunks] \in {"loop", "write", "mark"}

-----------------------------------------------------------------------------
\* A step of the composition is a step of the articles, or none.
LEMMA StepOfArticles == [CacheNext]_allVars => [Next]_vars
<1> SUFFICES ASSUME [CacheNext]_allVars PROVE [Next]_vars
  OBVIOUS
<1>1. ASSUME NEW r \in Readers, ReaderNext(r) PROVE UNCHANGED vars
  BY <1>1 DEF ReaderNext
<1>2. ASSUME NEW w \in Writers, WriterNext(w) PROVE [Next]_vars
  <2>1. CASE Enter(w) \/ Proceed(w)
    BY <2>1 DEF Enter, Proceed, Next, WriterStep
  <2>2. CASE Embed(w) \/ \E q \in Questions : MarkEntry(w, q)
    BY <2>2 DEF Embed, MarkEntry
  <2>3. CASE MarkCache(w)
    BY <2>3 DEF MarkCache, Next, WriterStep
  <2>4. CASE CommitMarks(w)
    BY <2>4 DEF CommitMarks, Next, WriterStep
  <2>5. CASE LoseMarks(w)
    BY <2>5 DEF LoseMarks, Next, WriterStep
  <2> QED
    BY <1>2, <2>1, <2>2, <2>3, <2>4, <2>5 DEF WriterNext
<1>3. ASSUME NEW g \in Sweeps, SweepNext(g) PROVE UNCHANGED vars
  BY <1>3 DEF SweepNext
<1>4. CASE UNCHANGED allVars
  BY <1>4 DEF allVars
<1> QED
  BY <1>1, <1>2, <1>3, <1>4 DEF CacheNext

\* Entries and what the queries have read keep their types.
LEMMA CacheTypesNext == TypeOK /\ CacheTypes /\ [CacheNext]_allVars => CacheTypes'
<1> SUFFICES ASSUME TypeOK, CacheTypes, [CacheNext]_allVars PROVE CacheTypes'
  OBVIOUS
<1> USE DEF CacheTypes, Entry, Nothing, NoEntry
<1>1. \A s \in Slugs : art[s].rev \in Nat
  BY DEF TypeOK, Row
<1>2. ASSUME NEW r \in Readers, ReaderNext(r) PROVE CacheTypes'
  <2>1. CASE \/ \E q \in Questions : LookUpHit(r, q)
             \/ LookUpMiss(r) \/ Refresh(r) \/ Answer(r)
    BY <2>1 DEF LookUpHit, LookUpMiss, Refresh, Answer
  <2>2. CASE Touch(r) \/ Abandon(r) \/ VictimQuery(r)
    BY <2>2 DEF Touch, Abandon, VictimQuery, End
  <2>3. CASE Search(r)
    <3>1. PICK found \in SUBSET Slugs :
            IF found = {} THEN End(r, "answered")
            ELSE read' = [read EXCEPT ![r] =
                            [s \in Slugs |-> IF s \in found THEN art[s].rev ELSE 0]]
      BY <2>3 DEF Search, Indexed
    <3>2. [s \in Slugs |-> IF s \in found THEN art[s].rev ELSE 0] \in [Slugs -> Nat]
      BY <1>1
    <3>3. [s \in Slugs |-> 0] \in [Slugs -> Nat]
      OBVIOUS
    <3>4. read' \in [Readers -> [Slugs -> Nat]]
      BY <3>1, <3>2, <3>3 DEF End
    <3> QED
      BY <2>3, <3>4 DEF Search
  <2>4. CASE Store(r)
    <3>1. NewEntry(r) \in Entry
      BY <1>1 DEF NewEntry
    <3> QED
      BY <2>4, <3>1 DEF Store, End
  <2> QED
    BY <1>2, <2>1, <2>2, <2>3, <2>4 DEF ReaderNext, QueryStep
<1>3. ASSUME NEW w \in Writers, WriterNext(w) PROVE CacheTypes'
  <2>1. CASE Enter(w) \/ Proceed(w)
    BY <2>1 DEF Enter, Proceed, cacheVars
  <2>2. CASE \/ Embed(w) \/ MarkCache(w) \/ LoseMarks(w)
             \/ \E q \in Questions : MarkEntry(w, q)
    BY <2>2 DEF Embed, MarkEntry, MarkCache, LoseMarks, Release
  <2>3. CASE CommitMarks(w)
    BY <2>3 DEF CommitMarks, Release
  <2> QED
    BY <1>3, <2>1, <2>2, <2>3 DEF WriterNext
<1>4. ASSUME NEW g \in Sweeps, SweepNext(g) PROVE CacheTypes'
  <2>1. CASE CommitSweep(g)
    <3>1. cache' \in [Questions -> Entry]
      BY <2>1 DEF CommitSweep
    <3> QED
      BY <2>1, <3>1 DEF CommitSweep
  <2>2. CASE ~CommitSweep(g)
    BY <1>4, <2>2 DEF SweepNext, BeginSweep, SweepStep, SweepRow, FailSweep, VictimSweep
  <2> QED
    BY <2>1, <2>2
<1>5. CASE UNCHANGED allVars
  BY <1>5 DEF allVars, cacheVars
<1> QED
  BY <1>2, <1>3, <1>4, <1>5 DEF CacheNext

\* Only a flush adds to what is pending, and it stamps the writer's origin.
LEMMA OriginNext == ArticlesInv /\ OriginInv /\ [Next]_vars => OriginInv'
<1> SUFFICES ASSUME ArticlesInv, OriginInv, [Next]_vars PROVE OriginInv'
  OBVIOUS
<1> USE DEF OriginInv, ArticlesInv, TypeOK
<1>1. ASSUME UNCHANGED pend PROVE OriginInv'
  BY <1>1 DEF Origin
<1>2. ASSUME NEW w \in Writers, pend' = [pend EXCEPT ![w] = {}] PROVE OriginInv'
  BY <1>2 DEF Origin
<1>3. ASSUME NEW w \in Writers, Flush(w) PROVE OriginInv'
  BY <1>3 DEF Flush, Origin
<1> HIDE DEF OriginInv, ArticlesInv, TypeOK
<1>4. ASSUME NEW w \in Writers, UserStep(w) \/ BeginJob(w) PROVE OriginInv'
  BY <1>1, <1>2, <1>4
     DEF UserStep, OpenPage, Create, Load, Refuse, LoadRollback, TakeUp, BeginJob, Close
<1>5. ASSUME NEW w \in Writers, WriterStep(w) \/ Fail(w) PROVE OriginInv'
  BY <1>1, <1>2, <1>3, <1>5
     DEF WriterStep, PickIngest, PickFix, PickFormat, SkipFormat, TakeUp, Conflict, Mark,
         Commit, Fail, Close
<1>6. CASE UNCHANGED vars
  BY <1>1, <1>6 DEF vars
<1> QED
  BY <1>4, <1>5, <1>6 DEF Next

\* What a run of gc has yet to delete and what it has deleted are questions, and
\* it has locked them only while its DELETE is under way.
SweepsTyped ==
    /\ sweep \in [Sweeps -> {"idle", "sweep", "ended"}]
    /\ due \in [Sweeps -> SUBSET Questions]
    /\ gone \in [Sweeps -> SUBSET Questions]
    /\ \A g \in Sweeps \ Sweeping : due[g] = {} /\ gone[g] = {}

\* A step of gc keeps their types; a touch takes an entry from what is due.
LEMMA SweepsTypedNext == SweepsTyped /\ [CacheNext]_allVars => SweepsTyped'
<1> SUFFICES ASSUME SweepsTyped, [CacheNext]_allVars PROVE SweepsTyped'
  OBVIOUS
<1> USE DEF SweepsTyped, Sweeping
<1>1. ASSUME UNCHANGED sweepVars PROVE SweepsTyped'
  BY <1>1 DEF sweepVars
<1>2. ASSUME NEW r \in Readers, ReaderNext(r) PROVE SweepsTyped'
  <2>1. CASE Touch(r)
    BY <2>1 DEF Touch
  <2>2. CASE ~Touch(r)
    BY <1>1, <1>2, <2>2 DEF ReaderNext, QueryStep, LookUpHit, LookUpMiss, Refresh, Search,
           Answer, Store, Abandon, VictimQuery
  <2> QED
    BY <2>1, <2>2
<1>3. ASSUME NEW w \in Writers, WriterNext(w) PROVE SweepsTyped'
  BY <1>1, <1>3 DEF WriterNext, Enter, Proceed, Embed, MarkEntry, MarkCache, CommitMarks,
         LoseMarks, Release, cacheVars
<1>4. ASSUME NEW g \in Sweeps, SweepNext(g) PROVE SweepsTyped'
  <2>1. CASE BeginSweep(g)
    <3>1. PICK expired \in SUBSET Questions : due' = [due EXCEPT ![g] = expired]
      BY <2>1 DEF BeginSweep, Cached
    <3> QED
      BY <2>1, <3>1 DEF BeginSweep
  <2>2. ASSUME NEW q \in Questions, SweepRow(g, q) PROVE SweepsTyped'
    BY <2>2 DEF SweepRow
  <2>3. CASE CommitSweep(g)
    BY <2>3 DEF CommitSweep
  <2>4. CASE FailSweep(g)
    BY <2>4 DEF FailSweep
  <2> QED
    BY <1>4, <2>1, <2>2, <2>3, <2>4 DEF SweepNext, SweepStep, VictimSweep
<1>5. CASE UNCHANGED allVars
  BY <1>1, <1>5 DEF allVars, cacheVars
<1> QED
  BY <1>2, <1>3, <1>4, <1>5 DEF CacheNext

\* What every step but a store does to the cache.
NothingStored ==
    \/ UNCHANGED cache
    \/ \E d \in SUBSET Questions :
          cache' = [q \in Questions |-> IF q \in d THEN NoEntry ELSE cache[q]]
    \/ \E w \in Writers : CommitMarks(w)

\* A step stores an answer, or it stores none.
LEMMA StoredOrNot ==
    SweepsTyped /\ [CacheNext]_allVars
      => NothingStored \/ \E r \in Readers : Store(r) /\ UNCHANGED vars
<1> SUFFICES ASSUME SweepsTyped, [CacheNext]_allVars
             PROVE  NothingStored \/ \E r \in Readers : Store(r) /\ UNCHANGED vars
  OBVIOUS
<1>1. ASSUME NEW g \in Sweeps, SweepNext(g) PROVE NothingStored
  <2>1. CASE CommitSweep(g)
    BY <2>1 DEF CommitSweep, SweepsTyped, NothingStored
  <2>2. CASE ~CommitSweep(g)
    BY <1>1, <2>2 DEF NothingStored, SweepNext, BeginSweep, SweepStep, SweepRow, FailSweep,
           VictimSweep
  <2> QED
    BY <2>1, <2>2
<1>2. ASSUME NEW w \in Writers, WriterNext(w) PROVE NothingStored
  BY <1>2 DEF NothingStored, WriterNext, Enter, Proceed, Embed, MarkEntry, MarkCache, LoseMarks,
         cacheVars
<1>3. ASSUME NEW r \in Readers, ReaderNext(r) PROVE NothingStored \/ (Store(r) /\ UNCHANGED vars)
  BY <1>3 DEF NothingStored, ReaderNext, QueryStep, LookUpHit, LookUpMiss, Refresh, Touch,
         Search, Answer, Abandon, VictimQuery
<1>4. CASE UNCHANGED allVars
  BY <1>4 DEF NothingStored, cacheVars, allVars
<1> QED
  BY <1>1, <1>2, <1>3, <1>4 DEF CacheNext

\* Then an entry that cites an article did so before, and has become stale or
\* stayed as it was.
LEMMA CacheShrinks ==
    ASSUME CacheTypes, NothingStored, NEW q \in Questions, NEW s \in Slugs, q \in Citing(s)'
    PROVE  /\ q \in Citing(s)
           /\ cache'[q].rec[s] = cache[q].rec[s]
           /\ cache[q].stale => cache'[q].stale
<1> USE DEF CacheTypes, Citing
<1>1. CASE UNCHANGED cache
  BY <1>1
<1>2. CASE \E d \in SUBSET Questions :
             cache' = [x \in Questions |-> IF x \in d THEN NoEntry ELSE cache[x]]
  BY <1>2 DEF NoEntry, Nothing
<1>3. ASSUME NEW w \in Writers, CommitMarks(w)
      PROVE  cache'[q].rec = cache[q].rec /\ (cache[q].stale => cache'[q].stale)
  BY <1>3 DEF CommitMarks, Entry
<1> QED
  BY <1>1, <1>2, <1>3 DEF NothingStored

CacheInv ==
    /\ ArticlesInv /\ TurnInv /\ CacheTypes /\ SweepsTyped
    /\ OriginInv /\ MarksInv /\ FreshSinceJobWrites

\* A job that has something pending is under way and has the turn.
LEMMA PendingHasTurn ==
    ASSUME ArticlesInv, TurnInv, NEW w \in Jobs, pend[w] # {}
    PROVE  phase[w] \in {"loop", "write", "mark"} /\ turn = w
<1>1. PICK p \in pend[w] : TRUE
  OBVIOUS
<1>2. w \in Writers /\ p.slug \in Slugs /\ lock[p.slug] = w
  BY <1>1 DEF Jobs, ArticlesInv, TypeOK, Revision, PendingInv
<1> QED
  BY <1>2 DEF ArticlesInv, SessionInv, TurnInv

\* A step keeps the marks of a job that is not at its end.
LEMMA MarksNext == CacheInv /\ [CacheNext]_allVars => MarksInv'
<1> SUFFICES ASSUME CacheInv, [CacheNext]_allVars, NEW w \in Jobs, NEW p \in pend'[w]
             PROVE  \/ phase'[w] = "mark" /\ p.slug = item'[w]
                    \/ /\ marker' = w
                       /\ \A q \in Citing(p.slug)' : q \in rows' \/ cache'[q].stale
  BY DEF MarksInv
<1> DEFINE Goal == \/ phase'[w] = "mark" /\ p.slug = item'[w]
                   \/ /\ marker' = w
                      /\ \A q \in Citing(p.slug)' : q \in rows' \/ cache'[q].stale
<1> USE ArticlesAssumption
<1>1. /\ w \in Writers
      /\ phase \in [Writers -> Phases]
      /\ item \in [Writers -> Slugs \cup {NoSlug}]
      /\ pend \in [Writers -> SUBSET Revision]
      /\ lock \in [Slugs -> Writers \cup {Nobody}]
      /\ ArticlesInv /\ TurnInv /\ CacheTypes /\ SweepsTyped /\ MarksInv
  BY DEF CacheInv, ArticlesInv, TypeOK, Jobs
<1>2. ASSUME p \in pend[w], NothingStored,
             ~(phase[w] = "mark" /\ p.slug = item[w]) \/ UNCHANGED <<phase[w], item[w]>>,
             marker = w => marker' = w /\ rows \subseteq rows'
      PROVE  Goal
  <2>1. p.slug \in Slugs
    BY <1>1, <1>2 DEF Revision
  <2>2. \A q \in Citing(p.slug)' : /\ q \in Citing(p.slug)
                                   /\ cache[q].stale => cache'[q].stale
    BY <1>1, <1>2, <2>1, CacheShrinks DEF Citing
  <2> QED
    BY <1>1, <1>2, <2>2 DEF MarksInv
<1>3. ASSUME NEW r \in Readers, Store(r), UNCHANGED vars PROVE Goal
  BY <1>1, <1>3 DEF MarksInv, Store, vars
<1>4. ASSUME UNCHANGED <<vars, marker, rows>> PROVE Goal
  BY <1>1, <1>2, <1>3, <1>4, StoredOrNot DEF vars
<1>5. ASSUME NEW r \in Readers, ReaderNext(r) PROVE UNCHANGED <<vars, marker, rows>>
  BY <1>5 DEF ReaderNext, QueryStep, LookUpHit, LookUpMiss, Refresh, Touch, Search, Answer,
         Store, Abandon, VictimQuery
<1>6. ASSUME NEW x \in Writers, WriterNext(x), x # w PROVE Goal
  <2>1. UNCHANGED <<phase[w], item[w], pend[w]>>
    BY <1>1, <1>6
       DEF WriterNext, Enter, Proceed, Embed, MarkEntry, MarkCache, CommitMarks, LoseMarks, UserStep,
           BeginJob, Flush, PickIngest, PickFix, PickFormat, SkipFormat, Mark, Commit, Conflict,
           Fail, OpenPage, Create, Load, Refuse, LoadRollback, TakeUp, Close, ArticlesInv,
           TypeOK, vars
  <2>2. ~MarkCache(x) /\ ~\E q \in Questions : MarkEntry(x, q)
    BY <1>1, <1>6, <2>1, PendingHasTurn DEF MarkCache, MarkEntry, Marking, Jobs, TurnInv
  <2>3. marker = w => marker' = w /\ rows' = rows
    BY <1>6, <2>2
       DEF WriterNext, Enter, Proceed, Embed, CommitMarks, LoseMarks, Release, cacheVars
  <2>4. NothingStored
    BY <1>6 DEF NothingStored, WriterNext, Enter, Proceed, Embed, MarkEntry, MarkCache,
           LoseMarks, cacheVars
  <2> QED
    BY <1>2, <2>1, <2>3, <2>4
<1>7. ASSUME WriterNext(w) PROVE Goal
  <2>1. NothingStored
    BY <1>1, <1>7
       DEF NothingStored, WriterNext, Enter, Proceed, Embed, MarkEntry, MarkCache, LoseMarks,
           cacheVars
  <2>2. CASE Flush(w) /\ UNCHANGED cacheVars
    <3>1. /\ phase[w] = "write" /\ phase'[w] = "mark" /\ item'[w] = item[w]
          /\ p \in pend[w] \/ p.slug = item[w]
      BY <1>1, <2>2 DEF Flush
    <3> QED
      BY <1>2, <2>1, <2>2, <3>1 DEF cacheVars
  <2>3. CASE /\ BeginJob(w) \/ \E s \in Slugs : \/ PickIngest(w, s) \/ PickFix(w, s)
                                               \/ PickFormat(w, s) \/ SkipFormat(w, s)
             /\ UNCHANGED cacheVars
    <3>1. phase[w] # "mark" /\ pend' = pend
      BY <2>3 DEF BeginJob, PickIngest, PickFix, PickFormat, SkipFormat, TakeUp
    <3> QED
      BY <1>2, <2>1, <2>3, <3>1 DEF cacheVars
  <2>4. CASE Embed(w)
    BY <1>4, <2>4 DEF Embed
  <2>7. ASSUME NEW q \in Questions, MarkEntry(w, q) PROVE Goal
    BY <1>2, <2>1, <2>7 DEF MarkEntry, vars
  <2>5. CASE MarkCache(w)
    <3>1. CASE p.slug = item[w]
      <4>1. Citing(p.slug)' = Citing(p.slug)
        BY <2>5 DEF MarkCache, Citing
      <4> QED
        BY <2>5, <3>1, <4>1 DEF MarkCache
    <3>2. CASE p.slug # item[w]
      BY <1>2, <2>1, <2>5, <3>2 DEF MarkCache, Mark
    <3> QED
      BY <3>1, <3>2
  <2>6. CASE CommitMarks(w) \/ LoseMarks(w) \/ UserStep(w)
    <3>1. UserStep(w) => Refuse(w)
      BY <1>1 DEF UserStep, OpenPage, Create, Load, LoadRollback, Jobs
    <3>2. pend'[w] = {}
      BY <1>1, <2>6, <3>1 DEF CommitMarks, LoseMarks, Commit, Conflict, Fail, Refuse, Close
    <3> QED
      BY <3>2
  <2> QED
    BY <1>7, <2>2, <2>3, <2>4, <2>5, <2>6, <2>7 DEF WriterNext, Enter, Proceed
<1>8. ASSUME NEW g \in Sweeps, SweepNext(g) PROVE UNCHANGED <<vars, marker, rows>>
  BY <1>8 DEF SweepNext, BeginSweep, SweepStep, SweepRow, CommitSweep, FailSweep, VictimSweep
<1>9. CASE UNCHANGED allVars
  BY <1>4, <1>9 DEF allVars, cacheVars
<1> QED
  BY <1>4, <1>5, <1>6, <1>7, <1>8, <1>9 DEF CacheNext

\* Revisions come from commits only.
LEMMA OnlyCommits == [CacheNext]_allVars => UNCHANGED revs \/ \E w \in Writers : CommitMarks(w)
<1> SUFFICES ASSUME [CacheNext]_allVars
             PROVE  UNCHANGED revs \/ \E w \in Writers : CommitMarks(w)
  OBVIOUS
<1>1. CASE \E r \in Readers : ReaderNext(r)
  BY <1>1 DEF ReaderNext, vars
<1>2. ASSUME NEW w \in Writers, WriterNext(w) PROVE UNCHANGED revs \/ CommitMarks(w)
  <2>1. CASE Enter(w)
    BY <2>1 DEF Enter, UserStep, OpenPage, Create, Load, Refuse, LoadRollback, TakeUp, BeginJob
  <2>2. CASE Proceed(w)
    BY <2>2 DEF Proceed, Flush, PickIngest, PickFix, PickFormat, SkipFormat, TakeUp
  <2>3. CASE \/ Embed(w) \/ MarkCache(w) \/ LoseMarks(w)
             \/ \E q \in Questions : MarkEntry(w, q)
    BY <2>3 DEF Embed, MarkEntry, MarkCache, LoseMarks, Mark, Conflict, Fail, vars
  <2> QED
    BY <1>2, <2>1, <2>2, <2>3 DEF WriterNext
<1>3. CASE \E g \in Sweeps : SweepNext(g)
  BY <1>3 DEF SweepNext, vars
<1>4. CASE UNCHANGED allVars
  BY <1>4 DEF allVars, vars
<1> QED
  BY <1>1, <1>2, <1>3, <1>4 DEF CacheNext

\* A step leaves an entry fresh only if no job's revision is newer than those it
\* records.
LEMMA FreshNext == CacheInv /\ [CacheNext]_allVars => FreshSinceJobWrites'
<1> SUFFICES ASSUME CacheInv, [CacheNext]_allVars,
                    NEW q \in Questions, ~cache'[q].stale,
                    NEW v \in revs', v.origin = "ai", q \in Citing(v.slug)'
             PROVE  v.no <= cache'[q].rec[v.slug]
  BY DEF FreshSinceJobWrites
<1>1. /\ ArticlesInv /\ CacheTypes /\ SweepsTyped
      /\ OriginInv /\ MarksInv /\ FreshSinceJobWrites
      /\ [Next]_vars
  BY StepOfArticles DEF CacheInv
<1>2. /\ revs \subseteq Revision
      /\ \A w \in Writers : pend[w] \subseteq Revision
      /\ \A s \in Slugs : art[s].rev \in Nat
  BY <1>1 DEF ArticlesInv, TypeOK, Row
<1>3. ASSUME NEW r \in Readers, Store(r), UNCHANGED vars
      PROVE  v.no <= cache'[q].rec[v.slug]
  <2>1. v \in revs /\ v.slug \in Slugs
    BY <1>2, <1>3 DEF vars, Revision
  <2>2. CASE q = Asks[r]
    <3>1. cache'[q] = NewEntry(r)
      BY <1>1, <1>3, <2>2 DEF Store, CacheTypes
    <3>2. cache'[q].rec[v.slug] = art[v.slug].rev
      BY <2>1, <3>1 DEF NewEntry, Citing
    <3> QED
      BY <1>1, <2>1, <3>2 DEF ArticlesInv, HistoryInv
  <2>3. CASE q # Asks[r]
    <3>1. cache'[q] = cache[q]
      BY <1>1, <1>3, <2>3 DEF Store, CacheTypes
    <3> QED
      BY <1>1, <2>1, <3>1 DEF FreshSinceJobWrites, Citing
  <2> QED
    BY <2>2, <2>3
<1>4. CASE NothingStored
  <2>1. v.slug \in Slugs
    BY <1>1, ArticlesTypes DEF TypeOK, Revision
  <2>2. /\ q \in Citing(v.slug)
        /\ cache'[q].rec[v.slug] = cache[q].rec[v.slug]
        /\ ~cache[q].stale
    BY <1>1, <1>4, <2>1, CacheShrinks
  <2>3. CASE v \in revs
    BY <1>1, <2>2, <2>3 DEF FreshSinceJobWrites
  <2>4. CASE v \notin revs
    <3>1. PICK w \in Writers : CommitMarks(w) /\ v \in pend[w]
      BY <2>4, OnlyCommits DEF CommitMarks, Commit
    <3>2. w \in Jobs
      BY <1>1, <3>1 DEF OriginInv, Origin
    <3>3. phase[w] # "mark"
      BY <3>1, <3>2 DEF CommitMarks, Commit, Finished
    <3>4. marker = w /\ q \in rows
      BY <1>1, <2>2, <3>1, <3>2, <3>3 DEF MarksInv
    <3>5. cache'[q].stale
      BY <1>1, <3>1, <3>4 DEF CommitMarks, CacheTypes, Entry
    <3> QED
      BY <3>5
  <2> QED
    BY <2>3, <2>4
<1> QED
  BY <1>1, <1>3, <1>4, StoredOrNot

\* A step keeps the table locks with jobs under way.
LEMMA LocksNext == ArticlesInv /\ LocksInv /\ [CacheNext]_allVars => LocksInv'
<1> SUFFICES ASSUME ArticlesInv, LocksInv, [CacheNext]_allVars PROVE LocksInv'
  OBVIOUS
<1> USE ArticlesAssumption DEF LocksInv
<1>1. /\ phase \in [Writers -> Phases]
      /\ Jobs \subseteq Writers
  BY DEF ArticlesInv, TypeOK, Jobs
<1>2. ASSUME UNCHANGED <<phase, marker, chunks>> PROVE LocksInv'
  BY <1>2
<1>3. ASSUME NEW r \in Readers, ReaderNext(r) PROVE LocksInv'
  BY <1>2, <1>3 DEF ReaderNext, QueryStep, LookUpHit, LookUpMiss, Refresh, Touch, Search,
         Answer, Store, Abandon, VictimQuery, vars
<1>4. ASSUME NEW w \in Writers, WriterNext(w) PROVE LocksInv'
  <2>1. CASE Enter(w) /\ ~Refuse(w)
    <3>1. phase[w] \in {"idle", "page"} /\ UNCHANGED <<marker, chunks>>
      BY <2>1 DEF Enter, UserStep, OpenPage, Create, Load, LoadRollback, BeginJob, cacheVars
    <3>2. \A v \in Writers : v # w => phase'[v] = phase[v]
      BY <1>1, <2>1 DEF Enter, UserStep, OpenPage, Create, Load, LoadRollback, BeginJob, TakeUp
    <3> QED
      BY <1>1, <3>1, <3>2
  <2>2. CASE Enter(w) /\ Refuse(w)
    <3>1. phase[w] = "page" /\ phase' = [phase EXCEPT ![w] = "refused"]
      BY <2>2 DEF Refuse, Close
    <3> QED
      BY <1>1, <2>2, <3>1 DEF Enter, cacheVars
  <2>3. CASE Proceed(w)
    <3>1. \A v \in Writers : /\ v # w => phase'[v] = phase[v]
                             /\ phase'[w] \in {"loop", "write", "mark"}
      BY <1>1, <2>3 DEF Proceed, Flush, PickIngest, PickFix, PickFormat, SkipFormat, TakeUp
    <3> QED
      BY <1>1, <2>3, <3>1 DEF Proceed, cacheVars
  <2>4. CASE Embed(w)
    BY <1>1, <2>4 DEF Embed, Embedding, Jobs, vars
  <2>5. CASE MarkCache(w)
    <3>1. /\ w \in Jobs /\ phase[w] = "mark"
          /\ Kind[w] = "ingest" => chunks = w
      BY <1>1, <2>5 DEF MarkCache, Marking, Embedding
    <3> QED
      BY <1>1, <2>5, <3>1 DEF MarkCache, Mark
  <2>7. ASSUME NEW q \in Questions, MarkEntry(w, q) PROVE LocksInv'
    <3>1. /\ w \in Jobs /\ phase[w] = "mark"
          /\ Kind[w] = "ingest" => chunks = w
      BY <1>1, <2>7 DEF MarkEntry, Marking, Embedding
    <3> QED
      BY <1>1, <2>7, <3>1 DEF MarkEntry, vars
  <2>6. CASE CommitMarks(w) \/ LoseMarks(w)
    <3>1. /\ marker' = IF marker = w THEN Nobody ELSE marker
          /\ chunks' = IF chunks = w THEN Nobody ELSE chunks
          /\ \A v \in Writers : v # w => phase'[v] = phase[v]
      BY <1>1, <2>6 DEF CommitMarks, LoseMarks, Release, Commit, Conflict, Fail, Close
    <3> QED
      BY <1>1, <3>1
  <2> QED
    BY <1>4, <2>1, <2>2, <2>3, <2>4, <2>5, <2>6, <2>7 DEF WriterNext
<1>5. ASSUME NEW g \in Sweeps, SweepNext(g) PROVE LocksInv'
  BY <1>2, <1>5 DEF SweepNext, BeginSweep, SweepStep, SweepRow, CommitSweep, FailSweep,
         VictimSweep, vars
<1>6. CASE UNCHANGED allVars
  BY <1>2, <1>6 DEF allVars, vars, cacheVars
<1> QED
  BY <1>3, <1>4, <1>5, <1>6 DEF CacheNext

\* The queries' phases, hits and shares, and the marked rows.
QueriesTyped ==
    /\ ask \in [Readers -> AskPhases]
    /\ hit \in [Readers -> Questions \cup {NoQuestion}]
    /\ shares \subseteq {r \in Readers : ask[r] \notin {"idle"} \cup AskEnded}
    /\ rows \in SUBSET Questions

\* A step keeps their types, and a query that ends gives its share back.
LEMMA QueriesTypedNext == QueriesTyped /\ [CacheNext]_allVars => QueriesTyped'
<1> SUFFICES ASSUME QueriesTyped, [CacheNext]_allVars PROVE QueriesTyped'
  OBVIOUS
<1> USE DEF QueriesTyped, AskPhases, AskEnded
<1>1. ASSUME UNCHANGED <<ask, hit, shares>>, rows' \in SUBSET Questions PROVE QueriesTyped'
  BY <1>1
<1>2. ASSUME NEW r \in Readers, NEW outcome \in AskEnded, End(r, outcome), UNCHANGED rows
      PROVE  QueriesTyped'
  BY <1>2 DEF End
<1>3. ASSUME NEW r \in Readers, ReaderNext(r) PROVE QueriesTyped'
  <2>1. CASE \E q \in Questions : LookUpHit(r, q)
    BY <2>1 DEF LookUpHit
  <2>2. CASE LookUpMiss(r) \/ Refresh(r) \/ Answer(r)
    BY <2>2 DEF LookUpMiss, Refresh, Answer
  <2>3. CASE Search(r) /\ ~End(r, "answered")
    <3>1. /\ ask[r] = "search" /\ ask' = [ask EXCEPT ![r] = "model"]
          /\ UNCHANGED <<hit, shares, rows>>
      BY <2>3 DEF Search
    <3> QED
      BY <3>1
  <2>4. CASE /\ Search(r) \/ Touch(r) \/ Store(r) \/ Abandon(r) \/ VictimQuery(r)
             /\ \E outcome \in AskEnded : End(r, outcome)
    <3>1. UNCHANGED rows
      BY <2>4 DEF Search, Touch, Store, Abandon, VictimQuery
    <3> QED
      BY <1>2, <2>4, <3>1
  <2> QED
    BY <1>3, <2>1, <2>2, <2>3, <2>4
       DEF ReaderNext, QueryStep, Touch, Store, Abandon, VictimQuery
<1>4. ASSUME NEW w \in Writers, WriterNext(w) PROVE QueriesTyped'
  BY <1>1, <1>4 DEF WriterNext, Enter, Proceed, Embed, MarkEntry, MarkCache, CommitMarks,
         LoseMarks, Release, cacheVars
<1>5. ASSUME NEW g \in Sweeps, SweepNext(g) PROVE QueriesTyped'
  BY <1>1, <1>5 DEF SweepNext, BeginSweep, SweepStep, SweepRow, CommitSweep, FailSweep,
         VictimSweep
<1>6. CASE UNCHANGED allVars
  BY <1>1, <1>6 DEF allVars, cacheVars
<1> QED
  BY <1>3, <1>4, <1>5, <1>6 DEF CacheNext

\* A job that has marked waits for a request whose row it wants, and that request
\* waits for nobody, or for runs of gc, and a cycle through these comes back to it
\* from a run of gc.
LEMMA MarkerIsFree == ArticlesInv /\ TurnInv /\ LocksInv => MarkersMeetOnlySweeps
<1> SUFFICES ASSUME ArticlesInv, TurnInv, LocksInv, marker # Nobody,
                    NEW y \in WaitsFor(marker),
                    marker \in WaitsFor(y)
                      \/ \E z \in WaitsFor(y) : marker \in WaitsFor(z)
             PROVE  /\ \E g \in Sweeping : Citing(item[marker]) \cap gone[g] # {}
                    /\ \E g \in Sweeping : due[g] \cap rows # {}
  BY DEF MarkersMeetOnlySweeps, Deadlocked
<1> USE ArticlesAssumption, QueryCacheAssumption
<1>1. /\ marker \in Jobs /\ marker \in Writers /\ marker \notin Readers
      /\ marker \notin Embedding /\ marker \notin Sweeping
  BY DEF LocksInv, Jobs, Embedding, Sweeping
<1>2. CASE phase[marker] = "write"
  <2>1. y = lock[item[marker]] /\ y # marker
    BY <1>1, <1>2 DEF WaitsFor, WriterWaitsFor, Embedding, Marking
  <2>2. /\ item[marker] \in Slugs
        /\ lock \in [Slugs -> Writers \cup {Nobody}]
    BY <1>1, <1>2 DEF ArticlesInv, HandInv, TypeOK
  <2>3. WaitsFor(y) = {}
    <3>1. CASE y = Nobody
      BY <3>1 DEF WaitsFor, Sweeping, Jobs
    <3>2. CASE y \in Writers
      <4>1. phase[y] \in {"loop", "write", "mark"}
        BY <2>1, <2>2, <3>2 DEF ArticlesInv, SessionInv
      <4>2. y \notin Jobs
        BY <1>1, <1>2, <2>1, <3>2, <4>1 DEF TurnInv
      <4>3. phase[y] # "write"
        BY <2>1, <2>2, <3>2, <4>2 DEF TurnInv
      <4>4. y \notin Readers /\ y \notin Embedding /\ y \notin Marking
        BY <3>2, <4>2 DEF Embedding, Marking, Jobs
      <4> QED
        BY <3>2, <4>3, <4>4 DEF WaitsFor, WriterWaitsFor
    <3> QED
      BY <2>1, <2>2, <3>1, <3>2
  <2> QED
    BY <2>3
<1>3. CASE phase[marker] # "write"
  <2>1. /\ marker \in Marking
        /\ y \in Holders(Citing(item[marker]) \ rows)
    BY <1>1, <1>3 DEF WaitsFor, WriterWaitsFor
  <2>2. y \in Sweeping /\ Citing(item[marker]) \cap gone[y] # {}
    BY <2>1 DEF Holders
  <2>3. ASSUME NEW g \in Sweeping
        PROVE  WaitsFor(g) = Holders(due[g])
    BY <2>3 DEF WaitsFor, Sweeping
  <2>4. ASSUME NEW g \in Sweeping, NEW z \in Holders(due[g])
        PROVE  z \in Sweeping \/ (z = marker /\ due[g] \cap rows # {})
    BY <2>4 DEF Holders
  <2>5. marker \notin WaitsFor(marker)
    BY <1>1, <1>3, <2>1 DEF WaitsFor, WriterWaitsFor, Holders
  <2>6. \E g \in Sweeping : marker \in WaitsFor(g)
    BY <2>2, <2>3, <2>4, <2>5
  <2> QED
    BY <1>1, <2>2, <2>3, <2>4, <2>6
<1> QED
  BY <1>2, <1>3

-----------------------------------------------------------------------------
\* The cache, its queries and its locks leave the articles as they are: every
\* behaviour of the composition is one of Articles, so what is proved of the
\* articles alone holds beside the cache.
THEOREM ArticlesBesideCache == CacheSpec => Spec
<1>1. CacheInit => Init
  BY DEF CacheInit
<1> QED
  BY <1>1, StepOfArticles, PTL DEF CacheSpec, Spec

\* A job that has marked an entry is in a cycle of waits with runs of gc only.
THEOREM MarkerDeadlocks == CacheSpec => []MarkersMeetOnlySweeps
<1>1. CacheSpec => [](ArticlesInv /\ TurnInv /\ LocksInv)
  <2>1. CacheInit => ArticlesInv /\ TurnInv /\ LocksInv
    BY ArticlesInit, ArticlesAssumption DEF CacheInit, Init, TurnInv, LocksInv
  <2>2. ArticlesInv /\ TurnInv /\ LocksInv /\ [CacheNext]_allVars
          => (ArticlesInv /\ TurnInv /\ LocksInv)'
    BY StepOfArticles, ArticlesNext, TurnNext, LocksNext
  <2> QED
    BY <2>1, <2>2, PTL DEF CacheSpec
<1> QED
  BY <1>1, MarkerIsFree, PTL

\* Entries, queries and table locks keep their types, and only transactions
\* that are open hold a table.
THEOREM CacheTyped == CacheSpec => []CacheTypeOK
<1> DEFINE Inv == /\ ArticlesInv /\ TurnInv /\ CacheTypes
                /\ LocksInv /\ QueriesTyped /\ SweepsTyped
<1>1. CacheInit => Inv
  <2> SUFFICES ASSUME CacheInit PROVE Inv
    OBVIOUS
  <2>1. ArticlesInv /\ TurnInv /\ LocksInv
    BY ArticlesInit, ArticlesAssumption DEF CacheInit, Init, TurnInv, LocksInv
  <2>2. CacheTypes /\ QueriesTyped /\ SweepsTyped
    BY DEF CacheInit, CacheTypes, QueriesTyped, SweepsTyped, Entry, NoEntry, Nothing, AskPhases
  <2> QED
    BY <2>1, <2>2
<1>2. Inv /\ [CacheNext]_allVars => Inv'
  <2>1. ArticlesInv => TypeOK
    BY DEF ArticlesInv
  <2> QED
    BY <2>1, StepOfArticles, ArticlesNext, TurnNext, CacheTypesNext, LocksNext, QueriesTypedNext,
       SweepsTypedNext
<1>3. Inv => CacheTypeOK
  BY DEF CacheTypeOK, CacheTypes, QueriesTyped, SweepsTyped, LocksInv, TurnInv, Jobs
<1> QED
  BY <1>1, <1>2, <1>3, PTL DEF CacheSpec

\* An answer that is not stale was stored after every job's write of each
\* article it cites.
THEOREM JobWritesInvalidate == CacheSpec => []FreshSinceJobWrites
<1>1. CacheInit => CacheInv
  <2> SUFFICES ASSUME CacheInit PROVE CacheInv
    OBVIOUS
  <2>1. ArticlesInv
    BY ArticlesInit DEF CacheInit
  <2>2. TurnInv /\ OriginInv /\ MarksInv
    BY ArticlesAssumption DEF CacheInit, Init, TurnInv, OriginInv, MarksInv, Jobs
  <2>3. CacheTypes /\ SweepsTyped /\ FreshSinceJobWrites
    BY DEF CacheInit, Init, CacheTypes, SweepsTyped, FreshSinceJobWrites, Entry, NoEntry, Nothing
  <2> QED
    BY <2>1, <2>2, <2>3 DEF CacheInv
<1>2. CacheInv /\ [CacheNext]_allVars => CacheInv'
  <2> SUFFICES ASSUME CacheInv, [CacheNext]_allVars PROVE CacheInv'
    OBVIOUS
  <2>1. [Next]_vars /\ ArticlesInv /\ TurnInv /\ CacheTypes /\ OriginInv /\ TypeOK
    BY StepOfArticles DEF CacheInv, ArticlesInv
  <2> QED
    BY <2>1, ArticlesNext, TurnNext, CacheTypesNext, SweepsTypedNext, OriginNext, MarksNext,
       FreshNext
    DEF CacheInv
<1>3. CacheInv => FreshSinceJobWrites
  BY DEF CacheInv
<1> QED
  BY <1>1, <1>2, <1>3, PTL DEF CacheSpec
=============================================================================
