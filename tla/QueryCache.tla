----------------------------- MODULE QueryCache -----------------------------
(***************************************************************************)
(* The query-answer cache of one domain beside the writers of Articles.    *)
(*                                                                         *)
(* A query is one transaction: look the question up, and on a miss search  *)
(* the chunks, call the model and store the answer with the articles it    *)
(* cites; nothing is committed before the store.  A job marks the entries  *)
(* that cite an article it wrote as stale, in its own transaction; a       *)
(* user's write marks none.  A run of gc deletes the domain's expired      *)
(* entries in a transaction of its own.                                    *)
(*                                                                         *)
(* Locks are PostgreSQL's, to the end of the transaction.  A SELECT takes  *)
(* ACCESS SHARE on the table, an UPDATE ROW EXCLUSIVE and the row; ALTER   *)
(* TABLE, which every store (on query_cache) and every ingest (on chunks)  *)
(* begins with, takes ACCESS EXCLUSIVE, waits for every other holder, and  *)
(* makes newcomers queue behind it.  An UPDATE or DELETE of several rows   *)
(* takes them one by one, in any order.  The server aborts a transaction   *)
(* that is in a cycle of waits.                                            *)
(*                                                                         *)
(* An answer's text is abstracted to the revisions it can have been made   *)
(* from.  Similarity, hit counts and the entry's age are left out.         *)
(***************************************************************************)
EXTENDS Articles

CONSTANTS
    Readers,    \* queries
    Questions,  \* normalized questions
    Asks,       \* [Readers -> Questions]
    Sweeps      \* runs of gc

ASSUME QueryCacheAssumption ==
    /\ Asks \in [Readers -> Questions]
    /\ Readers \cap Writers = {}
    /\ Sweeps \cap (Readers \cup Writers) = {}
    /\ Nobody \notin Readers \cup Sweeps

VARIABLES
    cache,   \* [Questions -> Entry]  the committed rows of query_cache
    ask,     \* [Readers -> AskPhases]
    read,    \* [Readers -> [Slugs -> Nat]]  revisions of the articles found
    hit,     \* [Readers -> Questions \cup {NoQuestion}]  the entry looked up
    shares,  \* SUBSET Readers        who holds ACCESS SHARE on query_cache
    marker,  \* Writers \cup {Nobody} who holds ROW EXCLUSIVE on query_cache
    rows,    \* SUBSET Questions      entries the marker has updated
    chunks,  \* Writers \cup {Nobody} who holds ACCESS EXCLUSIVE on chunks
    sweep,   \* [Sweeps -> {"idle", "sweep", "ended"}]
    due,     \* [Sweeps -> SUBSET Questions]  expired entries not yet deleted
    gone     \* [Sweeps -> SUBSET Questions]  deleted ones, not yet committed

sweepVars == <<sweep, due, gone>>
cacheVars == <<cache, ask, read, hit, shares, marker, rows, chunks, sweepVars>>
allVars == <<vars, cacheVars>>

-----------------------------------------------------------------------------
NoQuestion == "no_question"
AskEnded == {"answered", "abandoned", "victim"}
AskPhases == {"idle", "hit", "search", "model", "store"} \cup AskEnded

\* rec is query_cache_articles.rev: the article's revision when the answer was
\* stored, 0 for an article it does not cite.  made is not stored: the newest
\* revisions that the answer's text can come from.
Entry == [made : [Slugs -> Nat], rec : [Slugs -> Nat], stale : BOOLEAN]

Nothing == [s \in Slugs |-> 0]
NoEntry == [made |-> Nothing, rec |-> Nothing, stale |-> FALSE]

Cached == {q \in Questions : cache[q] # NoEntry}
Citing(s) == {q \in Questions : cache[q].rec[s] > 0}

\* Articles that have chunks: those that an ingest wrote at some time.  No other
\* writer makes chunks, and none replaces them.
Indexed == {s \in Slugs : \E v \in revs : v.slug = s /\ Kind[v.ref] = "ingest"}

\* Queries that hold ACCESS SHARE on chunks.
Searched == {r \in Readers : ask[r] \in {"model", "store"}}

\* Queries that ask for ACCESS EXCLUSIVE on query_cache, jobs that ask for it
\* on chunks.
Storing == {r \in Readers : ask[r] = "store"}
Embedding == {w \in Writers : /\ Kind[w] = "ingest"
                              /\ phase[w] = "mark"
                              /\ chunks # w}

\* Fault: the entries are marked before the chunks are written.
MarkingFirst == {w \in Jobs : phase[w] = "mark"}

\* Jobs that mark the entries of their article.
Marking == {w \in Jobs : phase[w] = "mark"} \ Embedding

\* Runs of gc that hold ROW EXCLUSIVE on query_cache.
Sweeping == {g \in Sweeps : sweep[g] = "sweep"}

\* Entries that a run of gc has deleted and keeps locked.
Deleted == UNION {gone[g] : g \in Sweeps}

-----------------------------------------------------------------------------
(* Queries *)

\* Fault: the session of a query is never closed.
EndUnclosed(r, outcome) ==
    /\ ask' = [ask EXCEPT ![r] = outcome]
    /\ read' = [read EXCEPT ![r] = Nothing]
    /\ hit' = [hit EXCEPT ![r] = NoQuestion]
    /\ UNCHANGED shares

\* The query's transaction ends.
End(r, outcome) ==
    /\ ask' = [ask EXCEPT ![r] = outcome]
    /\ read' = [read EXCEPT ![r] = Nothing]
    /\ hit' = [hit EXCEPT ![r] = NoQuestion]
    /\ shares' = shares \ {r}

\* lookup finds the question itself, or else an entry that is near enough.
LookUpHit(r, q) ==
    /\ ask[r] = "idle"
    /\ Storing = {}
    /\ q \in Cached
    /\ Asks[r] \in Cached => q = Asks[r]
    /\ ask' = [ask EXCEPT ![r] = "hit"]
    /\ hit' = [hit EXCEPT ![r] = q]
    /\ shares' = shares \cup {r}
    /\ UNCHANGED <<cache, read, marker, rows, chunks, sweepVars>>

LookUpMiss(r) ==
    /\ ask[r] = "idle"
    /\ Storing = {}
    /\ Asks[r] \notin Cached
    /\ ask' = [ask EXCEPT ![r] = "search"]
    /\ shares' = shares \cup {r}
    /\ UNCHANGED <<cache, read, hit, marker, rows, chunks, sweepVars>>

\* refresh=1 does not look the question up.
Refresh(r) ==
    /\ ask[r] = "idle"
    /\ ask' = [ask EXCEPT ![r] = "search"]
    /\ UNCHANGED <<cache, read, hit, shares, marker, rows, chunks, sweepVars>>

\* A hit is counted in its row, which may wait for the job that marked it or a
\* gc that deleted it, and committed before the answer goes out.  A DELETE that
\* meets the row later finds that it has not expired.
Touch(r) ==
    /\ ask[r] = "hit"
    /\ hit[r] \notin rows \cup Deleted
    /\ End(r, "answered")
    /\ due' = [g \in Sweeps |-> due[g] \ {hit[r]}]
    /\ UNCHANGED <<cache, marker, rows, chunks, sweep, gone>>

\* retrieve: passages of some articles, or none and "don't know".
Search(r) ==
    /\ ask[r] = "search"
    /\ chunks = Nobody
    /\ Embedding = {}
    /\ \E found \in SUBSET Indexed :
        IF found = {}
        THEN End(r, "answered")
        ELSE /\ ask' = [ask EXCEPT ![r] = "model"]
             /\ read' = [read EXCEPT ![r] =
                           [s \in Slugs |-> IF s \in found THEN art[s].rev ELSE 0]]
             /\ UNCHANGED <<hit, shares>>
    /\ UNCHANGED <<cache, marker, rows, chunks, sweepVars>>

\* The model has answered; upsert is called.
Answer(r) ==
    /\ ask[r] = "model"
    /\ ask' = [ask EXCEPT ![r] = "store"]
    /\ UNCHANGED <<cache, read, hit, shares, marker, rows, chunks, sweepVars>>

\* The entry that an answer becomes: its dependencies at their revisions now.
NewEntry(r) ==
    [made |-> read[r],
     rec |-> [s \in Slugs |-> IF read[r][s] > 0 THEN art[s].rev ELSE 0],
     stale |-> FALSE]

\* Fault: no ALTER TABLE before the INSERT.
StoreUnfenced(r) ==
    /\ ask[r] = "store"
    /\ Asks[r] \notin rows \cup Deleted
    /\ cache' = [cache EXCEPT ![Asks[r]] = NewEntry(r)]
    /\ End(r, "answered")
    /\ UNCHANGED <<marker, rows, chunks, sweepVars>>

\* upsert, once nobody else holds query_cache: ALTER TABLE, INSERT or UPDATE
\* of the entry, its dependencies, commit.
Store(r) ==
    /\ ask[r] = "store"
    /\ shares \subseteq {r}
    /\ marker = Nobody
    /\ Sweeping = {}
    /\ cache' = [cache EXCEPT ![Asks[r]] = NewEntry(r)]
    /\ End(r, "answered")
    /\ UNCHANGED <<marker, rows, chunks, sweepVars>>

\* Any other end: the client has gone, the provider fails, a crash.
Abandon(r) ==
    /\ ask[r] \notin {"idle"} \cup AskEnded
    /\ End(r, "abandoned")
    /\ UNCHANGED <<cache, marker, rows, chunks, sweepVars>>

-----------------------------------------------------------------------------
(* gc_housekeeping *)

\* delete_expired: the DELETE sees the committed entries that are past their
\* time to live.
BeginSweep(g) ==
    /\ sweep[g] = "idle"
    /\ Storing = {}
    /\ sweep' = [sweep EXCEPT ![g] = "sweep"]
    /\ \E expired \in SUBSET Cached : due' = [due EXCEPT ![g] = expired]
    /\ UNCHANGED <<cache, ask, read, hit, shares, marker, rows, chunks, gone>>

\* It reaches a row that nobody else has locked.
SweepRow(g, q) ==
    /\ q \in due[g] \ (rows \cup Deleted)
    /\ due' = [due EXCEPT ![g] = @ \ {q}]
    /\ gone' = [gone EXCEPT ![g] = @ \cup {q}]
    /\ UNCHANGED <<cache, ask, read, hit, shares, marker, rows, chunks, sweep>>

\* One commit, after the DELETE has come to its end; another run's DELETE passes
\* over the rows it finds gone.
CommitSweep(g) ==
    /\ sweep[g] = "sweep" /\ due[g] = {}
    /\ sweep' = [sweep EXCEPT ![g] = "ended"]
    /\ cache' = [q \in Questions |-> IF q \in gone[g] THEN NoEntry ELSE cache[q]]
    /\ due' = [h \in Sweeps |-> due[h] \ gone[g]]
    /\ gone' = [gone EXCEPT ![g] = {}]
    /\ UNCHANGED <<ask, read, hit, shares, marker, rows, chunks>>

\* A crash, an error or arq's timeout rolls the whole run back.
FailSweep(g) ==
    /\ sweep[g] = "sweep"
    /\ sweep' = [sweep EXCEPT ![g] = "ended"]
    /\ due' = [due EXCEPT ![g] = {}]
    /\ gone' = [gone EXCEPT ![g] = {}]
    /\ UNCHANGED <<cache, ask, read, hit, shares, marker, rows, chunks>>

-----------------------------------------------------------------------------
(* Writers *)

\* Stage E of an ingest: ALTER TABLE chunks, then the article's new chunks.
Embed(w) ==
    /\ w \in Embedding
    /\ chunks = Nobody
    /\ Searched = {}
    /\ chunks' = w
    /\ UNCHANGED <<cache, ask, read, hit, shares, marker, rows, sweepVars>>
    /\ UNCHANGED vars

\* mark_cache_stale: the UPDATE reaches a committed entry that cites the article
\* and that nobody else has locked.
MarkEntry(w, q) ==
    /\ w \in Marking
    /\ marker = w \/ Storing = {}
    /\ q \in Citing(item[w]) \ (rows \cup Deleted)
    /\ marker' = w
    /\ rows' = rows \cup {q}
    /\ UNCHANGED <<cache, ask, read, hit, shares, chunks, sweepVars>>
    /\ UNCHANGED vars

\* It has marked them all; the table stays locked even if there was none.
MarkCache(w) ==
    /\ w \in Marking
    /\ marker = w \/ Storing = {}
    /\ Citing(item[w]) \subseteq rows
    /\ Mark(w)
    /\ marker' = w
    /\ UNCHANGED <<cache, ask, read, hit, shares, rows, chunks, sweepVars>>

\* Fault: the locks of a job that ended stay.
ReleaseNothing(w) == UNCHANGED <<ask, read, hit, shares, marker, rows, chunks, sweepVars>>

Release(w) ==
    /\ marker' = IF marker = w THEN Nobody ELSE marker
    /\ rows' = IF marker = w THEN {} ELSE rows
    /\ chunks' = IF chunks = w THEN Nobody ELSE chunks
    /\ UNCHANGED <<ask, read, hit, shares, sweepVars>>

\* The commit of a writer is the commit of its marks.
CommitMarks(w) ==
    /\ Commit(w)
    /\ cache' = [q \in Questions |->
                   [cache[q] EXCEPT !.stale = @ \/ (marker = w /\ q \in rows)]]
    /\ Release(w)

\* Any other end loses them.
LoseMarks(w) ==
    /\ Conflict(w) \/ Fail(w)
    /\ Release(w)
    /\ UNCHANGED cache

\* Steps of Articles that do not touch the cache: Proceed of a writer that is
\* under way, Enter of one that comes.
Proceed(w) ==
    /\ \/ Flush(w)
       \/ \E s \in Slugs : \/ PickIngest(w, s) \/ PickFix(w, s)
                           \/ PickFormat(w, s) \/ SkipFormat(w, s)
    /\ UNCHANGED cacheVars

Enter(w) == (UserStep(w) \/ BeginJob(w)) /\ UNCHANGED cacheVars

-----------------------------------------------------------------------------
(* Waiting *)

\* Transactions that have locked one of these entries.
Holders(entries) ==
    {g \in Sweeping : entries \cap gone[g] # {}}
      \cup (IF entries \cap rows = {} THEN {} ELSE {marker})

\* Whom a transaction waits for: holders of a lock and earlier waiters.
QueryWaitsFor(r) ==
    CASE ask[r] = "hit" -> Holders({hit[r]})
      [] ask[r] = "search" -> {chunks} \cup Embedding
      [] ask[r] = "store" -> (shares \ {r}) \cup {marker} \cup Sweeping
      [] OTHER -> {}

WriterWaitsFor(w) ==
    CASE phase[w] = "write" -> {lock[item[w]]} \ {w}
      [] w \in Embedding -> {chunks} \cup Searched
      [] w \in Marking -> IF marker = w \/ Storing = {}
                          THEN Holders(Citing(item[w]) \ rows)
                          ELSE Storing
      [] OTHER -> {}

WaitsFor(x) ==
    IF x \in Readers THEN QueryWaitsFor(x)
    ELSE IF x \in Writers THEN WriterWaitsFor(x)
    ELSE IF x \in Sweeping THEN Holders(due[x])
    ELSE {}

\* x is in a cycle of waits.
Deadlocked(x) ==
    \E y \in WaitsFor(x) :
        \/ x \in WaitsFor(y)
        \/ \E z \in WaitsFor(y) : x \in WaitsFor(z)

\* The server breaks a cycle after deadlock_timeout: it aborts a query or a run
\* of gc here; that it aborts a job is one of the ways of Fail.
VictimQuery(r) ==
    /\ Deadlocked(r)
    /\ End(r, "victim")
    /\ UNCHANGED <<cache, marker, rows, chunks, sweepVars>>

VictimSweep(g) == FailSweep(g) /\ Deadlocked(g)

-----------------------------------------------------------------------------
CacheInit ==
    /\ Init
    /\ cache = [q \in Questions |-> NoEntry]
    /\ ask = [r \in Readers |-> "idle"]
    /\ read = [r \in Readers |-> Nothing]
    /\ hit = [r \in Readers |-> NoQuestion]
    /\ shares = {}
    /\ marker = Nobody
    /\ rows = {}
    /\ chunks = Nobody
    /\ sweep = [g \in Sweeps |-> "idle"]
    /\ due = [g \in Sweeps |-> {}]
    /\ gone = [g \in Sweeps |-> {}]

\* What a query does of itself once it is under way.
QueryStep(r) == Touch(r) \/ Search(r) \/ Answer(r) \/ Store(r)

ReaderNext(r) ==
    /\ \/ \E q \in Questions : LookUpHit(r, q)
       \/ LookUpMiss(r) \/ Refresh(r) \/ QueryStep(r) \/ Abandon(r) \/ VictimQuery(r)
    /\ UNCHANGED vars

WriterNext(w) ==
    \/ Enter(w) \/ Proceed(w) \/ Embed(w) \/ MarkCache(w)
    \/ \E q \in Questions : MarkEntry(w, q)
    \/ CommitMarks(w) \/ LoseMarks(w)

\* What a run of gc does of itself once its DELETE has begun.
SweepStep(g) == CommitSweep(g) \/ \E q \in Questions : SweepRow(g, q)

SweepNext(g) ==
    /\ BeginSweep(g) \/ SweepStep(g) \/ FailSweep(g) \/ VictimSweep(g)
    /\ UNCHANGED vars

CacheNext ==
    \/ \E r \in Readers : ReaderNext(r)
    \/ \E w \in Writers : WriterNext(w)
    \/ \E g \in Sweeps : SweepNext(g)

CacheSpec == CacheInit /\ [][CacheNext]_allVars

\* A transaction under way goes on when it can: the processes are up, the
\* provider's client gives up in the end, and the server looks for deadlocks.
CacheFairSpec ==
    /\ CacheSpec
    /\ \A r \in Readers : WF_allVars(QueryStep(r) /\ UNCHANGED vars)
    /\ \A w \in Writers :
          WF_allVars(\/ Proceed(w) \/ Embed(w) \/ MarkCache(w) \/ CommitMarks(w)
                     \/ \E q \in Questions : MarkEntry(w, q)
                     \/ Conflict(w) /\ LoseMarks(w))
    /\ \A g \in Sweeps : WF_allVars(SweepStep(g) /\ UNCHANGED vars)
    /\ WF_allVars(/\ \/ \E r \in Readers : VictimQuery(r)
                     \/ \E g \in Sweeps : VictimSweep(g)
                  /\ UNCHANGED vars)
-----------------------------------------------------------------------------
(* Properties *)

\* Entries and transactions have their types, and the locks belong to
\* transactions that are open.
CacheTypeOK ==
    /\ cache \in [Questions -> Entry]
    /\ ask \in [Readers -> AskPhases]
    /\ read \in [Readers -> [Slugs -> Nat]]
    /\ hit \in [Readers -> Questions \cup {NoQuestion}]
    /\ shares \subseteq {r \in Readers : ask[r] \notin {"idle"} \cup AskEnded}
    /\ {marker, chunks} \subseteq {turn, Nobody}
    /\ rows \in SUBSET Questions
    /\ sweep \in [Sweeps -> {"idle", "sweep", "ended"}]
    /\ {due, gone} \subseteq [Sweeps -> SUBSET Questions]
    /\ \A g \in Sweeps \ Sweeping : due[g] = {} /\ gone[g] = {}

\* Invalidation is atomic with the article write, for the writes of jobs: an
\* entry that is not stale was stored after the last one of each article it
\* cites, though dependencies are read, marked and stored by transactions that
\* do not see each other's work.
FreshSinceJobWrites ==
    \A q \in Questions : ~cache[q].stale =>
        \A v \in revs : v.origin = "ai" /\ q \in Citing(v.slug) =>
            v.no <= cache[q].rec[v.slug]

\* A job that has marked an entry, and so has its model calls behind it, is in a
\* deadlock with nobody but runs of gc: one has deleted an entry it must mark,
\* one is to delete an entry it has marked.  It has taken its table locks by
\* then, and no query or request can close a cycle through it.
MarkersMeetOnlySweeps ==
    marker # Nobody /\ Deadlocked(marker) =>
        /\ \E g \in Sweeping : Citing(item[marker]) \cap gone[g] # {}
        /\ \E g \in Sweeping : due[g] \cap rows # {}

\* A query under way ends: it waits for ingests, for marking jobs and for
\* other queries, but never for ever.
QueriesEnd ==
    \A r \in Readers :
        ask[r] \in {"hit", "search", "model", "store"} ~> ask[r] \in AskEnded

\* Requests, jobs and runs of gc that are under way end, though they wait for one
\* another's rows, an ingest for every query that has searched, and a job that
\* marks for every query that stores.
WritersEnd ==
    /\ \A w \in Writers : phase[w] \in {"loop", "write", "mark"} ~> phase[w] \in Ended
    /\ \A g \in Sweeps : sweep[g] = "sweep" ~> sweep[g] = "ended"

\* README.md:66-68: cached answers are marked stale the moment a cited article
\* changes.  So an answer that is not stale comes from the current revisions.
StaleOnceChanged ==
    \A q \in Questions : ~cache[q].stale =>
        \A s \in Slugs : q \in Citing(s) => cache[q].made[s] = art[s].rev

\* The design's "miss -> full path -> upsert": no query is aborted for having
\* been asked while another one was.
NoQueryIsVictim == \A r \in Readers : ask[r] # "victim"
=============================================================================
