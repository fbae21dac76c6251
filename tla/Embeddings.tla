----------------------------- MODULE Embeddings -----------------------------
(***************************************************************************)
(* The settings row, the vector column of chunks, and what reads and       *)
(* writes them: a change of the provider, a PUT of any settings, the last  *)
(* stage of an ingest, a reindex, and a query.                             *)
(*                                                                         *)
(* Each is one transaction of PostgreSQL at READ COMMITTED.  The settings  *)
(* are one JSON row that is read, changed and written whole; an UPDATE of  *)
(* it waits for another one's transaction and then overwrites what that    *)
(* has written.  ALTER TABLE takes ACCESS EXCLUSIVE on its table, even to  *)
(* find that the column is there (IF NOT EXISTS), and TRUNCATE does; a     *)
(* SELECT takes ACCESS SHARE; all are held to the end of the transaction.  *)
(* The server aborts one transaction of a cycle of waits.                  *)
(*                                                                         *)
(* A model stands for the provider's settings, and a vector for the model  *)
(* that made it; vectors of different dimensions cannot be compared, and   *)
(* none can be stored in a column of another dimension.  The column of     *)
(* query_cache is changed together with that of chunks and is left out, as *)
(* are domains.                                                            *)
(***************************************************************************)
EXTENDS Naturals, FiniteSets

CONSTANTS
    Models,     \* embedding models
    DimOf,      \* [Models -> Nat \ {0}]
    Chunks,     \* ids of rows of chunks
    BatchSize,  \* reindex_batch_size
    Txns,       \* transactions that run at a time
    MaxVersion, \* bound: embedding versions that are PUT
    MaxChanges  \* bound: updates of the provider and PUTs of the settings

NoModel == "no_model"

ASSUME EmbeddingsAssumption ==
    /\ NoModel \notin Models
    /\ DimOf \in [Models -> Nat \ {0}]
    /\ IsFiniteSet(Chunks)
    /\ BatchSize \in Nat \ {0}
    /\ MaxVersion \in Nat \ {0}
    /\ MaxChanges \in Nat

VARIABLES
    conf,      \* Conf                  the committed settings
    column,    \* Nat                   dimension of the vector column, 0 if none
    chunk,     \* [Chunks -> ChunkRow]  committed rows of chunks
    txn,       \* [Txns -> Txn]
    changes,   \* 0..MaxChanges         counts updates and PUTs, for the bound
    disturbed  \* BOOLEAN   history: a PUT changed what the stored vectors depend on,
               \* or update_provider wrote over settings, or for a column, that it
               \* had not read

embVars == <<conf, column, chunk, txn, changes, disturbed>>

-----------------------------------------------------------------------------
\* NoModel: there is no provider in the settings.
Conf == [model : Models \cup {NoModel}, version : Nat \ {0}]

\* version is 0 before the row is inserted; vector, the model that made it.
ChunkRow == [version : Nat, vector : Models \cup {NoModel}]

TxnSteps == {"idle", "settings", "write", "alter", "truncate",
             "version", "embed", "lock", "batch", "search", "save"}

\* model and version are those that it has read; to, the model to change to; seen,
\* the dimension that an update has found; left, the batches that a reindex has to
\* go; done, the chunks that it has embedded.
Txn == [op : {"none", "update", "ingest", "reindex", "query"}, step : TxnSteps,
        model : Models \cup {NoModel}, version : Nat,
        to : Models \cup {NoModel}, seen : Nat, left : Nat, done : SUBSET Chunks]

NoTxn == [op |-> "none", step |-> "idle", model |-> NoModel, version |-> 0,
          to |-> NoModel, seen |-> 0, left |-> 0, done |-> {}]

TxnAt(x, op, step) == txn[x].op = op /\ txn[x].step = step
TxnGoto(x, step) == txn' = [txn EXCEPT ![x].step = step]
EndTxn(x) == txn' = [txn EXCEPT ![x] = NoTxn]

\* The transaction ends without a change.
RollBack(x) == EndTxn(x) /\ UNCHANGED <<conf, column, chunk, changes, disturbed>>

Written == {c \in Chunks : chunk[c].version > 0}

\* A vector of m can be stored in the column, once it is there.
Fits(m) == column \in {0, DimOf[m]}
ColumnFor(m) == IF column = 0 THEN DimOf[m] ELSE column

-----------------------------------------------------------------------------
(* Locks *)

\* Who has written the settings row; who has a lock, and an exclusive one, on
\* chunks; who has read query_cache.
RowHolders == {x \in Txns : TxnAt(x, "update", "alter") \/ TxnAt(x, "update", "truncate")}
ChunkOwners == {x \in Txns : TxnAt(x, "update", "truncate") \/ TxnAt(x, "reindex", "batch")}
ChunkHolders == ChunkOwners \cup {x \in Txns : TxnAt(x, "query", "save")}
CacheReaders == {x \in Txns : txn[x].op = "query"}

\* The transactions that x waits for.
Awaited(x) ==
    (CASE txn[x].step = "write" -> RowHolders
       [] txn[x].step \in {"alter", "embed", "lock"} -> ChunkHolders
       [] txn[x].step = "search" -> ChunkOwners
       [] txn[x].step \in {"truncate", "save"} -> CacheReaders
       [] OTHER -> {}) \ {x}

NoneAwaited(x) == Awaited(x) = {}

\* x is in a cycle of waits.
InCircle(x) ==
    \E y \in Awaited(x) : \/ x \in Awaited(y)
                          \/ \E z \in Awaited(y) : x \in Awaited(z)

-----------------------------------------------------------------------------
(* Writers of the settings *)

\* update_provider: the dimension of the column is looked up first.
BeginUpdate(x, m) ==
    /\ txn[x].step = "idle"
    /\ changes < MaxChanges /\ changes' = changes + 1
    /\ txn' = [txn EXCEPT ![x] = [@ EXCEPT !.op = "update", !.step = "settings",
                                           !.to = m, !.seen = column]]
    /\ UNCHANGED <<conf, column, chunk, disturbed>>

ReadSettings(x) ==
    /\ txn[x].step = "settings"
    /\ txn' = [txn EXCEPT ![x] = [@ EXCEPT !.step = "write", !.model = conf.model,
                                           !.version = conf.version]]
    /\ UNCHANGED <<conf, column, chunk, changes, disturbed>>

\* persist_provider has the row locked from here on.
WriteProvider(x) ==
    /\ TxnAt(x, "update", "write")
    /\ NoneAwaited(x)
    /\ TxnGoto(x, "alter")
    /\ UNCHANGED <<conf, column, chunk, changes, disturbed>>

\* The column of chunks is rebuilt or ensured.
AlterChunks(x) ==
    /\ txn[x].step = "alter"
    /\ NoneAwaited(x)
    /\ TxnGoto(x, "truncate")
    /\ UNCHANGED <<conf, column, chunk, changes, disturbed>>

\* The settings that x writes were not read as they are now.
Overwrites(x) == conf.model # txn[x].model \/ conf.version # txn[x].version

DimChanges(x) == txn[x].seen \notin {0, DimOf[txn[x].to]}

\* What update_provider does with the rows and the column of chunks.
Rebuild(x) ==
    /\ column' = IF DimChanges(x) THEN DimOf[txn[x].to] ELSE ColumnFor(txn[x].to)
    /\ chunk' = [c \in Chunks |-> IF DimChanges(x) THEN [chunk[c] EXCEPT !.vector = NoModel]
                                                   ELSE chunk[c]]
    /\ disturbed' = (disturbed \/ Overwrites(x) \/ column # txn[x].seen)
    /\ UNCHANGED changes

\* Fault: bump_embedding_version is not called.
CommitWithoutBump(x) ==
    /\ txn[x].step = "truncate"
    /\ NoneAwaited(x)
    /\ Rebuild(x)
    /\ conf' = [model |-> txn[x].to, version |-> txn[x].version]
    /\ EndTxn(x)

\* The column of query_cache, the version after a rebuild of either, and COMMIT.
CommitUpdate(x) ==
    /\ txn[x].step = "truncate"
    /\ NoneAwaited(x)
    /\ Rebuild(x)
    /\ conf' = [model |-> txn[x].to,
                version |-> txn[x].version + IF DimChanges(x) THEN 1 ELSE 0]
    /\ EndTxn(x)

\* Vectors that are there do not fit these settings, or may not: they have no
\* provider or one of another dimension, or an earlier version, as 1 is when the
\* body leaves it out.
Disturbs(m, v) == m = NoModel \/ DimOf[m] # DimOf[conf.model] \/ v < conf.version

\* PUT /settings: any body replaces the row, and COMMIT.  No column is rebuilt and
\* no version bumped.
PutSettings(m, v) ==
    /\ changes < MaxChanges /\ changes' = changes + 1
    /\ RowHolders = {}
    /\ conf' = [model |-> m, version |-> v]
    /\ disturbed' = (disturbed \/ Disturbs(m, v))
    /\ UNCHANGED <<column, chunk, txn>>

-----------------------------------------------------------------------------
(* Writers of chunks *)

Ingesting == {x \in Txns : txn[x].op = "ingest"}

\* _build_providers, which raises if there is none.
BeginJob(x, op) ==
    /\ txn[x].step = "idle"
    /\ conf.model # NoModel
    /\ \/ op = "ingest" /\ Cardinality(Written) + Cardinality(Ingesting) < Cardinality(Chunks)
       \/ op = "reindex"
    /\ txn' = [txn EXCEPT ![x] = [@ EXCEPT !.op = op, !.model = conf.model,
                                    !.step = IF op = "ingest" THEN "embed" ELSE "version"]]
    /\ UNCHANGED <<conf, column, chunk, changes, disturbed>>

\* Stage E of run_ingest, to COMMIT: the column is ensured, and a chunk is written
\* with version 1, whatever the current one is.
EmbedChunk(x) ==
    /\ txn[x].step = "embed"
    /\ NoneAwaited(x)
    /\ Fits(txn[x].model)
    /\ \E c \in Chunks \ Written :
        chunk' = [chunk EXCEPT ![c] = [version |-> 1, vector |-> txn[x].model]]
    /\ column' = ColumnFor(txn[x].model)
    /\ EndTxn(x)
    /\ UNCHANGED <<conf, changes, disturbed>>

\* get_embedding_version.
ReadVersion(x) ==
    /\ txn[x].step = "version"
    /\ txn' = [txn EXCEPT ![x].version = conf.version,
                          ![x].step = IF txn[x].op = "reindex" THEN "lock" ELSE "search"]
    /\ UNCHANGED <<conf, column, chunk, changes, disturbed>>

\* fetch_stale_batch of x finds these; x sees what it has written.
Stale(x) == {c \in Written : chunk[c].version # txn[x].version} \ txn[x].done

\* Fault: a batch that is not full is not planned.
FullBatches(total) == total \div BatchSize

\* plan_batches.
PlanBatches(total) == (total + BatchSize - 1) \div BatchSize

\* The column is ensured, and count_stale plans the batches.
LockChunks(x) ==
    /\ txn[x].step = "lock"
    /\ NoneAwaited(x)
    /\ txn' = [txn EXCEPT ![x].step = "batch",
                          ![x].left = PlanBatches(Cardinality(Stale(x)))]
    /\ UNCHANGED <<conf, column, chunk, changes, disturbed>>

EmbedBatch(x) ==
    /\ txn[x].step = "batch"
    /\ txn[x].left > 0
    /\ Fits(txn[x].model)
    /\ \E B \in SUBSET Stale(x) :
        /\ Cardinality(B) <= BatchSize
        /\ B = Stale(x) \/ Cardinality(B) = BatchSize
        /\ txn' = [txn EXCEPT ![x].left = @ - 1, ![x].done = @ \cup B]
    /\ UNCHANGED <<conf, column, chunk, changes, disturbed>>

CommitReindex(x) ==
    /\ txn[x].step = "batch"
    /\ txn[x].left = 0
    /\ chunk' = [c \in Chunks |->
                    IF c \in txn[x].done
                    THEN [version |-> txn[x].version, vector |-> txn[x].model]
                    ELSE chunk[c]]
    /\ column' = ColumnFor(txn[x].model)
    /\ EndTxn(x)
    /\ UNCHANGED <<conf, changes, disturbed>>

-----------------------------------------------------------------------------
(* A query that misses the answer cache *)

\* The cache is looked up, and the provider read; without one the answer is 422.
BeginQuery(x) ==
    /\ txn[x].step = "idle"
    /\ conf.model # NoModel
    /\ txn' = [txn EXCEPT ![x] = [@ EXCEPT !.op = "query", !.step = "version",
                                           !.model = conf.model]]
    /\ UNCHANGED <<conf, column, chunk, changes, disturbed>>

Comparable(x) ==
    \A c \in Written : chunk[c].version = txn[x].version /\ chunk[c].vector # NoModel
                        => Fits(txn[x].model)

\* hybrid_search compares with the vectors of the version.
Search(x) ==
    /\ txn[x].step = "search"
    /\ NoneAwaited(x)
    /\ Comparable(x)
    /\ TxnGoto(x, "save")
    /\ UNCHANGED <<conf, column, chunk, changes, disturbed>>

\* The answer is stored, which alters query_cache, and COMMIT.
SaveAnswer(x) == txn[x].step = "save" /\ NoneAwaited(x) /\ RollBack(x)

-----------------------------------------------------------------------------
\* The server's answer to a vector of the wrong dimension.
RejectVector(x) ==
    /\ NoneAwaited(x)
    /\ \/ txn[x].step = "embed" /\ ~Fits(txn[x].model)
       \/ txn[x].step = "batch" /\ txn[x].left > 0 /\ ~Fits(txn[x].model)
       \/ txn[x].step = "search" /\ ~Comparable(x)
    /\ RollBack(x)

\* Any other error, a cancel.
FailTxn(x) == txn[x].step # "idle" /\ RollBack(x)

\* The server's answer to a cycle of waits.
AbortTxn(x) == InCircle(x) /\ RollBack(x)

EmbInit ==
    /\ conf \in {[model |-> m, version |-> 1] : m \in Models}
    /\ column = 0
    /\ chunk = [c \in Chunks |-> [version |-> 0, vector |-> NoModel]]
    /\ txn = [x \in Txns |-> NoTxn]
    /\ changes = 0
    /\ disturbed = FALSE

\* What a transaction does of itself once it is under way.
TxnStep(x) ==
    \/ ReadSettings(x) \/ WriteProvider(x) \/ AlterChunks(x) \/ CommitUpdate(x)
    \/ EmbedChunk(x) \/ ReadVersion(x) \/ LockChunks(x) \/ EmbedBatch(x)
    \/ CommitReindex(x) \/ Search(x) \/ SaveAnswer(x)
    \/ RejectVector(x) \/ AbortTxn(x)

EmbNext ==
    \/ \E m \in Models \cup {NoModel}, v \in 1..MaxVersion : PutSettings(m, v)
    \/ \E x \in Txns :
        \/ \E m \in Models : BeginUpdate(x, m)
        \/ \E op \in {"ingest", "reindex"} : BeginJob(x, op)
        \/ BeginQuery(x) \/ TxnStep(x) \/ FailTxn(x)

EmbSpec == EmbInit /\ [][EmbNext]_embVars

-----------------------------------------------------------------------------
(* Properties *)

EmbTypeOK ==
    /\ conf \in Conf
    /\ column \in Nat
    /\ chunk \in [Chunks -> ChunkRow]
    /\ txn \in [Txns -> Txn]
    /\ changes \in 0..MaxChanges
    /\ disturbed \in BOOLEAN

\* update_provider, vector_arm: the column has the provider's dimension, and every
\* chunk of the current version has a vector that a query can be compared with,
\* whatever jobs run beside changes of the provider, until an administrator's PUT
\* takes the provider or its dimension away or the version back, or two of them
\* write the settings at once.
VisibleVectorsFit ==
    ~disturbed =>
        /\ Fits(conf.model)
        /\ \A c \in Written : chunk[c].version = conf.version =>
            chunk[c].vector # NoModel /\ DimOf[chunk[c].vector] = DimOf[conf.model]

\* reindex_domain_chunks: a reindex that commits leaves no chunk behind its version,
\* though an ingest may have written one after it began.
ReindexLeavesNoneStale ==
    [][\A x \in Txns : CommitReindex(x) =>
        \A c \in Written : /\ chunk'[c].version = txn[x].version
                           /\ chunk[c].version # txn[x].version
                                => chunk'[c].vector = txn[x].model]_embVars

\* The transactions under way.
Running == {x \in Txns : txn[x].op # "none"}
=============================================================================
