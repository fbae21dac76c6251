---------------------------- MODULE StoreProofs -----------------------------
(***************************************************************************)
(* Theorems about Embeddings and Sources: what is stored of an article's   *)
(* chunks and of uploaded documents, for any number of models, dimensions, *)
(* chunks, transactions, documents and uploads, and archives of any        *)
(* length.                                                                 *)
(*                                                                         *)
(* Embeddings: who has rebuilt or ensured the column has chunks to itself  *)
(* until it commits (OwnersInv), so a vector always has the dimension of   *)
(* the column (VectorInv), and one that a reindex has embedded still fits  *)
(* when it commits (BatchInv). Versions are read from the settings and     *)
(* never run ahead of them, so after a bump no chunk has the new version   *)
(* (ConfInv); while there is no column nobody has read another dimension.  *)
(* As the column cannot change under a reindex and no chunk can be added,  *)
(* the batches that it has planned still cover what is stale (PlanInv).    *)
(*                                                                         *)
(* Sources: what an upload has sent is at every moment what it has         *)
(* inserted and what is left of it that is acceptable (SentInv), and no    *)
(* one else has inserted or stored what it has inserted (ApartInv), so     *)
(* that its commit stores exactly what was sent and takes nothing from     *)
(* another upload.                                                         *)
(***************************************************************************)
EXTENDS Embeddings, Sources, FiniteSetTheorems, TLAPS

(* Embeddings *)

\* What a transaction is, and has read, where it is.
StepOK(t) ==
    /\ t.step = "idle" => t = NoTxn
    /\ t.step # "batch" => t.done = {}
    /\ t.step \in {"settings", "write", "alter", "truncate"} => t.op = "update"
    /\ t.step = "embed" => t.op = "ingest"
    /\ t.step \in {"lock", "batch"} => t.op = "reindex"
    /\ t.step = "version" => t.op \in {"reindex", "query"}
    /\ t.step \in {"search", "save"} => t.op = "query"
    /\ t.op = "update" => t.to \in Models
    /\ t.op \in {"ingest", "reindex", "query"} => t.model \in Models
    /\ t.step \in {"write", "alter", "truncate", "lock", "batch", "search", "save"}
          => t.version > 0

StepInv == \A x \in Txns : StepOK(txn[x])

\* Whoever has changed chunks has it to itself.
OwnersInv == \A x \in ChunkOwners, y \in ChunkHolders : x = y

\* Every vector has the dimension of the column.
VectorInv == \A c \in Chunks : chunk[c].vector # NoModel => DimOf[chunk[c].vector] = column

\* What a reindex has embedded fits.
BatchInv == \A x \in Txns : TxnAt(x, "reindex", "batch") /\ txn[x].done # {} => Fits(txn[x].model)

\* There is a provider, nothing is ahead of the settings, and as long as there is no
\* column, nobody has read a model of another dimension.
ConfInv ==
    ~disturbed =>
        /\ conf.model \in Models
        /\ \A c \in Chunks : chunk[c].version <= conf.version
        /\ \A x \in Txns : txn[x].version <= conf.version
        /\ column = 0 => \A x \in Txns :
              txn[x].model # NoModel => DimOf[txn[x].model] = DimOf[conf.model]

EmbInv == /\ EmbTypeOK /\ StepInv /\ OwnersInv /\ VectorInv /\ BatchInv /\ ConfInv
          /\ VisibleVectorsFit

-----------------------------------------------------------------------------
\* Nothing is written and nobody has begun.
LEMMA EmbStarts == EmbInit => EmbInv
<1> SUFFICES ASSUME EmbInit PROVE EmbInv
  OBVIOUS
<1> USE EmbeddingsAssumption DEF EmbInit
<1>1. EmbTypeOK
  <2> NoTxn \in Txn
    BY DEF Txn, NoTxn, TxnSteps
  <2> conf \in Conf
    BY DEF Conf
  <2>1. chunk \in [Chunks -> ChunkRow] /\ txn \in [Txns -> Txn]
    BY DEF ChunkRow
  <2>2. changes = 0 /\ column = 0 /\ disturbed \in BOOLEAN /\ MaxChanges \in Nat
    OBVIOUS
  <2>3. changes \in 0..MaxChanges /\ column \in Nat
    BY ONLY <2>2
  <2> QED
    BY <2>1, <2>2, <2>3 DEF EmbTypeOK
<1>2. StepInv
  BY DEF StepInv, StepOK, NoTxn
<1>3. OwnersInv /\ BatchInv
  BY DEF OwnersInv, BatchInv, ChunkOwners, TxnAt, NoTxn
<1>4. VectorInv /\ ConfInv /\ VisibleVectorsFit
  BY DEF VectorInv, ConfInv, VisibleVectorsFit, Fits, Written, NoTxn
<1> QED
  BY <1>1, <1>2, <1>3, <1>4 DEF EmbInv

-----------------------------------------------------------------------------
\* A transaction of which this is the state has chunks to itself; it shares chunks.
OwnsChunks(t) == \/ t.op = "update" /\ t.step = "truncate"
                 \/ t.op = "reindex" /\ t.step = "batch"
HoldsChunks(t) == OwnsChunks(t) \/ (t.op = "query" /\ t.step = "save")

\* The locks on chunks, one transaction at a time.
LEMMA LocksOfChunks ==
    /\ ChunkOwners = {x \in Txns : OwnsChunks(txn[x])}
    /\ ChunkHolders = {x \in Txns : HoldsChunks(txn[x])}
    /\ ChunkOwners' = {x \in Txns : OwnsChunks(txn'[x])}
    /\ ChunkHolders' = {x \in Txns : HoldsChunks(txn'[x])}
BY DEF ChunkOwners, ChunkHolders, TxnAt, OwnsChunks, HoldsChunks

\* A transaction goes on to t without a change of the tables: it has read nothing but
\* the settings, takes no lock that excludes another's, and has embedded what fits.
LEMMA OneGoesOn ==
    ASSUME EmbInv, NEW x \in Txns, NEW t \in Txn, StepOK(t),
           txn' = [txn EXCEPT ![x] = t],
           UNCHANGED <<conf, column, chunk, disturbed>>, changes' \in 0..MaxChanges,
           t.model \in {NoModel, conf.model, txn[x].model},
           t.version \in {0, conf.version, txn[x].version},
           OwnsChunks(t) => OwnsChunks(txn[x]) \/ ChunkHolders \ {x} = {},
           HoldsChunks(t) => HoldsChunks(txn[x]) \/ ChunkOwners \ {x} = {},
           t.op = "reindex" /\ t.step = "batch" /\ t.done # {} => Fits(t.model)
    PROVE  EmbInv'
<1>1. txn \in [Txns -> Txn] /\ EmbTypeOK'
  BY DEF EmbInv, EmbTypeOK
<1>2. \A y \in Txns : txn'[y] = IF y = x THEN t ELSE txn[y]
  BY <1>1
<1>3. StepInv'
  BY <1>2 DEF EmbInv, StepInv
<1>4. OwnersInv'
  <2> SUFFICES ASSUME NEW y \in Txns, NEW z \in Txns, OwnsChunks(txn'[y]), HoldsChunks(txn'[z])
               PROVE  y = z
    BY LocksOfChunks DEF OwnersInv
  <2>1. OwnsChunks(txn[y]) /\ HoldsChunks(txn[z]) => y = z
    BY LocksOfChunks DEF EmbInv, OwnersInv
  <2> QED
    BY <1>2, <2>1, LocksOfChunks
<1>5. VectorInv' /\ BatchInv'
  BY <1>2 DEF EmbInv, VectorInv, BatchInv, TxnAt, Fits
<1>6. ConfInv'
  <2>1. conf.version \in Nat
    BY DEF EmbInv, EmbTypeOK, Conf
  <2> QED
    BY <1>2, <2>1 DEF EmbInv, ConfInv
<1>7. VisibleVectorsFit'
  BY DEF EmbInv, VisibleVectorsFit, Fits, Written
<1> QED
  BY <1>1, <1>3, <1>4, <1>5, <1>6, <1>7 DEF EmbInv

\* The end of a transaction is such a step.
LEMMA OneRollsBack ==
    ASSUME EmbInv, NEW x \in Txns, RollBack(x)
    PROVE  EmbInv'
<1>1. NoTxn \in Txn /\ StepOK(NoTxn)
  BY DEF NoTxn, Txn, TxnSteps, StepOK
<1>2. changes' \in 0..MaxChanges
  BY DEF RollBack, EmbInv, EmbTypeOK
<1> QED
  BY <1>1, <1>2, OneGoesOn DEF RollBack, EndTxn, NoTxn, OwnsChunks, HoldsChunks

\* What is stale for a transaction is finite.
LEMMA StaleFinite ==
    ASSUME NEW x PROVE IsFiniteSet(Stale(x)) /\ Cardinality(Stale(x)) \in Nat
<1>1. Stale(x) \subseteq Chunks
  BY DEF Stale, Written
<1> QED
  BY <1>1, EmbeddingsAssumption, FS_Subset, FS_CardinalityType

\* plan_batches: the batches hold the total, the last one short or not.
LEMMA PlanCovers ==
    ASSUME NEW total \in Nat
    PROVE  PlanBatches(total) \in Nat /\ total <= PlanBatches(total) * BatchSize
<1> DEFINE a == total + BatchSize - 1
<1>1. a \in Nat /\ BatchSize \in Nat /\ BatchSize > 0
  BY EmbeddingsAssumption
<1>2. a \div BatchSize \in Nat /\ a = BatchSize * (a \div BatchSize) + (a % BatchSize)
  BY <1>1
<1>3. a % BatchSize \in 0..(BatchSize - 1)
  BY <1>1
<1> QED
  BY <1>1, <1>2, <1>3 DEF PlanBatches

\* Those steps of a transaction that change no table.
LEMMA QuietSteps ==
    ASSUME EmbInv, NEW x \in Txns,
           \/ \E m \in Models : BeginUpdate(x, m)
           \/ ReadSettings(x) \/ WriteProvider(x) \/ AlterChunks(x)
           \/ \E op \in {"ingest", "reindex"} : BeginJob(x, op)
           \/ ReadVersion(x) \/ LockChunks(x) \/ EmbedBatch(x) \/ BeginQuery(x) \/ Search(x)
    PROVE  EmbInv'
<1> DEFINE q == txn[x]
           Good(t) ==
              /\ t \in Txn /\ StepOK(t)
              /\ t.model \in {NoModel, conf.model, q.model}
              /\ t.version \in {0, conf.version, q.version}
              /\ OwnsChunks(t) => OwnsChunks(q) \/ ChunkHolders \ {x} = {}
              /\ HoldsChunks(t) => HoldsChunks(q) \/ ChunkOwners \ {x} = {}
              /\ t.op = "reindex" /\ t.step = "batch" /\ t.done # {} => Fits(t.model)
           Quiet == UNCHANGED <<conf, column, chunk, disturbed>> /\ changes' \in 0..MaxChanges
           Moves == \E t : txn' = [txn EXCEPT ![x] = t] /\ Good(t)
<1>0. /\ q \in Txn /\ StepOK(q) /\ txn \in [Txns -> Txn]
      /\ conf.model \in Models \cup {NoModel}
      /\ conf.version \in Nat /\ conf.version > 0 /\ column \in Nat
      /\ q.op = "reindex" /\ q.step = "batch" /\ q.done # {} => Fits(q.model)
      /\ changes \in 0..MaxChanges /\ (UNCHANGED changes => changes' \in 0..MaxChanges)
      /\ (changes < MaxChanges /\ changes' = changes + 1 => changes' \in 0..MaxChanges)
  BY EmbeddingsAssumption DEF EmbInv, EmbTypeOK, StepInv, Conf, BatchInv, TxnAt
<1>1. q.step = "idle" => q = NoTxn
  BY <1>0 DEF StepOK
<1>2. ASSUME NEW m \in Models, BeginUpdate(x, m) PROVE Quiet /\ Moves
  <2> DEFINE t == [q EXCEPT !.op = "update", !.step = "settings", !.to = m, !.seen = column]
  <2>1. Quiet /\ txn' = [txn EXCEPT ![x] = t]
    BY <1>0, <1>2 DEF BeginUpdate
  <2>2. q.step = "idle"
    BY <1>2 DEF BeginUpdate
  <2>3. t \in Txn
    BY <1>0 DEF Txn, TxnSteps
  <2>4. /\ t.op = "update" /\ t.step = "settings" /\ t.to = m
        /\ t.model = q.model /\ t.version = q.version /\ t.done = q.done
    BY <1>0 DEF Txn
  <2> HIDE DEF t
  <2>5. Good(t)
    BY <1>0, <1>1, <2>2, <2>3, <2>4 DEF StepOK, OwnsChunks, HoldsChunks, NoTxn
  <2> QED
    BY <2>1, <2>5
<1>3. ASSUME ReadSettings(x) PROVE Quiet /\ Moves
  <2> DEFINE t == [q EXCEPT !.step = "write", !.model = conf.model, !.version = conf.version]
  <2>1. Quiet /\ txn' = [txn EXCEPT ![x] = t]
    BY <1>0, <1>3 DEF ReadSettings
  <2>2. q.step = "settings"
    BY <1>3 DEF ReadSettings
  <2>3. t \in Txn
    BY <1>0 DEF Txn, TxnSteps
  <2>4. /\ t.op = q.op /\ t.step = "write" /\ t.to = q.to
        /\ t.model = conf.model /\ t.version = conf.version /\ t.done = q.done
    BY <1>0 DEF Txn
  <2> HIDE DEF t
  <2>5. Good(t)
    BY <1>0, <1>1, <2>2, <2>3, <2>4 DEF StepOK, OwnsChunks, HoldsChunks, NoTxn
  <2> QED
    BY <2>1, <2>5
<1>4. ASSUME WriteProvider(x) PROVE Quiet /\ Moves
  <2> DEFINE t == [q EXCEPT !.step = "alter"]
  <2>1. Quiet /\ txn' = [txn EXCEPT ![x] = t]
    BY <1>0, <1>4 DEF WriteProvider, TxnAt, TxnGoto
  <2>2. q.step = "write" /\ q.op = "update"
    BY <1>4 DEF WriteProvider, TxnAt
  <2>3. t \in Txn
    BY <1>0 DEF Txn, TxnSteps
  <2>4. /\ t.op = q.op /\ t.step = "alter" /\ t.to = q.to
        /\ t.model = q.model /\ t.version = q.version /\ t.done = q.done
    BY <1>0 DEF Txn
  <2> HIDE DEF t
  <2>5. Good(t)
    BY <1>0, <1>1, <2>2, <2>3, <2>4 DEF StepOK, OwnsChunks, HoldsChunks, NoTxn
  <2> QED
    BY <2>1, <2>5
<1>5. ASSUME AlterChunks(x) PROVE Quiet /\ Moves
  <2> DEFINE t == [q EXCEPT !.step = "truncate"]
  <2>1. Quiet /\ txn' = [txn EXCEPT ![x] = t]
    BY <1>0, <1>5 DEF AlterChunks, TxnGoto, NoneAwaited, Awaited
  <2>2. q.step = "alter" /\ ChunkHolders \ {x} = {}
    BY <1>5 DEF AlterChunks, NoneAwaited, Awaited
  <2>3. t \in Txn
    BY <1>0 DEF Txn, TxnSteps
  <2>4. /\ t.op = q.op /\ t.step = "truncate" /\ t.to = q.to
        /\ t.model = q.model /\ t.version = q.version /\ t.done = q.done
    BY <1>0 DEF Txn
  <2> HIDE DEF t
  <2>5. Good(t)
    BY <1>0, <1>1, <2>2, <2>3, <2>4 DEF StepOK, OwnsChunks, HoldsChunks, NoTxn, ChunkHolders
  <2> QED
    BY <2>1, <2>5
<1>7. ASSUME NEW op \in {"ingest", "reindex"}, BeginJob(x, op) PROVE Quiet /\ Moves
  <2> DEFINE t == [q EXCEPT !.op = op, !.model = conf.model,
                       !.step = IF op = "ingest" THEN "embed" ELSE "version"]
  <2>1. Quiet /\ txn' = [txn EXCEPT ![x] = t]
    BY <1>0, <1>7 DEF BeginJob
  <2>2. q.step = "idle" /\ conf.model \in Models
    BY <1>0, <1>7 DEF BeginJob
  <2>3. t \in Txn
    BY <1>0 DEF Txn, TxnSteps
  <2>4. /\ t.op = op /\ t.step = (IF op = "ingest" THEN "embed" ELSE "version") /\ t.to = q.to
        /\ t.model = conf.model /\ t.version = q.version /\ t.done = q.done
    BY <1>0 DEF Txn
  <2> HIDE DEF t
  <2>5. Good(t)
    BY <1>0, <1>1, <2>2, <2>3, <2>4 DEF StepOK, OwnsChunks, HoldsChunks, NoTxn
  <2> QED
    BY <2>1, <2>5
<1>8. ASSUME ReadVersion(x) PROVE Quiet /\ Moves
  <2> DEFINE t == [q EXCEPT !.version = conf.version,
                       !.step = IF q.op = "reindex" THEN "lock" ELSE "search"]
  <2>1. Quiet /\ txn' = [txn EXCEPT ![x] = t]
    BY <1>0, <1>8 DEF ReadVersion
  <2>2. q.step = "version"
    BY <1>8 DEF ReadVersion
  <2>3. t \in Txn
    BY <1>0 DEF Txn, TxnSteps
  <2>4. /\ t.op = q.op /\ t.step = (IF q.op = "reindex" THEN "lock" ELSE "search") /\ t.to = q.to
        /\ t.model = q.model /\ t.version = conf.version /\ t.done = q.done
    BY <1>0 DEF Txn
  <2> HIDE DEF t
  <2>5. Good(t)
    BY <1>0, <1>1, <2>2, <2>3, <2>4 DEF StepOK, OwnsChunks, HoldsChunks, NoTxn
  <2> QED
    BY <2>1, <2>5
<1>9. ASSUME BeginQuery(x) PROVE Quiet /\ Moves
  <2> DEFINE t == [q EXCEPT !.op = "query", !.step = "version", !.model = conf.model]
  <2>1. Quiet /\ txn' = [txn EXCEPT ![x] = t]
    BY <1>0, <1>9 DEF BeginQuery
  <2>2. q.step = "idle" /\ conf.model \in Models
    BY <1>0, <1>9 DEF BeginQuery
  <2>3. t \in Txn
    BY <1>0 DEF Txn, TxnSteps
  <2>4. /\ t.op = "query" /\ t.step = "version" /\ t.to = q.to
        /\ t.model = conf.model /\ t.version = q.version /\ t.done = q.done
    BY <1>0 DEF Txn
  <2> HIDE DEF t
  <2>5. Good(t)
    BY <1>0, <1>1, <2>2, <2>3, <2>4 DEF StepOK, OwnsChunks, HoldsChunks, NoTxn
  <2> QED
    BY <2>1, <2>5
<1>10. ASSUME Search(x) PROVE Quiet /\ Moves
  <2> DEFINE t == [q EXCEPT !.step = "save"]
  <2>1. Quiet /\ txn' = [txn EXCEPT ![x] = t]
    BY <1>0, <1>10 DEF Search, TxnGoto, NoneAwaited, Awaited
  <2>2. q.step = "search" /\ ChunkOwners \ {x} = {}
    BY <1>10 DEF Search, NoneAwaited, Awaited
  <2>3. t \in Txn
    BY <1>0 DEF Txn, TxnSteps
  <2>4. /\ t.op = q.op /\ t.step = "save" /\ t.to = q.to
        /\ t.model = q.model /\ t.version = q.version /\ t.done = q.done
    BY <1>0 DEF Txn
  <2> HIDE DEF t
  <2>5. Good(t)
    BY <1>0, <1>1, <2>2, <2>3, <2>4 DEF StepOK, OwnsChunks, HoldsChunks, NoTxn
  <2> QED
    BY <2>1, <2>5
<1>11. ASSUME LockChunks(x) PROVE Quiet /\ Moves
  <2> DEFINE n == PlanBatches(Cardinality(Stale(x)))
             t == [q EXCEPT !.step = "batch", !.left = n]
  <2>1. Quiet /\ txn' = [txn EXCEPT ![x] = t]
    BY <1>0, <1>11 DEF LockChunks
  <2>2. q.step = "lock" /\ ChunkHolders \ {x} = {}
    BY <1>11 DEF LockChunks, NoneAwaited, Awaited
  <2>3. n \in Nat
    BY PlanCovers, StaleFinite
  <2> HIDE DEF n
  <2>4. t \in Txn
    BY <1>0, <2>3 DEF Txn, TxnSteps
  <2>5. /\ t.op = q.op /\ t.step = "batch" /\ t.to = q.to
        /\ t.model = q.model /\ t.version = q.version /\ t.done = q.done
    BY <1>0, <2>3 DEF Txn
  <2> HIDE DEF t
  <2>6. Good(t)
    BY <1>0, <2>2, <2>4, <2>5 DEF StepOK, OwnsChunks, HoldsChunks, ChunkHolders
  <2> QED
    BY <2>1, <2>6
<1>12. ASSUME EmbedBatch(x) PROVE Quiet /\ Moves
  <2>1. PICK B \in SUBSET Stale(x) :
           txn' = [txn EXCEPT ![x].left = @ - 1, ![x].done = @ \cup B]
    BY <1>12 DEF EmbedBatch
  <2> DEFINE t == [q EXCEPT !.left = @ - 1, !.done = @ \cup B]
  <2>2. Quiet /\ txn' = [txn EXCEPT ![x] = t]
    BY <1>0, <1>12, <2>1 DEF EmbedBatch
  <2>3. q.step = "batch" /\ q.left > 0 /\ q.left \in Nat /\ Fits(q.model) /\ B \subseteq Chunks
    BY <1>0, <1>12 DEF EmbedBatch, Txn, Stale, Written
  <2>4. t \in Txn
    <3>1. q.left - 1 \in Nat /\ q.done \cup B \in SUBSET Chunks
      BY <1>0, <2>3 DEF Txn
    <3> QED
      BY <1>0, <3>1 DEF Txn
  <2>5. /\ t.op = q.op /\ t.step = q.step /\ t.to = q.to
        /\ t.model = q.model /\ t.version = q.version
    BY <1>0 DEF Txn
  <2> HIDE DEF t
  <2>6. Good(t)
    BY <1>0, <2>3, <2>4, <2>5 DEF StepOK, OwnsChunks, HoldsChunks
  <2> QED
    BY <2>2, <2>6
<1> SUFFICES Quiet /\ Moves
  BY <1>0, OneGoesOn
<1> QED
  BY <1>2, <1>3, <1>4, <1>5, <1>7, <1>8, <1>9, <1>10, <1>11, <1>12

-----------------------------------------------------------------------------
(* Steps that change the tables *)

\* A transaction has ended, and the others are as they were.
LEMMA OthersStay ==
    ASSUME EmbInv, NEW x \in Txns, EndTxn(x)
    PROVE  /\ txn' \in [Txns -> Txn] /\ StepInv' /\ OwnersInv'
           /\ \A y \in Txns : txn'[y] = IF y = x THEN NoTxn ELSE txn[y]
<1>1. NoTxn \in Txn /\ StepOK(NoTxn)
  BY DEF NoTxn, Txn, TxnSteps, StepOK
<1>2. \A y \in Txns : txn'[y] = IF y = x THEN NoTxn ELSE txn[y]
  BY DEF EmbInv, EmbTypeOK, EndTxn
<1>3. txn' \in [Txns -> Txn] /\ StepInv'
  BY <1>1, <1>2 DEF EmbInv, EmbTypeOK, EndTxn, StepInv
<1>4. OwnersInv'
  <2>1. ~HoldsChunks(NoTxn)
    BY DEF HoldsChunks, OwnsChunks, NoTxn
  <2> QED
    BY <1>2, <2>1, LocksOfChunks DEF EmbInv, OwnersInv, HoldsChunks
<1> QED
  BY <1>2, <1>3, <1>4

\* What update_provider leaves: a column of its dimension, and no vector of another;
\* a new version if there may have been some.
LEMMA UpdateKeeps ==
    ASSUME EmbInv, NEW x \in Txns, CommitUpdate(x)
    PROVE  EmbInv'
<1> DEFINE q == txn[x]
<1>0. /\ q.op = "update" /\ q.to \in Models /\ q.version \in Nat /\ q.version > 0
      /\ q.seen \in Nat /\ conf.version \in Nat /\ column \in Nat
      /\ chunk \in [Chunks -> ChunkRow] /\ disturbed \in BOOLEAN /\ changes \in 0..MaxChanges
      /\ \A m \in Models : DimOf[m] \in Nat \ {0}
  BY EmbeddingsAssumption
     DEF EmbInv, EmbTypeOK, StepInv, StepOK, CommitUpdate, Conf, Txn
<1>1. /\ conf' = [model |-> q.to, version |-> q.version + IF DimChanges(x) THEN 1 ELSE 0]
      /\ Rebuild(x) /\ EndTxn(x)
  BY DEF CommitUpdate
<1>2. /\ txn' \in [Txns -> Txn] /\ StepInv' /\ OwnersInv'
      /\ \A y \in Txns : txn'[y] = IF y = x THEN NoTxn ELSE txn[y]
  BY <1>1, OthersStay
<1>3. /\ column' = IF DimChanges(x) \/ column = 0 THEN DimOf[q.to] ELSE column
      /\ \A c \in Chunks : chunk'[c] = IF DimChanges(x) THEN [chunk[c] EXCEPT !.vector = NoModel]
                                                         ELSE chunk[c]
      /\ ~disturbed' => /\ ~disturbed /\ column = q.seen
                        /\ q.model = conf.model /\ q.version = conf.version
  BY <1>0, <1>1 DEF Rebuild, ColumnFor, Overwrites
<1>4. /\ column' \in Nat /\ column' > 0 /\ disturbed' \in BOOLEAN
      /\ conf'.model = q.to
      /\ conf'.version = IF DimChanges(x) THEN q.version + 1 ELSE q.version
      /\ conf'.version \in Nat /\ conf'.version > 0
  BY <1>0, <1>1, <1>3 DEF Rebuild
<1>5. \A c \in Chunks : /\ chunk'[c] \in ChunkRow /\ chunk'[c].version = chunk[c].version
                        /\ chunk'[c].vector = IF DimChanges(x) THEN NoModel ELSE chunk[c].vector
  <2> SUFFICES ASSUME NEW c \in Chunks
               PROVE  /\ chunk'[c] \in ChunkRow /\ chunk'[c].version = chunk[c].version
                      /\ chunk'[c].vector = IF DimChanges(x) THEN NoModel ELSE chunk[c].vector
    OBVIOUS
  <2>1. chunk[c] \in ChunkRow
    BY <1>0
  <2>2. CASE DimChanges(x)
    <3>1. chunk'[c] = [chunk[c] EXCEPT !.vector = NoModel]
      BY <1>3, <2>2
    <3> QED
      BY <2>1, <2>2, <3>1 DEF ChunkRow
  <2>3. CASE ~DimChanges(x)
    BY <1>3, <2>1, <2>3
  <2> QED
    BY <2>2, <2>3
<1>6. EmbTypeOK'
  <2>1. chunk' \in [Chunks -> ChunkRow]
    BY <1>1, <1>5 DEF Rebuild
  <2>2. conf' \in Conf
    BY <1>0, <1>1, <1>4 DEF Conf
  <2>3. changes' \in 0..MaxChanges
    BY <1>0, <1>1 DEF Rebuild
  <2> QED
    BY <1>2, <1>4, <2>1, <2>2, <2>3 DEF EmbTypeOK
<1>7. VectorInv'
  BY <1>0, <1>3, <1>5 DEF EmbInv, VectorInv, ChunkRow
<1>8. BatchInv'
  <2> SUFFICES ASSUME NEW y \in Txns, txn'[y].op = "reindex", txn'[y].step = "batch" PROVE FALSE
    BY DEF BatchInv, TxnAt
  <2>1. y # x /\ OwnsChunks(txn[y])
    BY <1>2 DEF OwnsChunks, NoTxn
  <2>2. OwnsChunks(txn[x])
    BY <1>0 DEF CommitUpdate, OwnsChunks
  <2> QED
    BY <2>1, <2>2, LocksOfChunks DEF EmbInv, OwnersInv, HoldsChunks
<1>9. ConfInv'
  <2> SUFFICES ASSUME ~disturbed' PROVE ConfInv'
    BY DEF ConfInv
  <2>1. conf.version <= conf'.version /\ column' # 0
    BY <1>0, <1>3, <1>4
  <2>2. \A c \in Chunks : chunk[c].version \in Nat /\ chunk[c].version <= conf.version
    BY <1>0, <1>3 DEF EmbInv, ConfInv, ChunkRow
  <2>3. \A y \in Txns : txn[y].version \in Nat /\ txn[y].version <= conf.version
    BY <1>3 DEF EmbInv, ConfInv, EmbTypeOK, Txn
  <2>4. \A c \in Chunks : chunk'[c].version <= conf'.version
    BY <1>0, <1>4, <1>5, <2>1, <2>2
  <2>5. \A y \in Txns : txn'[y].version <= conf'.version
    BY <1>0, <1>2, <1>4, <2>1, <2>3 DEF NoTxn
  <2>6. conf'.model \in Models
    BY <1>0, <1>4
  <2> QED
    BY <2>1, <2>4, <2>5, <2>6 DEF ConfInv
<1>10. VisibleVectorsFit'
  <2> SUFFICES ASSUME ~disturbed' PROVE VisibleVectorsFit'
    BY DEF VisibleVectorsFit
  <2>0. Written' = Written
    BY <1>5 DEF Written
  <2>1. CASE DimChanges(x)
    <3>1. \A c \in Chunks : chunk'[c].version < conf'.version
      BY <1>0, <1>3, <1>4, <1>5, <2>1 DEF EmbInv, ConfInv, ChunkRow
    <3> QED
      BY <1>0, <1>3, <1>4, <1>5, <2>0, <2>1, <3>1 DEF VisibleVectorsFit, Fits, Written, ChunkRow
  <2>2. CASE ~DimChanges(x)
    <3>1. column \in {0, DimOf[q.to]} /\ column' = DimOf[q.to]
      BY <1>0, <1>3, <2>2 DEF DimChanges
    <3>2. ASSUME NEW c \in Written, chunk[c].version = conf.version
          PROVE  chunk[c].vector # NoModel /\ DimOf[chunk[c].vector] = DimOf[q.to]
      <4>1. chunk[c].vector # NoModel
        BY <1>3, <3>2 DEF EmbInv, VisibleVectorsFit
      <4>2. c \in Chunks /\ chunk[c].vector \in Models
        BY <1>0, <4>1 DEF Written, ChunkRow
      <4> QED
        BY <1>0, <3>1, <4>1, <4>2 DEF EmbInv, VectorInv
    <3> QED
      BY <1>0, <1>3, <1>4, <1>5, <2>0, <2>2, <3>1, <3>2 DEF VisibleVectorsFit, Fits, Written
  <2> QED
    BY <2>1, <2>2
<1> QED
  BY <1>2, <1>6, <1>7, <1>8, <1>9, <1>10 DEF EmbInv

\* A PUT writes what it likes; if that disturbs nothing, the dimension stays and the
\* version does not go back.
LEMMA PutKeeps ==
    ASSUME EmbInv, NEW m \in Models \cup {NoModel}, NEW v \in 1..MaxVersion, PutSettings(m, v)
    PROVE  EmbInv'
<1>0. /\ conf' = [model |-> m, version |-> v] /\ v \in Nat /\ v > 0
      /\ disturbed' = (disturbed \/ Disturbs(m, v)) /\ disturbed \in BOOLEAN
      /\ changes \in 0..MaxChanges /\ changes < MaxChanges /\ changes' = changes + 1
      /\ UNCHANGED <<column, chunk, txn>>
  BY EmbeddingsAssumption DEF PutSettings, EmbInv, EmbTypeOK
<1>1. EmbTypeOK'
  <2>1. conf' \in Conf /\ changes' \in 0..MaxChanges /\ disturbed' \in BOOLEAN
    BY <1>0, EmbeddingsAssumption DEF Conf
  <2> QED
    BY <1>0, <2>1 DEF EmbInv, EmbTypeOK
<1>2. StepInv' /\ OwnersInv' /\ VectorInv' /\ BatchInv'
  BY <1>0, LocksOfChunks
     DEF EmbInv, StepInv, OwnersInv, VectorInv, BatchInv, TxnAt, Fits
<1>3. ~disturbed' => /\ ~disturbed /\ m \in Models /\ conf'.model = m
                     /\ DimOf[m] = DimOf[conf.model]
                     /\ conf'.version = v /\ ~(v < conf.version)
  BY <1>0 DEF Disturbs
<1>4. conf.version \in Nat /\ conf.version > 0
  BY DEF EmbInv, EmbTypeOK, Conf
<1>5. /\ \A c \in Chunks : chunk[c].version \in Nat
      /\ \A x \in Txns : txn[x].version \in Nat
  BY DEF EmbInv, EmbTypeOK, ChunkRow, Txn
<1>6. ConfInv'
  <2> SUFFICES ASSUME ~disturbed' PROVE ConfInv'
    BY DEF ConfInv
  <2>1. conf.version <= v
    BY <1>0, <1>3, <1>4
  <2>2. \A c \in Chunks : chunk[c].version <= v
    BY <1>0, <1>3, <1>4, <1>5, <2>1 DEF EmbInv, ConfInv
  <2>3. \A x \in Txns : txn[x].version <= v
    BY <1>0, <1>3, <1>4, <1>5, <2>1 DEF EmbInv, ConfInv
  <2> QED
    BY <1>0, <1>3, <2>2, <2>3 DEF EmbInv, ConfInv
<1>7. VisibleVectorsFit'
  <2> SUFFICES ASSUME ~disturbed' PROVE VisibleVectorsFit'
    BY DEF VisibleVectorsFit
  <2>1. \A c \in Chunks : chunk[c].version = v => chunk[c].version = conf.version
    BY <1>0, <1>3, <1>4, <1>5 DEF EmbInv, ConfInv
  <2> QED
    BY <1>0, <1>3, <2>1 DEF EmbInv, VisibleVectorsFit, Fits, Written
<1> QED
  BY <1>1, <1>2, <1>6, <1>7 DEF EmbInv

\* Vectors of a model that fits are written into some chunks, with a version that is
\* not ahead, while nobody else holds chunks.
LEMMA VectorsWritten ==
    ASSUME EmbInv, NEW x \in Txns, EndTxn(x), UNCHANGED <<conf, changes, disturbed>>,
           NEW m \in Models, NEW v \in Nat, NEW D \in SUBSET Chunks,
           D # {} => Fits(m),
           ~disturbed => v <= conf.version,
           ~disturbed /\ column = 0 => DimOf[m] = DimOf[conf.model],
           column' = ColumnFor(m),
           chunk' = [c \in Chunks |-> IF c \in D THEN [version |-> v, vector |-> m] ELSE chunk[c]],
           \A y \in ChunkOwners : y = x
    PROVE  EmbInv'
<1>0. /\ column \in Nat /\ chunk \in [Chunks -> ChunkRow]
      /\ conf \in Conf /\ conf.version \in Nat
      /\ \A n \in Models : DimOf[n] \in Nat \ {0}
  BY EmbeddingsAssumption DEF EmbInv, EmbTypeOK, Conf
<1>1. /\ txn' \in [Txns -> Txn] /\ StepInv' /\ OwnersInv'
      /\ \A y \in Txns : txn'[y] = IF y = x THEN NoTxn ELSE txn[y]
  BY OthersStay
<1>2. \A c \in Chunks : /\ chunk'[c] \in ChunkRow
                        /\ chunk'[c].version = IF c \in D THEN v ELSE chunk[c].version
                        /\ chunk'[c].vector = IF c \in D THEN m ELSE chunk[c].vector
  BY <1>0 DEF ChunkRow
<1>3. column' \in Nat /\ column' # 0 /\ (column # 0 => column' = column)
      /\ (D # {} \/ column = 0 => column' = DimOf[m])
  BY <1>0 DEF ColumnFor, Fits
<1>4. EmbTypeOK'
  BY <1>0, <1>1, <1>2, <1>3 DEF EmbInv, EmbTypeOK
<1>5. VectorInv'
  BY <1>0, <1>2, <1>3 DEF EmbInv, VectorInv, ChunkRow
<1>6. BatchInv'
  <2> SUFFICES ASSUME NEW y \in Txns, txn'[y].op = "reindex", txn'[y].step = "batch" PROVE FALSE
    BY DEF BatchInv, TxnAt
  <2>1. y # x /\ OwnsChunks(txn[y])
    BY <1>1 DEF OwnsChunks, NoTxn
  <2> QED
    BY <2>1, LocksOfChunks
<1>7. ConfInv'
  BY <1>0, <1>1, <1>2, <1>3 DEF EmbInv, EmbTypeOK, ConfInv, NoTxn
<1>8. VisibleVectorsFit'
  <2> SUFFICES ASSUME ~disturbed PROVE VisibleVectorsFit'
    BY DEF VisibleVectorsFit
  <2>1. column' = DimOf[conf.model]
    BY <1>0, <1>3 DEF EmbInv, VisibleVectorsFit, Fits
  <2>2. ASSUME NEW c \in Chunks, chunk'[c].version > 0, chunk'[c].version = conf.version
        PROVE  chunk'[c].vector # NoModel
    <3>1. CASE c \in D
      BY <1>2, <3>1, EmbeddingsAssumption
    <3>2. CASE c \notin D
      BY <1>2, <2>2, <3>2 DEF EmbInv, VisibleVectorsFit, Written
    <3> QED
      BY <3>1, <3>2
  <2>3. \A c \in Chunks : chunk'[c].vector # NoModel => DimOf[chunk'[c].vector] = column'
    BY <1>5 DEF VectorInv
  <2> QED
    BY <2>1, <2>2, <2>3 DEF VisibleVectorsFit, Fits, Written
<1> QED
  BY <1>1, <1>4, <1>5, <1>6, <1>7, <1>8 DEF EmbInv

LEMMA EmbedChunkKeeps ==
    ASSUME EmbInv, NEW x \in Txns, EmbedChunk(x)
    PROVE  EmbInv'
<1>1. PICK c \in Chunks \ Written :
         chunk' = [chunk EXCEPT ![c] = [version |-> 1, vector |-> txn[x].model]]
  BY DEF EmbedChunk
<1> DEFINE m == txn[x].model
<1>2. /\ m \in Models /\ Fits(m) /\ column' = ColumnFor(m)
      /\ EndTxn(x) /\ UNCHANGED <<conf, changes, disturbed>> /\ ChunkHolders \ {x} = {}
  BY DEF EmbInv, StepInv, StepOK, EmbedChunk, NoneAwaited, Awaited
<1>3. chunk' = [d \in Chunks |-> IF d \in {c} THEN [version |-> 1, vector |-> m] ELSE chunk[d]]
  BY <1>1 DEF EmbInv, EmbTypeOK
<1>4. ~disturbed => 1 <= conf.version /\ (column = 0 => DimOf[m] = DimOf[conf.model])
  BY <1>2, EmbeddingsAssumption DEF EmbInv, EmbTypeOK, Conf, ConfInv
<1>5. \A y \in ChunkOwners : y = x
  BY <1>2 DEF ChunkHolders
<1> DEFINE D == {c}
<1>6. D \in SUBSET Chunks /\ 1 \in Nat
  OBVIOUS
<1> HIDE DEF m, D
<1>7. chunk' = [d \in Chunks |-> IF d \in D THEN [version |-> 1, vector |-> m] ELSE chunk[d]]
  BY <1>3 DEF D
<1> QED
  BY <1>2, <1>4, <1>5, <1>6, <1>7, VectorsWritten

LEMMA ReindexKeeps ==
    ASSUME EmbInv, NEW x \in Txns, CommitReindex(x)
    PROVE  EmbInv'
<1> DEFINE m == txn[x].model
           v == txn[x].version
           D == txn[x].done
<1>1. /\ m \in Models /\ v \in Nat /\ D \in SUBSET Chunks
      /\ txn[x].op = "reindex" /\ txn[x].step = "batch"
  BY DEF EmbInv, EmbTypeOK, Txn, StepInv, StepOK, CommitReindex
<1>2. /\ column' = ColumnFor(m) /\ EndTxn(x) /\ UNCHANGED <<conf, changes, disturbed>>
      /\ chunk' = [c \in Chunks |-> IF c \in D THEN [version |-> v, vector |-> m] ELSE chunk[c]]
  BY DEF CommitReindex
<1>3. D # {} => Fits(m)
  BY <1>1 DEF EmbInv, BatchInv, TxnAt
<1>4. ~disturbed => v <= conf.version /\ (column = 0 => DimOf[m] = DimOf[conf.model])
  BY <1>1, EmbeddingsAssumption DEF EmbInv, ConfInv
<1>5. \A y \in ChunkOwners : y = x
  BY <1>1, LocksOfChunks DEF EmbInv, OwnersInv, OwnsChunks, HoldsChunks
<1> HIDE DEF m, v, D
<1> QED
  BY <1>1, <1>2, <1>3, <1>4, <1>5, VectorsWritten

\* Every step keeps the invariant.
LEMMA EmbKeeps == EmbInv /\ [EmbNext]_embVars => EmbInv'
<1> SUFFICES ASSUME EmbInv, [EmbNext]_embVars PROVE EmbInv'
  OBVIOUS
<1>1. CASE UNCHANGED embVars
  BY <1>1 DEF embVars, EmbInv, EmbTypeOK, StepInv, OwnersInv, ChunkOwners, ChunkHolders, TxnAt,
              VectorInv, BatchInv, Fits, ConfInv, VisibleVectorsFit, Written
<1>2. ASSUME NEW x \in Txns,
             \/ \E m \in Models : BeginUpdate(x, m)
             \/ \E op \in {"ingest", "reindex"} : BeginJob(x, op)
             \/ BeginQuery(x) \/ TxnStep(x) \/ FailTxn(x)
      PROVE  EmbInv'
  <2>1. CASE CommitUpdate(x)
    BY <2>1, UpdateKeeps
  <2>3. CASE EmbedChunk(x)
    BY <2>3, EmbedChunkKeeps
  <2>4. CASE CommitReindex(x)
    BY <2>4, ReindexKeeps
  <2>5. CASE RollBack(x)
    BY <2>5, OneRollsBack
  <2> QED
    BY <1>2, <2>1, <2>3, <2>4, <2>5, QuietSteps
       DEF TxnStep, SaveAnswer, RejectVector, FailTxn, AbortTxn
<1>3. ASSUME NEW m \in Models \cup {NoModel}, NEW v \in 1..MaxVersion, PutSettings(m, v)
      PROVE  EmbInv'
  BY <1>3, PutKeeps
<1> QED
  BY <1>1, <1>2, <1>3 DEF EmbNext

\* The settings, the column, the chunks and the transactions keep their types.
THEOREM EmbeddingsTyped == EmbSpec => []EmbTypeOK
<1>1. EmbInv => EmbTypeOK
  BY DEF EmbInv
<1> QED
  BY <1>1, EmbStarts, EmbKeeps, PTL DEF EmbSpec

\* update_provider, vector_arm: what a query finds can be compared with its own vector,
\* until a PUT takes the provider or its dimension away or the version back, or changes
\* of the provider overwrite what they have not read.
THEOREM VectorsFit == EmbSpec => []VisibleVectorsFit
<1>1. EmbInv => VisibleVectorsFit
  BY DEF EmbInv
<1> QED
  BY <1>1, EmbStarts, EmbKeeps, PTL DEF EmbSpec

-----------------------------------------------------------------------------
(* A reindex *)

\* The batches that are left hold what is stale.
PlanInv ==
    \A x \in Txns : TxnAt(x, "reindex", "batch") =>
        Cardinality(Stale(x)) <= txn[x].left * BatchSize

\* As long as chunks stay as they are, and so does whoever is in its batches.
LEMMA PlanStays ==
    ASSUME PlanInv, UNCHANGED chunk,
           \A y \in Txns : TxnAt(y, "reindex", "batch")' => txn'[y] = txn[y]
    PROVE  PlanInv'
<1> SUFFICES ASSUME NEW y \in Txns, TxnAt(y, "reindex", "batch")'
             PROVE  (Cardinality(Stale(y)) <= txn[y].left * BatchSize)'
  BY DEF PlanInv
<1>1. Stale(y)' = Stale(y)
  BY DEF Stale, Written
<1> QED
  BY <1>1 DEF PlanInv, TxnAt

\* Who changes chunks ends, and nobody else is in a reindex's batches.
LEMMA NoPlanBesides ==
    ASSUME EmbInv, NEW x \in Txns, EndTxn(x), \A y \in ChunkOwners : y = x
    PROVE  PlanInv'
<1> SUFFICES ASSUME NEW y \in Txns, txn'[y].op = "reindex", txn'[y].step = "batch"
             PROVE  FALSE
  BY DEF PlanInv, TxnAt
<1>1. y # x /\ OwnsChunks(txn[y])
  BY OthersStay DEF OwnsChunks, NoTxn
<1> QED
  BY <1>1, LocksOfChunks

LEMMA LockPlans ==
    ASSUME EmbInv, PlanInv, NEW x \in Txns, LockChunks(x)
    PROVE  PlanInv'
<1> DEFINE n == PlanBatches(Cardinality(Stale(x)))
<1>1. /\ UNCHANGED chunk /\ txn \in [Txns -> Txn]
      /\ txn' = [txn EXCEPT ![x].step = "batch", ![x].left = n]
  BY DEF LockChunks, EmbInv, EmbTypeOK
<1>2. Cardinality(Stale(x)) <= n * BatchSize
  BY PlanCovers, StaleFinite
<1> HIDE DEF n
<1>3. /\ txn'[x].left = n /\ txn'[x].version = txn[x].version /\ txn'[x].done = txn[x].done
      /\ \A y \in Txns \ {x} : txn'[y] = txn[y]
  BY <1>1 DEF Txn
<1>4. \A y \in Txns : Stale(y)' = Stale(y)
  BY <1>1, <1>3 DEF Stale, Written
<1> QED
  BY <1>2, <1>3, <1>4 DEF PlanInv, TxnAt

\* A batch takes BatchSize of what is stale, or all.
LEMMA BatchPlans ==
    ASSUME EmbInv, PlanInv, NEW x \in Txns, EmbedBatch(x)
    PROVE  PlanInv'
<1>1. PICK B \in SUBSET Stale(x) :
         /\ B = Stale(x) \/ Cardinality(B) = BatchSize
         /\ txn' = [txn EXCEPT ![x].left = @ - 1, ![x].done = @ \cup B]
  BY DEF EmbedBatch
<1>2. /\ UNCHANGED chunk /\ txn \in [Txns -> Txn]
      /\ txn[x].step = "batch" /\ txn[x].op = "reindex" /\ txn[x].left > 0 /\ txn[x].left \in Nat
  BY DEF EmbedBatch, EmbInv, EmbTypeOK, StepInv, StepOK, Txn
<1>3. /\ txn'[x].left = txn[x].left - 1 /\ txn'[x].version = txn[x].version
      /\ txn'[x].done = txn[x].done \cup B
      /\ \A y \in Txns \ {x} : txn'[y] = txn[y]
  BY <1>1, <1>2 DEF Txn
<1>4. \A y \in Txns \ {x} : Stale(y)' = Stale(y)
  BY <1>2, <1>3 DEF Stale, Written
<1>5. Stale(x)' = Stale(x) \ B
  BY <1>2, <1>3 DEF Stale, Written
<1>6. Cardinality(Stale(x)) <= txn[x].left * BatchSize /\ BatchSize \in Nat
  BY <1>2, EmbeddingsAssumption DEF PlanInv, TxnAt
<1>7. Cardinality(Stale(x) \ B) <= (txn[x].left - 1) * BatchSize
  <2>1. IsFiniteSet(Stale(x)) /\ Cardinality(Stale(x)) \in Nat
    BY StaleFinite
  <2>2. CASE B = Stale(x)
    <3>1. Stale(x) \ B = {}
      BY <2>2
    <3>2. 0 <= (txn[x].left - 1) * BatchSize
      BY <1>2, <1>6
    <3> QED
      BY <3>1, <3>2, FS_EmptySet
  <2>3. CASE Cardinality(B) = BatchSize
    <3>1. Cardinality(Stale(x) \ B) = Cardinality(Stale(x)) - Cardinality(Stale(x) \cap B)
      BY <2>1, FS_Difference
    <3>2. Stale(x) \cap B = B
      OBVIOUS
    <3>3. txn[x].left * BatchSize - BatchSize = (txn[x].left - 1) * BatchSize
      BY <1>2, <1>6
    <3>4. txn[x].left * BatchSize \in Nat
      BY <1>2, <1>6
    <3> QED
      BY <1>6, <2>1, <2>3, <3>1, <3>2, <3>3, <3>4
  <2> QED
    BY <1>1, <2>2, <2>3
<1> SUFFICES ASSUME NEW y \in Txns, TxnAt(y, "reindex", "batch")'
             PROVE  (Cardinality(Stale(y)) <= txn[y].left * BatchSize)'
  BY DEF PlanInv
<1>8. CASE y = x
  BY <1>3, <1>5, <1>7, <1>8
<1>9. CASE y # x
  BY <1>3, <1>4, <1>9 DEF PlanInv, TxnAt
<1> QED
  BY <1>8, <1>9

\* Every step keeps the plans.
LEMMA PlanKeeps ==
    ASSUME EmbInv, PlanInv, [EmbNext]_embVars
    PROVE  PlanInv'
<1>1. CASE UNCHANGED embVars
  BY <1>1, PlanStays DEF embVars
<1>2. ASSUME NEW x \in Txns,
             \/ \E m \in Models : BeginUpdate(x, m)
             \/ \E op \in {"ingest", "reindex"} : BeginJob(x, op)
             \/ BeginQuery(x) \/ TxnStep(x) \/ FailTxn(x)
      PROVE  PlanInv'
  <2>0. txn \in [Txns -> Txn] /\ txn[x] \in Txn /\ StepOK(txn[x])
    BY DEF EmbInv, EmbTypeOK, StepInv
  <2>1. ASSUME \E m \in Models : BeginUpdate(x, m) PROVE PlanInv'
    <3>1. UNCHANGED chunk /\ \A y \in Txns : TxnAt(y, "reindex", "batch")' => txn'[y] = txn[y]
      BY <2>0, <2>1 DEF BeginUpdate, TxnAt, Txn
    <3> QED
      BY <3>1, PlanStays
  <2>2. ASSUME ReadSettings(x) \/ BeginQuery(x) PROVE PlanInv'
    <3>1. UNCHANGED chunk /\ \A y \in Txns : TxnAt(y, "reindex", "batch")' => txn'[y] = txn[y]
      <4>1. PICK step \in {"write", "version"} :
                /\ UNCHANGED chunk
                /\ \A y \in Txns : y # x => txn'[y] = txn[y]
                /\ txn'[x].step = step
        <5>1. CASE ReadSettings(x)
          BY <2>0, <5>1 DEF ReadSettings, Txn
        <5>3. CASE BeginQuery(x)
          BY <2>0, <5>3 DEF BeginQuery, Txn
        <5> QED
          BY <2>2, <5>1, <5>3
      <4>2. step # "batch"
        OBVIOUS
      <4> QED
        BY <4>1, <4>2 DEF TxnAt
    <3> QED
      BY <3>1, PlanStays
  <2>2a. ASSUME NEW op \in {"ingest", "reindex"}, BeginJob(x, op) PROVE PlanInv'
    <3> DEFINE s == IF op = "ingest" THEN "embed" ELSE "version"
    <3>1. UNCHANGED chunk /\ txn' = [txn EXCEPT ![x] = [@ EXCEPT !.op = op, !.model = conf.model,
                                                                !.step = s]]
      BY <2>2a DEF BeginJob
    <3>2. s # "batch"
      OBVIOUS
    <3> HIDE DEF s
    <3>3. \A y \in Txns : TxnAt(y, "reindex", "batch")' => txn'[y] = txn[y]
      BY <2>0, <3>1, <3>2 DEF TxnAt, Txn
    <3> QED
      BY <3>1, <3>3, PlanStays
  <2>3. ASSUME WriteProvider(x) \/ AlterChunks(x) \/ ReadVersion(x) \/ Search(x) PROVE PlanInv'
    <3>1. UNCHANGED chunk /\ \A y \in Txns : TxnAt(y, "reindex", "batch")' => txn'[y] = txn[y]
      BY <2>0, <2>3 DEF WriteProvider, AlterChunks, ReadVersion, Search, TxnGoto, TxnAt, Txn
    <3> QED
      BY <3>1, PlanStays
  <2>4. ASSUME RollBack(x) PROVE PlanInv'
    <3>1. UNCHANGED chunk /\ \A y \in Txns : TxnAt(y, "reindex", "batch")' => txn'[y] = txn[y]
      BY <2>0, <2>4 DEF RollBack, EndTxn, NoTxn, TxnAt
    <3> QED
      BY <3>1, PlanStays
  <2>5. ASSUME CommitUpdate(x) \/ CommitReindex(x) PROVE PlanInv'
    <3>1. EndTxn(x) /\ x \in ChunkOwners
      BY <2>0, <2>5, LocksOfChunks DEF CommitUpdate, CommitReindex, StepOK, OwnsChunks
    <3> QED
      BY <3>1, LocksOfChunks, NoPlanBesides DEF EmbInv, OwnersInv, HoldsChunks
  <2>6. ASSUME EmbedChunk(x) PROVE PlanInv'
    <3>1. EndTxn(x) /\ ChunkHolders \ {x} = {}
      BY <2>6 DEF EmbedChunk, NoneAwaited, Awaited
    <3> QED
      BY <3>1, NoPlanBesides DEF ChunkHolders
  <2>7. CASE LockChunks(x)
    BY <2>7, LockPlans
  <2>8. CASE EmbedBatch(x)
    BY <2>8, BatchPlans
  <2> QED
    BY <1>2, <2>1, <2>2, <2>3, <2>4, <2>5, <2>6, <2>7, <2>8, <2>2a
       DEF TxnStep, SaveAnswer, RejectVector, FailTxn, AbortTxn
<1>3. ASSUME NEW m \in Models \cup {NoModel}, NEW v \in 1..MaxVersion, PutSettings(m, v)
      PROVE  PlanInv'
  <2>1. UNCHANGED chunk /\ \A y \in Txns : TxnAt(y, "reindex", "batch")' => txn'[y] = txn[y]
    BY <1>3 DEF PutSettings
  <2> QED
    BY <2>1, PlanStays
<1> QED
  BY <1>1, <1>2, <1>3 DEF EmbNext

\* What is stale is gone when no batch is left.
LEMMA NothingLeft ==
    ASSUME EmbInv, PlanInv, NEW x \in Txns, CommitReindex(x), NEW c \in Written
    PROVE  /\ chunk'[c].version = txn[x].version
           /\ chunk[c].version # txn[x].version => chunk'[c].vector = txn[x].model
<1>1. Stale(x) = {}
  <2>1. txn[x].op = "reindex" /\ txn[x].step = "batch" /\ txn[x].left = 0
    BY DEF CommitReindex, EmbInv, StepInv, StepOK
  <2>2. Cardinality(Stale(x)) = 0
    BY <2>1, StaleFinite, EmbeddingsAssumption DEF PlanInv, TxnAt
  <2> QED
    BY <2>2, StaleFinite, FS_EmptySet
<1>2. c \in txn[x].done \/ chunk[c].version = txn[x].version
  BY <1>1 DEF Stale
<1>3. c \in Chunks
  BY DEF Written
<1>4. CASE c \in txn[x].done
  BY <1>3, <1>4 DEF CommitReindex
<1>5. CASE c \notin txn[x].done
  BY <1>2, <1>3, <1>5 DEF CommitReindex
<1> QED
  BY <1>4, <1>5

\* reindex_domain_chunks, plan_batches: for any number of chunks and any size of the
\* batches, a reindex that commits leaves no chunk behind its version.
THEOREM ReindexCovers == EmbSpec => ReindexLeavesNoneStale
<1>1. EmbInit => EmbInv /\ PlanInv
  BY EmbStarts DEF PlanInv, EmbInit, TxnAt, NoTxn
<1>2. EmbInv /\ PlanInv /\ [EmbNext]_embVars => (EmbInv /\ PlanInv)'
  BY EmbKeeps, PlanKeeps
<1>3. EmbInv /\ PlanInv /\ [EmbNext]_embVars =>
        [\A x \in Txns : CommitReindex(x) =>
            \A c \in Written : /\ chunk'[c].version = txn[x].version
                               /\ chunk[c].version # txn[x].version
                                    => chunk'[c].vector = txn[x].model]_embVars
  BY NothingLeft
<1> QED
  BY <1>1, <1>2, <1>3, PTL DEF EmbSpec, ReindexLeavesNoneStale

-----------------------------------------------------------------------------
(* Sources *)

\* What an upload is where it is, when kept is what is stored of it and jobs is the
\* documents with a job.
UploadOK(q, kept, jobs) ==
    /\ q.kind = "none" => q = UnsentUpload
    /\ q.step \in {"insert", "refused"} => kept = {}
    /\ q.step = "insert" => q.sent = Elements(q.mine) \cup (Elements(q.left) \cap Valid)
    /\ q.step = "start" => kept = q.sent /\ kept \subseteq jobs \cup Elements(q.left)
    /\ q.step = "answered" => kept = q.sent /\ (q.kind = "archive" => kept \subseteq jobs)
    /\ q.step = "failed" => kept \in {{}, q.sent}

\* The documents that q has inserted and not committed.
Pending(q) == IF q.kind # "none" /\ q.step = "insert" THEN Elements(q.mine) ELSE {}

SentInv == \A u \in Uploads : UploadOK(upload[u], Kept(u), job)
ApartInv == \A u \in Uploads : \A d \in Pending(upload[u]) :
                ~Stored(d) /\ \A v \in Uploads \ {u} : d \notin Pending(upload[v])

SourcesInv == SourcesTypeOK /\ SentInv /\ ApartInv

-----------------------------------------------------------------------------
\* The documents of a sequence that loses its first, gains one, or has one or none.
LEMMA ElementsOfTail ==
    ASSUME NEW s \in Seq(Docs), s # <<>>
    PROVE  /\ Tail(s) \in Seq(Docs) /\ Head(s) \in Docs
           /\ Elements(s) = {Head(s)} \cup Elements(Tail(s))
<1>1. Tail(s) \in Seq(Docs) /\ Head(s) \in Docs /\ Len(Tail(s)) = Len(s) - 1 /\ Len(s) \in Nat \ {0}
  OBVIOUS
<1>2. \A i \in 1..Len(Tail(s)) : Tail(s)[i] = s[i + 1]
  OBVIOUS
<1>3. ASSUME NEW d \in Elements(s) PROVE d \in {Head(s)} \cup Elements(Tail(s))
  <2>1. PICK i \in 1..Len(s) : d = s[i]
    BY DEF Elements
  <2>2. CASE i = 1
    BY <2>1, <2>2
  <2>3. CASE i # 1
    <3>1. i - 1 \in 1..Len(Tail(s)) /\ Tail(s)[i - 1] = d
      BY <1>1, <1>2, <2>1, <2>3
    <3> QED
      BY <3>1 DEF Elements
  <2> QED
    BY <2>2, <2>3
<1>4. ASSUME NEW d \in Elements(Tail(s)) PROVE d \in Elements(s)
  <2>1. PICK i \in 1..Len(Tail(s)) : d = Tail(s)[i]
    BY DEF Elements
  <2>2. i + 1 \in 1..Len(s) /\ s[i + 1] = d
    BY <1>1, <1>2, <2>1
  <2> QED
    BY <2>2 DEF Elements
<1>5. Head(s) \in Elements(s)
  BY <1>1 DEF Elements
<1> QED
  BY <1>1, <1>3, <1>4, <1>5

LEMMA ElementsOfAppend ==
    ASSUME NEW s \in Seq(Docs), NEW e \in Docs
    PROVE  Append(s, e) \in Seq(Docs) /\ Elements(Append(s, e)) = Elements(s) \cup {e}
<1>1. /\ Append(s, e) \in Seq(Docs) /\ Len(Append(s, e)) = Len(s) + 1 /\ Len(s) \in Nat
      /\ Append(s, e)[Len(s) + 1] = e
      /\ \A i \in 1..Len(s) : Append(s, e)[i] = s[i]
  OBVIOUS
<1>2. \A i \in 1..(Len(s) + 1) : i \in 1..Len(s) \/ i = Len(s) + 1
  BY <1>1
<1>3. Elements(Append(s, e)) \subseteq Elements(s) \cup {e}
  BY <1>1, <1>2 DEF Elements
<1>4. ASSUME NEW d \in Elements(s) PROVE d \in Elements(Append(s, e))
  <2>1. PICK i \in 1..Len(s) : d = s[i]
    BY DEF Elements
  <2>2. i \in 1..Len(Append(s, e)) /\ Append(s, e)[i] = d
    BY <1>1, <2>1
  <2> QED
    BY <2>2 DEF Elements
<1>5. e \in Elements(Append(s, e))
  BY <1>1 DEF Elements
<1> QED
  BY <1>1, <1>3, <1>4, <1>5

LEMMA FewElements ==
    /\ Elements(<<>>) = {}
    /\ \A d \in Docs : <<d>> \in Seq(Docs) /\ Elements(<<d>>) = {d}
    /\ \A s \in Seq(Docs) : Elements(s) \subseteq Docs
    /\ Archives \subseteq Seq(Docs)
<1>1. Elements(<<>>) = {}
  BY DEF Elements
<1>2. ASSUME NEW d \in Docs PROVE <<d>> \in Seq(Docs) /\ Elements(<<d>>) = {d}
  BY DEF Elements
<1>3. \A s \in Seq(Docs) : Elements(s) \subseteq Docs
  BY DEF Elements
<1>4. Archives \subseteq Seq(Docs)
  BY SourcesAssumption DEF Archives
<1> QED
  BY <1>1, <1>2, <1>3, <1>4

-----------------------------------------------------------------------------
(* Steps *)

LEMMA SourcesStart == SourcesInit => SourcesInv
<1> SUFFICES ASSUME SourcesInit PROVE SourcesInv
  OBVIOUS
<1>1. UnsentUpload \in Upload /\ Elements(<<>>) = {}
  BY FewElements DEF UnsentUpload, Upload, Kinds, UploadSteps
<1>2. SourcesTypeOK
  BY <1>1 DEF SourcesInit, SourcesTypeOK
<1>3. \A u \in Uploads : Kept(u) = {} /\ upload[u] = UnsentUpload
  BY SourcesAssumption DEF SourcesInit, Kept
<1>4. SentInv
  BY <1>1, <1>3 DEF SentInv, UploadOK, UnsentUpload
<1>5. ApartInv
  BY <1>3 DEF ApartInv, Pending, UnsentUpload
<1> QED
  BY <1>2, <1>4, <1>5 DEF SourcesInv

\* What is known of an upload.
LEMMA UploadKnown ==
    ASSUME SourcesInv, NEW u \in Uploads
    PROVE  /\ upload \in [Uploads -> Upload] /\ upload[u] \in Upload
           /\ UploadOK(upload[u], Kept(u), job)
           /\ upload[u].left \in Seq(Docs) /\ upload[u].mine \in Seq(Docs)
           /\ upload[u].sent \subseteq Docs
           /\ Inserting(u) => Pending(upload[u]) = Mine(u)
           /\ \A d \in Pending(upload[u]) :
                ~Stored(d) /\ \A v \in Uploads \ {u} : d \notin Pending(upload[v])
BY DEF SourcesInv, SourcesTypeOK, SentInv, ApartInv, Upload, Inserting, Pending, Mine

\* An upload goes on to q, and perhaps jobs begin, and nothing is stored.
LEMMA UploadGoesOn ==
    ASSUME SourcesInv, NEW u \in Uploads, NEW q \in Upload,
           upload' = [upload EXCEPT ![u] = q], source' = source,
           job \subseteq job', job' \subseteq Docs,
           UploadOK(q, Kept(u), job'),
           \A d \in Pending(q) :
               ~Stored(d) /\ \A v \in Uploads \ {u} : d \notin Pending(upload[v])
    PROVE  SourcesInv'
<1>1. upload \in [Uploads -> Upload] /\ source \in [Docs -> Uploads \cup {NoUpload}]
  BY DEF SourcesInv, SourcesTypeOK
<1>2. \A v \in Uploads : upload'[v] = IF v = u THEN q ELSE upload[v]
  BY <1>1
<1>3. SourcesTypeOK'
  BY <1>1 DEF SourcesTypeOK
<1>4. \A v \in Uploads : Kept(v)' = Kept(v)
  BY DEF Kept
<1>5. SentInv'
  <2> SUFFICES ASSUME NEW v \in Uploads PROVE UploadOK(upload'[v], Kept(v), job')
    BY <1>4 DEF SentInv
  <2>1. UploadOK(upload[v], Kept(v), job)
    BY UploadKnown
  <2> QED
    BY <1>2, <2>1 DEF UploadOK
<1>6. ApartInv'
  <2> SUFFICES ASSUME NEW v \in Uploads, NEW d \in Pending(upload'[v])
               PROVE  ~Stored(d) /\ \A w \in Uploads \ {v} : d \notin Pending(upload'[w])
    BY DEF ApartInv, Stored
  <2>1. CASE v = u
    BY <1>2, <2>1
  <2>2. CASE v # u
    <3>1. d \in Pending(upload[v])
      BY <1>2, <2>2
    <3>2. ~Stored(d) /\ \A w \in Uploads \ {v} : d \notin Pending(upload[w])
      BY <3>1, UploadKnown
    <3>3. d \notin Pending(q)
      BY <2>2, <3>1
    <3> QED
      BY <1>2, <3>2, <3>3
  <2> QED
    BY <2>1, <2>2
<1> QED
  BY <1>3, <1>5, <1>6 DEF SourcesInv

\* A file or an archive arrives.
LEMMA ArrivalsKeep ==
    ASSUME SourcesInv, NEW u \in Uploads,
           \/ \E d \in Docs : BeginFile(u, d)
           \/ \E s \in Archives : BeginArchive(u, s)
    PROVE  SourcesInv'
<1>0. upload[u].kind = "none"
  BY DEF BeginFile, BeginArchive
<1>1. upload[u] = UnsentUpload /\ Kept(u) = {} /\ upload[u].mine = <<>> /\ upload[u] \in Upload
  BY <1>0, UploadKnown DEF UploadOK, UnsentUpload
<1>2. job \subseteq Docs /\ source' = source /\ job' = job
  BY DEF BeginFile, BeginArchive, SourcesInv, SourcesTypeOK
<1>3. ASSUME NEW kind \in {"file", "archive"}, NEW step \in {"insert", "refused"},
             NEW s \in Seq(Docs),
             upload' = [upload EXCEPT ![u] =
               [@ EXCEPT !.kind = kind, !.left = s, !.step = step,
                         !.sent = Elements(s) \cap Valid]]
      PROVE  SourcesInv'
  <2> DEFINE q == [upload[u] EXCEPT !.kind = kind, !.left = s, !.step = step,
                                    !.sent = Elements(s) \cap Valid]
  <2>1. upload' = [upload EXCEPT ![u] = q]
    BY <1>3, UploadKnown
  <2>2. q \in Upload
    BY <1>1, FewElements DEF Upload, Kinds, UploadSteps
  <2>3. /\ q.kind = kind /\ q.step = step /\ q.left = s /\ q.mine = <<>>
        /\ q.sent = Elements(s) \cap Valid
    BY <1>1 DEF Upload
  <2> HIDE DEF q
  <2>4. UploadOK(q, Kept(u), job) /\ Pending(q) = {}
    BY <1>1, <2>3, FewElements DEF UploadOK, Pending
  <2> QED
    BY <1>2, <2>1, <2>2, <2>4, UploadGoesOn
<1>4. ASSUME NEW d \in Docs, BeginFile(u, d) PROVE SourcesInv'
  <2>1. /\ <<d>> \in Seq(Docs) /\ Elements(<<d>>) \cap Valid = {d} \cap Valid
    BY FewElements
  <2> DEFINE step == IF d \in Valid THEN "insert" ELSE "refused"
  <2>2. step \in {"insert", "refused"}
    OBVIOUS
  <2>3. upload' = [upload EXCEPT ![u] =
          [@ EXCEPT !.kind = "file", !.left = <<d>>, !.step = step,
                    !.sent = Elements(<<d>>) \cap Valid]]
    <3>1. upload' = [upload EXCEPT ![u] =
            [upload[u] EXCEPT !.kind = "file", !.left = <<d>>, !.sent = {d} \cap Valid,
                              !.step = step]]
      BY <1>4, <2>1, UploadKnown DEF BeginFile
    <3> HIDE DEF step
    <3>2. [upload[u] EXCEPT !.kind = "file", !.left = <<d>>, !.sent = {d} \cap Valid, !.step = step]
            = [upload[u] EXCEPT !.kind = "file", !.left = <<d>>, !.step = step, !.sent = {d} \cap Valid]
      BY <1>1 DEF Upload
    <3> QED
      BY <2>1, <3>1, <3>2, UploadKnown
  <2> HIDE DEF step
  <2> QED
    BY <1>3, <2>1, <2>2, <2>3
<1>5. ASSUME NEW s \in Archives, BeginArchive(u, s) PROVE SourcesInv'
  BY <1>3, <1>5, FewElements DEF BeginArchive
<1> QED
  BY <1>4, <1>5

\* The next file of an upload is passed over, or inserted.
LEMMA FilesKeep ==
    ASSUME SourcesInv, NEW u \in Uploads, SkipFile(u) \/ InsertFile(u)
    PROVE  SourcesInv'
<1> DEFINE p == upload[u]
<1>0. /\ p.kind # "none" /\ p.step = "insert" /\ p.left # <<>> /\ Inserting(u)
      /\ job \subseteq Docs /\ source' = source /\ job' = job
  BY DEF SkipFile, InsertFile, Wants, Inserting, SourcesInv, SourcesTypeOK
<1>1. /\ Tail(p.left) \in Seq(Docs) /\ File(u) \in Docs
      /\ Elements(p.left) = {File(u)} \cup Elements(Tail(p.left))
  BY <1>0, UploadKnown, ElementsOfTail DEF File
<1>2. /\ Kept(u) = {} /\ p.sent = Elements(p.mine) \cup (Elements(p.left) \cap Valid)
      /\ p \in Upload /\ p.mine \in Seq(Docs)
  BY <1>0, UploadKnown DEF UploadOK
<1>3. \A d \in Elements(p.mine) :
        ~Stored(d) /\ \A v \in Uploads \ {u} : d \notin Pending(upload[v])
  BY <1>0, UploadKnown DEF Mine
<1>4. ASSUME SkipFile(u) PROVE SourcesInv'
  <2> DEFINE q == [p EXCEPT !.left = Tail(p.left)]
  <2>1. upload' = [upload EXCEPT ![u] = q]
    BY <1>4, UploadKnown DEF SkipFile
  <2>2. q \in Upload
    BY <1>1, <1>2 DEF Upload
  <2>3. /\ q.kind = p.kind /\ q.step = p.step /\ q.left = Tail(p.left) /\ q.mine = p.mine
        /\ q.sent = p.sent
    BY <1>2 DEF Upload
  <2> HIDE DEF q
  <2>4. File(u) \notin Valid \/ File(u) \in Elements(p.mine)
    BY <1>4 DEF SkipFile, Mine
  <2>5. UploadOK(q, Kept(u), job)
    BY <1>0, <1>1, <1>2, <2>3, <2>4 DEF UploadOK
  <2>6. Pending(q) = Elements(p.mine)
    BY <1>0, <2>3 DEF Pending
  <2>7. \A d \in Pending(q) :
          ~Stored(d) /\ \A v \in Uploads \ {u} : d \notin Pending(upload[v])
    BY <1>3, <2>6
  <2> HIDE DEF p
  <2> QED
    BY <1>0, <2>1, <2>2, <2>5, <2>7, UploadGoesOn
<1>5. ASSUME InsertFile(u) PROVE SourcesInv'
  <2> DEFINE q == [p EXCEPT !.mine = Append(p.mine, File(u)), !.left = Tail(p.left)]
  <2>1. upload' = [upload EXCEPT ![u] = q]
    BY <1>5, UploadKnown DEF InsertFile
  <2>2. /\ Append(p.mine, File(u)) \in Seq(Docs)
        /\ Elements(Append(p.mine, File(u))) = Elements(p.mine) \cup {File(u)}
    BY <1>1, <1>2, ElementsOfAppend
  <2>3. q \in Upload
    BY <1>1, <1>2, <2>2 DEF Upload
  <2>4. /\ q.kind = p.kind /\ q.step = p.step /\ q.left = Tail(p.left)
        /\ q.mine = Append(p.mine, File(u)) /\ q.sent = p.sent
    BY <1>2 DEF Upload
  <2> HIDE DEF q
  <2>5. File(u) \in Valid /\ ~Stored(File(u)) /\ Waits(u) = {} /\ Wants(u)
    BY <1>5 DEF InsertFile, Wants
  <2>6. \A v \in Uploads \ {u} : File(u) \notin Pending(upload[v])
    BY <2>5 DEF Waits, Pending, Inserting, Mine
  <2>7. UploadOK(q, Kept(u), job)
    BY <1>0, <1>1, <1>2, <2>2, <2>4, <2>5 DEF UploadOK
  <2>8. Pending(q) = Elements(p.mine) \cup {File(u)}
    BY <1>0, <2>2, <2>4 DEF Pending
  <2>9. \A d \in Pending(q) :
          ~Stored(d) /\ \A v \in Uploads \ {u} : d \notin Pending(upload[v])
    BY <1>3, <2>5, <2>6, <2>8
  <2> HIDE DEF p
  <2> QED
    BY <1>0, <2>1, <2>3, <2>7, <2>9, UploadGoesOn
<1> QED
  BY <1>4, <1>5

\* An upload that stores nothing more ends, or has another job.
LEMMA EndsKeep ==
    ASSUME SourcesInv, NEW u \in Uploads,
           \/ Conflict(u) \/ RollBackUpload(u) \/ StartNext(u)
           \/ AnswerUpload(u) \/ StrandSources(u)
    PROVE  SourcesInv'
<1> DEFINE p == upload[u]
<1>0. p \in Upload /\ p.kind # "none" /\ UploadOK(p, Kept(u), job) /\ job \subseteq Docs
  <2>1. p.kind # "none"
    BY UploadKnown DEF Conflict, Wants, RollBackUpload, Inserting, StartNext, AnswerUpload,
                       StrandSources, UploadOK, UnsentUpload
  <2> QED
    BY <2>1, UploadKnown DEF SourcesInv, SourcesTypeOK
<1>1. \A q : q.step # "insert" => Pending(q) = {}
  BY DEF Pending
<1> DEFINE empty == <<>>
<1>e. empty \in Seq(Docs)
  OBVIOUS
<1>2. ASSUME Conflict(u) \/ RollBackUpload(u) PROVE SourcesInv'
  <2> DEFINE q == [p EXCEPT !.step = "failed", !.left = empty, !.mine = empty]
  <2>1. upload' = [upload EXCEPT ![u] = q] /\ UNCHANGED <<source, job>> /\ p.step = "insert"
    BY <1>2, UploadKnown DEF Conflict, Wants, Inserting, RollBackUpload
  <2>2. q \in Upload
    <3> HIDE DEF empty
    <3> QED
      BY <1>0, <1>e DEF Upload, UploadSteps
  <2>3. q.kind = p.kind /\ q.step = "failed"
    BY <1>0 DEF Upload
  <2> HIDE DEF q
  <2>4. UploadOK(q, Kept(u), job)
    BY <1>0, <2>1, <2>3 DEF UploadOK
  <2> QED
    BY <1>0, <1>1, <2>1, <2>2, <2>3, <2>4, UploadGoesOn
<1>3. ASSUME NEW step \in {"answered", "failed"}, EndUpload(u, step), p.step = "start",
             UNCHANGED <<source, job>>, step = "answered" => p.left = <<>>
      PROVE  SourcesInv'
  <2> DEFINE q == [p EXCEPT !.step = step, !.left = empty]
  <2>1. upload' = [upload EXCEPT ![u] = q]
    BY <1>3, UploadKnown DEF EndUpload
  <2>2. q \in Upload
    <3> HIDE DEF empty
    <3> QED
      BY <1>0, <1>e DEF Upload, UploadSteps
  <2>3. q.kind = p.kind /\ q.step = step /\ q.sent = p.sent
    BY <1>0 DEF Upload
  <2> HIDE DEF q
  <2>4. UploadOK(q, Kept(u), job)
    BY <1>0, <1>3, <2>3, FewElements DEF UploadOK
  <2> QED
    BY <1>0, <1>1, <1>3, <2>1, <2>2, <2>3, <2>4, UploadGoesOn
<1>4. ASSUME StartNext(u) PROVE SourcesInv'
  <2> DEFINE q == [p EXCEPT !.left = Tail(p.left)]
  <2>1. /\ upload' = [upload EXCEPT ![u] = q] /\ source' = source
        /\ job' = job \cup {File(u)} /\ p.step = "start" /\ p.left # <<>>
    BY <1>4, UploadKnown DEF StartNext
  <2>2. /\ Tail(p.left) \in Seq(Docs) /\ File(u) \in Docs
        /\ Elements(p.left) = {File(u)} \cup Elements(Tail(p.left))
    BY <2>1, UploadKnown, ElementsOfTail DEF File
  <2>3. q \in Upload
    BY <1>0, <2>2 DEF Upload
  <2>4. q.kind = p.kind /\ q.step = "start" /\ q.sent = p.sent /\ q.left = Tail(p.left)
    BY <1>0, <2>1 DEF Upload
  <2> HIDE DEF q
  <2>5. UploadOK(q, Kept(u), job')
    BY <1>0, <2>1, <2>2, <2>4 DEF UploadOK
  <2>6. job \subseteq job' /\ job' \subseteq Docs /\ Pending(q) = {}
    BY <1>0, <1>1, <2>1, <2>2, <2>4
  <2> HIDE DEF p
  <2> QED
    BY <2>1, <2>3, <2>5, <2>6, UploadGoesOn
<1>5. CASE AnswerUpload(u)
  BY <1>3, <1>5 DEF AnswerUpload
<1>6. CASE StrandSources(u)
  BY <1>3, <1>6 DEF StrandSources
<1> QED
  BY <1>2, <1>4, <1>5, <1>6

\* The upload's own documents are stored, and nothing of another's is touched.
LEMMA CommitSourcesKeeps ==
    ASSUME SourcesInv, NEW u \in Uploads, CommitSources(u)
    PROVE  SourcesInv'
<1> DEFINE p == upload[u]
           step == IF p.kind = "archive" THEN "start" ELSE "answered"
           q == [p EXCEPT !.step = step, !.left = p.mine]
<1>1. /\ p \in Upload /\ p.kind # "none" /\ p.step = "insert" /\ p.left = <<>>
      /\ UploadOK(p, Kept(u), job) /\ Mine(u) = Elements(p.mine) /\ p.mine \in Seq(Docs)
      /\ Pending(p) = Mine(u) /\ Mine(u) \subseteq Docs
      /\ upload \in [Uploads -> Upload] /\ source \in [Docs -> Uploads \cup {NoUpload}]
      /\ job \subseteq Docs
  BY UploadKnown, FewElements DEF CommitSources, Inserting, Mine, SourcesInv, SourcesTypeOK
<1>2. /\ source' = [d \in Docs |-> IF d \in Mine(u) THEN u ELSE source[d]]
      /\ upload' = [upload EXCEPT ![u] = q] /\ job' = job
  BY <1>1 DEF CommitSources
<1>3. Kept(u) = {} /\ p.sent = Mine(u)
  BY <1>1, FewElements DEF UploadOK
<1>4. \A d \in Mine(u) : ~Stored(d) /\ \A v \in Uploads \ {u} : d \notin Pending(upload[v])
  BY <1>1, UploadKnown
<1>5. /\ q \in Upload /\ q.kind = p.kind /\ q.step = step /\ q.left = p.mine /\ q.sent = p.sent
  BY <1>1 DEF Upload, UploadSteps
<1>6. step \in {"start", "answered"} /\ (step = "answered" <=> p.kind # "archive")
  OBVIOUS
<1> HIDE DEF q, step
<1>7. \A v \in Uploads : upload'[v] = IF v = u THEN q ELSE upload[v]
  BY <1>1, <1>2
<1>8. Kept(u)' = Mine(u)
  BY <1>1, <1>2, <1>3 DEF Kept
<1>9. \A v \in Uploads \ {u} : Kept(v)' = Kept(v)
  BY <1>1, <1>2, <1>4, SourcesAssumption DEF Kept, Stored
<1>10. SourcesTypeOK'
  BY <1>1, <1>2, <1>5 DEF SourcesTypeOK
<1>11. SentInv'
  <2>1. UploadOK(q, Mine(u), job')
    BY <1>1, <1>3, <1>5, <1>6 DEF UploadOK
  <2>2. \A v \in Uploads \ {u} : UploadOK(upload[v], Kept(v), job')
    BY <1>2, UploadKnown
  <2>3. \A v \in Uploads : UploadOK(upload'[v], Kept(v)', job')
    BY <1>7, <1>8, <1>9, <2>1, <2>2
  <2> QED
    BY <2>3 DEF SentInv
<1>12. ApartInv'
  <2> SUFFICES ASSUME NEW v \in Uploads, NEW d \in Pending(upload'[v])
               PROVE  Stored(d)' = FALSE /\ \A w \in Uploads \ {v} : d \notin Pending(upload'[w])
    BY DEF ApartInv
  <2>0. Pending(q) = {}
    BY <1>5, <1>6 DEF Pending
  <2>1. v # u /\ d \in Pending(upload[v])
    BY <1>7, <2>0
  <2>2. ~Stored(d) /\ \A w \in Uploads \ {v} : d \notin Pending(upload[w])
    BY <2>1, UploadKnown
  <2>3. d \notin Mine(u) /\ d \in Docs
    BY <1>1, <2>1, <2>2, UploadKnown, FewElements DEF Pending
  <2>4. Stored(d)' = FALSE
    BY <1>2, <2>2, <2>3 DEF Stored
  <2> QED
    BY <1>7, <2>0, <2>2, <2>4
<1> QED
  BY <1>10, <1>11, <1>12 DEF SourcesInv

\* More jobs change nothing that is required.
LEMMA StartOneKeeps ==
    ASSUME SourcesInv, NEW d \in Docs, StartOne(d)
    PROVE  SourcesInv'
<1>1. UNCHANGED <<source, upload>> /\ job' = job \cup {d}
  BY DEF StartOne
<1>2. SourcesTypeOK' /\ ApartInv'
  BY <1>1 DEF SourcesInv, SourcesTypeOK, ApartInv, Stored
<1>3. SentInv'
  <2>1. \A u \in Uploads : UploadOK(upload[u], Kept(u), job')
    BY <1>1 DEF SourcesInv, SentInv, UploadOK
  <2> QED
    BY <1>1, <2>1 DEF SentInv, Kept
<1> QED
  BY <1>2, <1>3 DEF SourcesInv

LEMMA SourcesInvariant == SourcesSpec => []SourcesInv
<1>1. SourcesInv /\ [SourcesNext]_sourcesVars => SourcesInv'
  <2> SUFFICES ASSUME SourcesInv, [SourcesNext]_sourcesVars PROVE SourcesInv'
    OBVIOUS
  <2>1. ASSUME NEW u \in Uploads,
               UploadStep(u) \/ RollBackUpload(u) \/ StrandSources(u)
        PROVE  SourcesInv'
    BY <2>1, FilesKeep, EndsKeep, CommitSourcesKeeps DEF UploadStep, BreakCycle
  <2>2. ASSUME UNCHANGED sourcesVars PROVE SourcesInv'
    BY <2>2 DEF sourcesVars, SourcesInv, SourcesTypeOK, SentInv, ApartInv, Kept, Stored
  <2> QED
    BY <2>1, <2>2, ArrivalsKeep, StartOneKeeps DEF SourcesNext
<1> QED
  BY <1>1, SourcesStart, PTL DEF SourcesSpec

\* Sources, jobs and uploads keep their types, however many uploads there are.
THEOREM SourcesTyped == SourcesSpec => []SourcesTypeOK
<1>1. SourcesInv => SourcesTypeOK
  BY DEF SourcesInv
<1> QED
  BY <1>1, SourcesInvariant, PTL

-----------------------------------------------------------------------------
\* SourcesService.upload_bulk stores an archive whole or not at all, and an answer
\* means that all of it is stored and has its jobs, for any number of uploads and of
\* documents and archives of any length.
THEOREM ArchivesWhole == SourcesSpec => []ArchiveStoredWhole
<1>1. SourcesInv => ArchiveStoredWhole
  <2> SUFFICES ASSUME SourcesInv, NEW u \in Uploads
               PROVE  /\ Kept(u) \in {{}, upload[u].sent}
                      /\ upload[u].step = "answered" =>
                           /\ Kept(u) = upload[u].sent
                           /\ upload[u].kind = "archive" => Kept(u) \subseteq job
    BY DEF ArchiveStoredWhole
  <2>1. UploadOK(upload[u], Kept(u), job) /\ upload[u].step \in UploadSteps
    BY UploadKnown DEF Upload
  <2> QED
    BY <2>1 DEF UploadOK, UploadSteps
<1> QED
  BY <1>1, SourcesInvariant, PTL
=============================================================================
