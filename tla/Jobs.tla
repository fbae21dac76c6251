-------------------------------- MODULE Jobs --------------------------------
(***************************************************************************)
(* The background jobs of paw: rows of the jobs table, deliveries by the   *)
(* arq queue, the handlers of jobs/tasks.py running in worker processes,   *)
(* and the Redis locks of jobs/locks.py.                                   *)
(*                                                                         *)
(* One run of a handler is a sequence of awaits; an action below is the    *)
(* code between two points at which another process can see or change      *)
(* something.  Time is a count of ticks: the heartbeat, the run and each   *)
(* Redis key have an age, so that the 120 s of reconcile_stuck, arq's job  *)
(* timeout and the keys' EX can race as they do in production.             *)
(*                                                                         *)
(* Abstracted: what a step writes (staged says whether the data session    *)
(* holds uncommitted writes), the log of a job and its publication         *)
(* (Progress), and a database that is down.                                *)
(***************************************************************************)
EXTENDS Naturals, FiniteSets

CONSTANTS
    Jobs,          \* ids of job rows
    Kind,          \* [Jobs -> Kinds], the column jobs.kind
    ImageJobs,     \* the ingest jobs whose source is an image
    Domains,       \* domain ids: each is also the name of its lock key
    DomainOf,      \* [Jobs -> Domains]
    ChatModel,     \* the key of the chat model's lock
    VisionModel,   \* the key of the vision model's lock (may be the same)
    Workers,       \* worker processes
    IngestStages,  \* how often run_ingest calls on_step
    MaxItems,      \* bound: most issues, articles or batches of one job
    StaleAfter,    \* ticks without a heartbeat that make a job stuck
    JobTimeout,    \* arq's job timeout, in ticks
    DomainTTL,     \* EX of a domain's lock key, in ticks
    ModelTTL,      \* EX of a model's lock key, in ticks
    MaxTries       \* arq's max_tries

Models == {ChatModel, VisionModel}
Keys == Domains \cup Models

Kinds == {"ingest", "fix", "format", "reindex", "graph_rebuild", "lint"}

ASSUME JobsAssumption ==
    /\ Kind \in [Jobs -> Kinds]
    /\ ImageJobs \subseteq {j \in Jobs : Kind[j] = "ingest"}
    /\ DomainOf \in [Jobs -> Domains]
    /\ Domains \cap Models = {}
    /\ IngestStages \in Nat \ {0}
    /\ MaxItems \in Nat
    /\ StaleAfter \in Nat \ {0}
    /\ JobTimeout \in Nat
    /\ DomainTTL \in Nat
    /\ ModelTTL \in Nat
    /\ MaxTries \in Nat

\* A run never outlives a key it took: arq's 300 s against 3600 s and 600 s.
ASSUME TimeoutAssumption == JobTimeout < DomainTTL /\ JobTimeout < ModelTTL

VARIABLES
    status,      \* [Jobs -> Statuses]           column status ("none": no row)
    cancelReq,   \* [Jobs -> BOOLEAN]            column cancel_requested
    hbAge,       \* [Jobs -> 0..StaleAfter]      heartbeat's age while running
    msg,         \* [Jobs -> MsgStates]          the entry in arq's queue
    tries,       \* [Jobs -> 0..MaxTries]        arq's job_try
    pc,          \* [Jobs -> PCs]                where the live run is
    runOn,       \* [Jobs -> Workers \cup {NoWorker}]
    runAge,      \* [Jobs -> 0..JobTimeout]      ticks since the run began
    todo,        \* [Jobs -> Nat]                loop items left
    staged,      \* [Jobs -> BOOLEAN]            uncommitted writes in data_s
    doomed,      \* [Jobs -> BOOLEAN]            cancel was asked before the run
    landed,      \* [Jobs -> 0..MaxTries]        commits of data_s with writes
    reconciled,  \* [Jobs -> BOOLEAN]            reconcile_stuck failed the row
    held,        \* [Keys -> BOOLEAN]            the key exists in Redis
    lockAge,     \* [Keys -> Nat]                ticks since it was set
    up           \* SUBSET Workers

rowVars == <<status, cancelReq, hbAge>>
arqVars == <<msg, tries>>
runVars == <<pc, runOn, runAge, todo, staged, doomed>>
lockVars == <<held, lockAge>>
ghostVars == <<landed, reconciled>>
vars == <<rowVars, arqVars, runVars, lockVars, ghostVars, up>>

-----------------------------------------------------------------------------
(* Types and helpers *)

NoWorker == "no_worker"
Terminal == {"succeeded", "failed", "cancelled"}
Statuses == {"none", "queued", "running"} \cup Terminal
MsgStates == {"none", "sending", "lost", "queued", "taken", "done"}
PCs == {"idle", "start", "begin", "trace", "setup", "vision", "ocr", "model",
        "poll", "work", "leave", "commit", "finish", "failing", "cancelling",
        "release", "exit"}

Live(j) == pc[j] # "idle"
TTL(k) == IF k \in Domains THEN DomainTTL ELSE ModelTTL

\* lint_domain and graph_rebuild call no model; ingest, fix, format and
\* reindex take the chat model's lock and load the Langfuse settings.
UsesModel(j) == Kind[j] \notin {"lint", "graph_rebuild"}

\* lint_domain never commits its data session.
WritesData(j) == Kind[j] # "lint"

\* on_batch polls for a cancel after the batch; the others before the item.
PollsAfterWork(j) == Kind[j] \in {"reindex", "graph_rebuild"}

\* The points of a run between domain_lock's SET and its DELETE.
InDomainLock == PCs \ {"idle", "start", "exit"}
InModelLock == {"poll", "work", "leave"}

DomainKeys(j) == IF pc[j] \in InDomainLock THEN {DomainOf[j]} ELSE {}
ChatKeys(j) == IF pc[j] \in InModelLock /\ UsesModel(j) THEN {ChatModel} ELSE {}
VisionKeys(j) == IF pc[j] = "ocr" THEN {VisionModel} ELSE {}

\* The keys whose async-with body the run is in.
HeldKeys(j) == DomainKeys(j) \cup ChatKeys(j) \cup VisionKeys(j)

\* The keys run j is about to SET, and those it is about to DELETE.
Wanted(j) == CASE pc[j] = "start"  -> {DomainOf[j]}
               [] pc[j] = "vision" -> {VisionModel}
               [] pc[j] = "model"  -> {ChatModel}
               [] OTHER            -> {}
Dropping(j) == CASE pc[j] = "release" -> {DomainOf[j]}
                 [] pc[j] = "leave"   -> HeldKeys(j) \cap {ChatModel}
                 [] OTHER             -> {}

Goto(j, l) == pc' = [pc EXCEPT ![j] = l]
SetStatus(j, s) == status' = [status EXCEPT ![j] = s]
Beat(j) == hbAge' = [hbAge EXCEPT ![j] = 0]

\* Fault: SET without NX.
AcquireAnyway(k) == /\ held' = [held EXCEPT ![k] = TRUE]
                    /\ lockAge' = [lockAge EXCEPT ![k] = 0]

Acquire(k) == /\ ~held[k]
              /\ held' = [held EXCEPT ![k] = TRUE]
              /\ lockAge' = [lockAge EXCEPT ![k] = 0]

\* DELETE is unconditional: whoever set the key, it is gone.
Delete(S) == /\ held' = [k \in Keys |-> held[k] /\ k \notin S]
             /\ lockAge' = [k \in Keys |-> IF k \in S THEN 0 ELSE lockAge[k]]

-----------------------------------------------------------------------------
(* The API process: services/jobs.py and services/maintenance.py *)

\* The row is committed before the entry is sent to Redis.
CreateJob(j) ==
    /\ status[j] = "none"
    /\ SetStatus(j, "queued")
    /\ msg' = [msg EXCEPT ![j] = "sending"]
    /\ UNCHANGED <<cancelReq, hbAge, tries, runVars, lockVars, ghostVars, up>>

\* enqueue_job succeeds, or raises or never runs because the process died.
Enqueue(j) ==
    /\ msg[j] = "sending"
    /\ \E m \in {"queued", "lost"} : msg' = [msg EXCEPT ![j] = m]
    /\ UNCHANGED <<rowVars, tries, runVars, lockVars, ghostVars, up>>

\* JobService.cancel looks at no status: any existing row is marked.
RequestCancel(j) ==
    /\ status[j] # "none"
    /\ ~cancelReq[j]
    /\ cancelReq' = [cancelReq EXCEPT ![j] = TRUE]
    /\ UNCHANGED <<status, hbAge, arqVars, runVars, lockVars, ghostVars, up>>

-----------------------------------------------------------------------------
(* arq: deliveries, retries, give-up *)

\* A worker picks the entry up and calls the handler.
Deliver(j, w) ==
    /\ msg[j] = "queued"
    /\ w \in up
    /\ tries[j] < MaxTries
    /\ msg' = [msg EXCEPT ![j] = "taken"]
    /\ tries' = [tries EXCEPT ![j] = @ + 1]
    /\ Goto(j, "start")
    /\ runOn' = [runOn EXCEPT ![j] = w]
    /\ runAge' = [runAge EXCEPT ![j] = 0]
    /\ UNCHANGED <<rowVars, todo, staged, doomed, lockVars, ghostVars, up>>

\* Fault: the queue keeps an entry whose tries are used up.
GiveUpNever(j) ==
    /\ msg[j] = "queued"
    /\ up # {}
    /\ tries[j] > MaxTries + 1
    /\ msg' = [msg EXCEPT ![j] = "done"]
    /\ UNCHANGED <<rowVars, tries, runVars, lockVars, ghostVars, up>>

\* job_try exceeds max_tries: arq drops the entry without calling the handler.
GiveUp(j) ==
    /\ msg[j] = "queued"
    /\ up # {}
    /\ tries[j] >= MaxTries
    /\ msg' = [msg EXCEPT ![j] = "done"]
    /\ UNCHANGED <<rowVars, tries, runVars, lockVars, ghostVars, up>>

\* The runs in S are over: their sessions close, so uncommitted writes go.
EndRuns(S) ==
    /\ pc' = [j \in Jobs |-> IF j \in S THEN "idle" ELSE pc[j]]
    /\ runOn' = [j \in Jobs |-> IF j \in S THEN NoWorker ELSE runOn[j]]
    /\ runAge' = [j \in Jobs |-> IF j \in S THEN 0 ELSE runAge[j]]
    /\ todo' = [j \in Jobs |-> IF j \in S THEN 0 ELSE todo[j]]
    /\ staged' = [j \in Jobs |-> staged[j] /\ j \notin S]
    /\ doomed' = [j \in Jobs |-> doomed[j] /\ j \notin S]

\* CancelledError reaches the awaits of the runs in S.  It is no Exception:
\* no handler sees it, only the locks' finally blocks run.  A SET or DELETE
\* that was in flight may or may not have reached Redis (keys in stay).
Interrupt(S) ==
    LET released == UNION {HeldKeys(j) : j \in S}
        unsure   == {k \in UNION {Wanted(j) : j \in S} : ~held[k] \/ k \in released}
        kept     == UNION {Dropping(j) : j \in S}
    IN  /\ EndRuns(S)
        /\ \E stay \in SUBSET (unsure \cup kept) :
              /\ held' = [k \in Keys |-> k \in stay \/ (held[k] /\ k \notin released)]
              /\ lockAge' = [k \in Keys |->
                    IF k \in stay \cup released
                        THEN IF k \in stay \cap kept THEN lockAge[k] ELSE 0
                        ELSE lockAge[k]]

\* The handler returned: arq writes its result and removes the entry.
FinishEntry(j) ==
    /\ pc[j] = "exit"
    /\ msg' = [msg EXCEPT ![j] = "done"]
    /\ EndRuns({j})
    /\ UNCHANGED <<rowVars, tries, lockVars, ghostVars, up>>

\* arq's wait_for expires: the run is cancelled and the entry is finished as
\* failed, without a retry.  The row keeps its status.
Timeout(j) ==
    /\ Live(j)
    /\ runAge[j] = JobTimeout
    /\ Interrupt({j})
    /\ msg' = [msg EXCEPT ![j] = "done"]
    /\ UNCHANGED <<rowVars, tries, ghostVars, up>>

RunsOn(w) == {j \in Jobs : Live(j) /\ runOn[j] = w}

\* The entries of a worker's unfinished runs are delivered again.
Requeue(w) ==
    msg' = [j \in Jobs |-> IF j \in RunsOn(w) THEN "queued" ELSE msg[j]]

\* SIGTERM: arq cancels the worker's tasks and leaves their entries queued.
Shutdown(w) ==
    /\ w \in up
    /\ up' = up \ {w}
    /\ Interrupt(RunsOn(w))
    /\ Requeue(w)
    /\ UNCHANGED <<rowVars, tries, ghostVars>>

\* SIGKILL or power loss: no finally block runs, keys stay until they expire.
Crash(w) ==
    /\ w \in up
    /\ up' = up \ {w}
    /\ EndRuns(RunsOn(w))
    /\ Requeue(w)
    /\ UNCHANGED <<rowVars, tries, lockVars, ghostVars>>

\* reconcile_stuck: rows that run and whose heartbeat is too old.
Stuck(j) == status[j] = "running" /\ hbAge[j] >= StaleAfter

\* Fault: on_startup reconciles nothing.
StartupWithoutReconcile(w) ==
    /\ w \notin up
    /\ up' = up \cup {w}
    /\ status' = status
    /\ reconciled' = reconciled
    /\ UNCHANGED <<cancelReq, hbAge, arqVars, runVars, lockVars, landed>>

\* on_startup: reconcile_jobs, before the worker takes entries.
Startup(w) ==
    /\ w \notin up
    /\ up' = up \cup {w}
    /\ status' = [j \in Jobs |-> IF Stuck(j) THEN "failed" ELSE status[j]]
    /\ reconciled' = [j \in Jobs |-> reconciled[j] \/ Stuck(j)]
    /\ UNCHANGED <<cancelReq, hbAge, arqVars, runVars, lockVars, landed>>

-----------------------------------------------------------------------------
(* The handlers of jobs/tasks.py *)

\* domain_lock: SET NX EX succeeds.
TakeDomain(j) ==
    /\ pc[j] = "start"
    /\ Acquire(DomainOf[j])
    /\ Goto(j, "begin")
    /\ UNCHANGED <<rowVars, arqVars, runOn, runAge, todo, staged, doomed,
                   ghostVars, up>>

\* Fault: the finally block deletes a key it did not set.
DomainBusyDeletes(j) ==
    /\ pc[j] = "start"
    /\ held[DomainOf[j]]
    /\ SetStatus(j, "failed")
    /\ Delete({DomainOf[j]})
    /\ Goto(j, "exit")
    /\ UNCHANGED <<cancelReq, hbAge, arqVars, runOn, runAge, todo, staged,
                   doomed, ghostVars, up>>

\* domain_lock yields False: "domain busy".
DomainBusy(j) ==
    /\ pc[j] = "start"
    /\ held[DomainOf[j]]
    /\ SetStatus(j, "failed")
    /\ Goto(j, "exit")
    /\ UNCHANGED <<cancelReq, hbAge, arqVars, runOn, runAge, todo, staged,
                   doomed, lockVars, ghostVars, up>>

\* Fault: a starting run resets cancel_requested.
BeginClearsCancel(j) ==
    /\ pc[j] = "begin"
    /\ SetStatus(j, "running")
    /\ Beat(j)
    /\ doomed' = [doomed EXCEPT ![j] = cancelReq[j]]
    /\ cancelReq' = [cancelReq EXCEPT ![j] = FALSE]
    /\ Goto(j, IF UsesModel(j) THEN "trace" ELSE "setup")
    /\ UNCHANGED <<arqVars, runOn, runAge, todo, staged, lockVars,
                   ghostVars, up>>

\* set_status("running"), heartbeat and their commit.
Begin(j) ==
    /\ pc[j] = "begin"
    /\ SetStatus(j, "running")
    /\ Beat(j)
    /\ doomed' = [doomed EXCEPT ![j] = cancelReq[j]]
    /\ Goto(j, IF UsesModel(j) THEN "trace" ELSE "setup")
    /\ UNCHANGED <<cancelReq, arqVars, runOn, runAge, todo, staged, lockVars,
                   ghostVars, up>>

\* LangfuseSettingsService.load, which runs outside the handler's try.
LoadTrace(j) ==
    /\ pc[j] = "trace"
    /\ Goto(j, "setup")
    /\ UNCHANGED <<rowVars, arqVars, runOn, runAge, todo, staged, doomed,
                   lockVars, ghostVars, up>>

\* It raises (a secret that does not decrypt): the lock is released, arq
\* finishes the entry as failed, and nobody writes the row.
TraceFails(j) ==
    /\ pc[j] = "trace"
    /\ Delete({DomainOf[j]})
    /\ Goto(j, "exit")
    /\ UNCHANGED <<rowVars, arqVars, runOn, runAge, todo, staged, doomed,
                   ghostVars, up>>

Items(j) == CASE Kind[j] = "ingest" -> {IngestStages}
              [] Kind[j] = "lint"   -> {1}
              [] OTHER              -> 0..MaxItems

AfterLoop(j) == CASE UsesModel(j)       -> "leave"
                  [] Kind[j] = "lint"   -> "finish"
                  [] OTHER              -> "commit"

\* Where the loop over n items begins.
LoopStart(j, n) == IF n = 0 THEN AfterLoop(j)
                   ELSE IF PollsAfterWork(j) THEN "work" ELSE "poll"

\* Without a model the loop begins at once; _rebuild_domain_graph drops and
\* creates the graph before it.
EnterLoop(j) ==
    /\ pc[j] = "setup"
    /\ ~UsesModel(j)
    /\ \E n \in Items(j) : /\ todo' = [todo EXCEPT ![j] = n]
                           /\ Goto(j, LoopStart(j, n))
    /\ staged' = [staged EXCEPT ![j] = WritesData(j)]
    /\ UNCHANGED <<rowVars, arqVars, runOn, runAge, doomed, lockVars,
                   ghostVars, up>>

\* _build_providers and, for ingest, _source_markdown.
Setup(j) ==
    /\ pc[j] = "setup"
    /\ UsesModel(j)
    /\ Goto(j, IF j \in ImageJobs THEN "vision" ELSE "model")
    /\ UNCHANGED <<rowVars, arqVars, runOn, runAge, todo, staged, doomed,
                   lockVars, ghostVars, up>>

\* An image source is described under the vision model's lock.
TakeVision(j) ==
    /\ pc[j] = "vision"
    /\ Acquire(VisionModel)
    /\ Goto(j, "ocr")
    /\ UNCHANGED <<rowVars, arqVars, runOn, runAge, todo, staged, doomed,
                   ghostVars, up>>

Describe(j) ==
    /\ pc[j] = "ocr"
    /\ Delete({VisionModel})
    /\ Goto(j, "model")
    /\ UNCHANGED <<rowVars, arqVars, runOn, runAge, todo, staged, doomed,
                   ghostVars, up>>

\* The chat model's lock, and the first item.
TakeModel(j) ==
    /\ pc[j] = "model"
    /\ Acquire(ChatModel)
    /\ \E n \in Items(j) : /\ todo' = [todo EXCEPT ![j] = n]
                           /\ Goto(j, LoopStart(j, n))
    /\ UNCHANGED <<rowVars, arqVars, runOn, runAge, staged, doomed, ghostVars,
                   up>>

\* Fault: the deadline is inside the try of the finally block.
ModelLockTimeoutDeletes(j) ==
    /\ pc[j] \in {"vision", "model"}
    /\ \E k \in Wanted(j) : held[k]
    /\ Delete(Wanted(j))
    /\ Goto(j, "failing")
    /\ UNCHANGED <<rowVars, arqVars, runOn, runAge, todo, staged, doomed,
                   ghostVars, up>>

\* model_lock polled until its deadline: TimeoutError.
ModelLockTimeout(j) ==
    /\ pc[j] \in {"vision", "model"}
    /\ \E k \in Wanted(j) : held[k]
    /\ Goto(j, "failing")
    /\ UNCHANGED <<rowVars, arqVars, runOn, runAge, todo, staged, doomed,
                   lockVars, ghostVars, up>>

\* is_cancel_requested: the exception leaves the model lock's body.
PollCancelled(j) ==
    /\ pc[j] = "poll"
    /\ cancelReq[j]
    /\ Delete(ChatKeys(j))
    /\ Goto(j, "cancelling")
    /\ UNCHANGED <<rowVars, arqVars, runOn, runAge, todo, staged, doomed,
                   ghostVars, up>>

\* Fault: the flag is read and not looked at.
PollIgnored(j) ==
    /\ pc[j] = "poll"
    /\ IF Kind[j] \in {"ingest", "reindex", "graph_rebuild"}
       THEN Beat(j) ELSE UNCHANGED hbAge
    /\ Goto(j, IF PollsAfterWork(j) /\ todo[j] = 0 THEN AfterLoop(j) ELSE "work")
    /\ UNCHANGED <<status, cancelReq, arqVars, runOn, runAge, todo, staged,
                   doomed, lockVars, ghostVars, up>>

\* No cancel: on_step and on_batch also write a heartbeat.
PollClear(j) ==
    /\ pc[j] = "poll"
    /\ ~cancelReq[j]
    /\ IF Kind[j] \in {"ingest", "reindex", "graph_rebuild"}
       THEN Beat(j) ELSE UNCHANGED hbAge
    /\ Goto(j, IF PollsAfterWork(j) /\ todo[j] = 0 THEN AfterLoop(j) ELSE "work")
    /\ UNCHANGED <<status, cancelReq, arqVars, runOn, runAge, todo, staged,
                   doomed, lockVars, ghostVars, up>>

\* Fault: the loop runs one item too many.
WorkOffByOne(j) ==
    /\ pc[j] = "work"
    /\ \E wrote \in IF Kind[j] \in {"fix", "format"} THEN BOOLEAN
                                                    ELSE {WritesData(j)} :
          staged' = [staged EXCEPT ![j] = @ \/ wrote]
    /\ todo' = [todo EXCEPT ![j] = @ - 1]
    /\ IF Kind[j] \in {"fix", "format"} THEN Beat(j) ELSE UNCHANGED hbAge
    /\ Goto(j, IF todo[j] = 0 /\ ~PollsAfterWork(j) THEN AfterLoop(j) ELSE "poll")
    /\ UNCHANGED <<status, cancelReq, arqVars, runOn, runAge, doomed, lockVars,
                   ghostVars, up>>

\* Fault: the data session is committed after each item.
WorkCommits(j) ==
    /\ pc[j] = "work"
    /\ \E wrote \in IF Kind[j] \in {"fix", "format"} THEN BOOLEAN
                                                    ELSE {WritesData(j)} :
          landed' = [landed EXCEPT ![j] = IF wrote /\ @ < MaxTries THEN @ + 1 ELSE @]
    /\ todo' = [todo EXCEPT ![j] = @ - 1]
    /\ IF Kind[j] \in {"fix", "format"} THEN Beat(j) ELSE UNCHANGED hbAge
    /\ Goto(j, IF todo[j] = 1 /\ ~PollsAfterWork(j) THEN AfterLoop(j) ELSE "poll")
    /\ UNCHANGED <<status, cancelReq, arqVars, runOn, runAge, doomed, lockVars,
                   staged, reconciled, up>>

\* One stage, issue, article or batch.  fix and format may leave their item
\* alone, and write the heartbeat after it.
Work(j) ==
    /\ pc[j] = "work"
    /\ \E wrote \in IF Kind[j] \in {"fix", "format"} THEN BOOLEAN
                                                    ELSE {WritesData(j)} :
          staged' = [staged EXCEPT ![j] = @ \/ wrote]
    /\ todo' = [todo EXCEPT ![j] = @ - 1]
    /\ IF Kind[j] \in {"fix", "format"} THEN Beat(j) ELSE UNCHANGED hbAge
    /\ Goto(j, IF todo[j] = 1 /\ ~PollsAfterWork(j) THEN AfterLoop(j) ELSE "poll")
    /\ UNCHANGED <<status, cancelReq, arqVars, runOn, runAge, doomed, lockVars,
                   ghostVars, up>>

\* Fault: a publication that fails is not swallowed.
RaiseFromPublish(j) ==
    /\ pc[j] \in {"setup", "ocr", "work", "commit", "release"}
    /\ pc[j] = "setup" => UsesModel(j)
    /\ Delete(ChatKeys(j) \cup VisionKeys(j))
    /\ Goto(j, "failing")
    /\ UNCHANGED <<rowVars, arqVars, runOn, runAge, todo, staged, doomed,
                   ghostVars, up>>

\* Fault: an exception after the data's commit is recorded as failed.
RaiseAfterCommit(j) ==
    /\ pc[j] \in {"setup", "ocr", "work", "commit", "finish"}
    /\ pc[j] = "setup" => UsesModel(j)
    /\ Delete(ChatKeys(j) \cup VisionKeys(j))
    /\ Goto(j, "failing")
    /\ UNCHANGED <<rowVars, arqVars, runOn, runAge, todo, staged, doomed,
                   ghostVars, up>>

\* Any other exception of the try block, up to data_s.commit.
Raise(j) ==
    /\ pc[j] \in {"setup", "ocr", "work", "commit"}
    /\ pc[j] = "setup" => UsesModel(j)
    /\ Delete(ChatKeys(j) \cup VisionKeys(j))
    /\ Goto(j, "failing")
    /\ UNCHANGED <<rowVars, arqVars, runOn, runAge, todo, staged, doomed,
                   ghostVars, up>>

\* Fault: the status is written and the data never is.
LeaveModelSkipsCommit(j) ==
    /\ pc[j] = "leave"
    /\ Delete(ChatKeys(j))
    /\ Goto(j, "finish")
    /\ UNCHANGED <<rowVars, arqVars, runOn, runAge, todo, staged, doomed,
                   ghostVars, up>>

LeaveModel(j) ==
    /\ pc[j] = "leave"
    /\ Delete(ChatKeys(j))
    /\ Goto(j, "commit")
    /\ UNCHANGED <<rowVars, arqVars, runOn, runAge, todo, staged, doomed,
                   ghostVars, up>>

\* data_s.commit.
CommitData(j) ==
    /\ pc[j] = "commit"
    /\ landed' = [landed EXCEPT ![j] = IF staged[j] THEN @ + 1 ELSE @]
    /\ staged' = [staged EXCEPT ![j] = FALSE]
    /\ Goto(j, "finish")
    /\ UNCHANGED <<rowVars, arqVars, runOn, runAge, todo, doomed, lockVars,
                   reconciled, up>>

\* set_status("succeeded") and job_s.commit, after the data's commit.
Succeed(j) ==
    /\ pc[j] = "finish"
    /\ SetStatus(j, "succeeded")
    /\ Goto(j, "release")
    /\ UNCHANGED <<cancelReq, hbAge, arqVars, runOn, runAge, todo, staged,
                   doomed, lockVars, ghostVars, up>>

\* The except blocks: data_s.rollback, then the status on job_s alone.
Abort(j) ==
    /\ pc[j] \in {"failing", "cancelling"}
    /\ SetStatus(j, IF pc[j] = "failing" THEN "failed" ELSE "cancelled")
    /\ staged' = [staged EXCEPT ![j] = FALSE]
    /\ todo' = [todo EXCEPT ![j] = 0]
    /\ Goto(j, "release")
    /\ UNCHANGED <<cancelReq, hbAge, arqVars, runOn, runAge, doomed, lockVars,
                   ghostVars, up>>

\* domain_lock's finally block.
ReleaseDomain(j) ==
    /\ pc[j] = "release"
    /\ Delete({DomainOf[j]})
    /\ Goto(j, "exit")
    /\ UNCHANGED <<rowVars, arqVars, runOn, runAge, todo, staged, doomed,
                   ghostVars, up>>

-----------------------------------------------------------------------------
(* Time *)

\* Fault: the keys are set without EX.
TickWithoutExpiry ==
    /\ \A j \in Jobs : Live(j) => runAge[j] < JobTimeout
    /\ runAge' = [j \in Jobs |-> IF Live(j) THEN runAge[j] + 1 ELSE 0]
    /\ hbAge' = [j \in Jobs |-> IF status[j] = "running" /\ hbAge[j] < StaleAfter
                                THEN hbAge[j] + 1 ELSE hbAge[j]]
    /\ UNCHANGED <<status, cancelReq, arqVars, pc, runOn, todo, staged, doomed,
                   lockVars, ghostVars, up>>

\* Redis removes a key when its EX has passed; a run that reached its limit
\* is cancelled before time goes on.
Tick ==
    /\ \A j \in Jobs : Live(j) => runAge[j] < JobTimeout
    /\ runAge' = [j \in Jobs |-> IF Live(j) THEN runAge[j] + 1 ELSE 0]
    /\ hbAge' = [j \in Jobs |-> IF status[j] = "running" /\ hbAge[j] < StaleAfter
                                THEN hbAge[j] + 1 ELSE hbAge[j]]
    /\ held' = [k \in Keys |-> held[k] /\ lockAge[k] + 1 < TTL(k)]
    /\ lockAge' = [k \in Keys |-> IF held[k] /\ lockAge[k] + 1 < TTL(k)
                                  THEN lockAge[k] + 1 ELSE 0]
    /\ UNCHANGED <<status, cancelReq, arqVars, pc, runOn, todo, staged, doomed,
                   ghostVars, up>>

-----------------------------------------------------------------------------
Init ==
    /\ status = [j \in Jobs |-> "none"]
    /\ cancelReq = [j \in Jobs |-> FALSE]
    /\ hbAge = [j \in Jobs |-> 0]
    /\ msg = [j \in Jobs |-> "none"]
    /\ tries = [j \in Jobs |-> 0]
    /\ pc = [j \in Jobs |-> "idle"]
    /\ runOn = [j \in Jobs |-> NoWorker]
    /\ runAge = [j \in Jobs |-> 0]
    /\ todo = [j \in Jobs |-> 0]
    /\ staged = [j \in Jobs |-> FALSE]
    /\ doomed = [j \in Jobs |-> FALSE]
    /\ landed = [j \in Jobs |-> 0]
    /\ reconciled = [j \in Jobs |-> FALSE]
    /\ held = [k \in Keys |-> FALSE]
    /\ lockAge = [k \in Keys |-> 0]
    /\ up = {}

\* The steps of the handler that a live run takes by itself.
RunStep(j) ==
    \/ TakeDomain(j) \/ DomainBusy(j) \/ Begin(j)
    \/ LoadTrace(j) \/ TraceFails(j)
    \/ EnterLoop(j) \/ Setup(j) \/ TakeVision(j) \/ Describe(j)
    \/ TakeModel(j) \/ ModelLockTimeout(j)
    \/ PollCancelled(j) \/ PollClear(j) \/ Work(j) \/ Raise(j)
    \/ LeaveModel(j) \/ CommitData(j) \/ Succeed(j) \/ Abort(j)
    \/ ReleaseDomain(j) \/ FinishEntry(j)

\* What the API process, arq and the handler do for job j of themselves.
JobStep(j) ==
    \/ Enqueue(j) \/ GiveUp(j) \/ Timeout(j) \/ RunStep(j)
    \/ \E w \in Workers : Deliver(j, w)

Next ==
    \/ \E j \in Jobs : CreateJob(j) \/ RequestCancel(j) \/ JobStep(j)
    \/ \E w \in Workers : Startup(w) \/ Shutdown(w) \/ Crash(w)
    \/ Tick

Spec == Init /\ [][Next]_vars

\* A process that is up and a Redis that answers keep going; nobody has to
\* start a job, cancel one, or start or stop a worker.
Fairness == (\A j \in Jobs : WF_vars(JobStep(j))) /\ WF_vars(Tick)

FairSpec == Spec /\ Fairness

-----------------------------------------------------------------------------
(* Properties *)

\* Every variable has its type (the columns' domains, arq's counters, the
\* locks' ages below their EX).
TypeOK ==
    /\ status \in [Jobs -> Statuses]
    /\ cancelReq \in [Jobs -> BOOLEAN]
    /\ hbAge \in [Jobs -> 0..StaleAfter]
    /\ msg \in [Jobs -> MsgStates]
    /\ tries \in [Jobs -> 0..MaxTries]
    /\ pc \in [Jobs -> PCs]
    /\ runOn \in [Jobs -> Workers \cup {NoWorker}]
    /\ runAge \in [Jobs -> 0..JobTimeout]
    /\ todo \in [Jobs -> Nat]
    /\ staged \in [Jobs -> BOOLEAN]
    /\ doomed \in [Jobs -> BOOLEAN]
    /\ landed \in [Jobs -> 0..MaxTries]
    /\ reconciled \in [Jobs -> BOOLEAN]
    /\ held \in [Keys -> BOOLEAN]
    /\ lockAge \in [Keys -> Nat]
    /\ up \in SUBSET Workers

\* domain_lock and model_lock exclude: no two live runs are inside the same
\* key's body, although the keys carry no owner, expire, and are deleted
\* without asking whose they are.
KeyExclusion ==
    \A i, j \in Jobs : i # j => HeldKeys(i) \cap HeldKeys(j) = {}

\* A run inside a lock's body still has its key in Redis: no expiry and no
\* other run's DELETE took it away, after any crash, retry or cancellation.
HolderHasKey == \A j \in Jobs : \A k \in HeldKeys(j) : held[k]

\* succeeded is recorded after the data: an ingest job's row says succeeded
\* only when its article was committed.
SucceededLanded ==
    \A j \in Jobs : status[j] = "succeeded" /\ Kind[j] = "ingest" => landed[j] > 0

\* Partial work never lands: the run that wrote cancelled or failed into the
\* row committed no data, however many runs of the job came before.
AbortedLandsNothing ==
    \A j \in Jobs :
        \/ status[j] = "cancelled"
        \/ status[j] = "failed" /\ ~reconciled[j]
        => landed[j] < tries[j]

\* A cancel that was requested before the run began stops it before it
\* commits writes.  Only graph_rebuild of a domain without articles can
\* commit: it calls on_batch for no batch.
CancelBeforeBeginStops ==
    \A j \in Jobs : doomed[j] /\ pc[j] \in {"commit", "finish"} =>
        /\ staged[j] => Kind[j] = "graph_rebuild"
        /\ Kind[j] \notin {"ingest", "lint"}

\* A verdict changes only after a redelivery or a reconciliation: one run
\* alone never writes the row twice.
VerdictChangesOnlyOnRetry ==
    [][\A j \in Jobs : status[j] \in Terminal /\ status'[j] # status[j]
            => tries[j] > 1 \/ reconciled[j]]_vars

\* A lock never stays: released, or expired after the process that took it
\* died or its DELETE was lost.
KeysComeFree == \A k \in Keys : held[k] ~> ~held[k]

\* If from some time on a worker is up, every entry in the queue is disposed
\* of: handled to its end, timed out or given up.
EntriesAreDisposed ==
    <>[](up # {}) => \A j \in Jobs : msg[j] = "queued" ~> msg[j] = "done"

\* If workers are restarted again and again, no row stays running.
RestartsFreeStuckRows ==
    []<><<\E w \in Workers : Startup(w)>>_vars =>
        \A j \in Jobs : status[j] = "running" ~> status[j] # "running"

\* docs/wiki/jobs.md: "Liveness is enforced by heartbeats plus
\* reconcile_stuck": with a worker up, a running job reaches a verdict.
RunningJobsEnd ==
    <>[](up # {}) =>
        \A j \in Jobs : status[j] = "running" ~> status[j] \in Terminal

\* progress.py and docs/wiki/jobs.md call succeeded, failed and cancelled
\* terminal and end the stream on them: a verdict is never changed.
VerdictIsFinal ==
    [][\A j \in Jobs : status[j] \in Terminal => status'[j] = status[j]]_vars

\* The jobs do what DomainWork promises: a turn is the body of domain_lock.
Promise == INSTANCE DomainWork WITH
    inside   <- {j \in Jobs : pc[j] \in InDomainLock},
    fresh    <- {j \in Jobs : pc[j] \in InDomainLock \ {"finish", "release"}},
    landings <- landed,
    verdict  <- [j \in Jobs |-> IF status[j] \in Terminal THEN status[j] ELSE "open"]

ImplementsDomainWork == Promise!AbsSpec
=============================================================================
