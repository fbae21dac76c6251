------------------------------ MODULE Progress ------------------------------
(***************************************************************************)
(* The progress of one job: what its task commits to the row of jobs and   *)
(* publishes on the Redis channel of the job, and the SSE streams that     *)
(* replay the row and then follow the channel.                             *)
(*                                                                         *)
(* Redis delivers a message to whoever is subscribed at that moment, in    *)
(* the order of publication, and keeps nothing; a publication may fail and *)
(* is then given up.  The task commits before it publishes.  If its worker *)
(* dies before arq has noted the result, the job is run again, though its  *)
(* row may have a terminal status.                                         *)
(*                                                                         *)
(* An entry of the log is its number, and End stands for the event that    *)
(* carries a terminal status.  Keep-alive frames are left out.             *)
(***************************************************************************)
EXTENDS Naturals, Sequences

CONSTANTS
    Streams,    \* clients of GET /jobs/{id}/events
    MaxEntries, \* bound: entries of the log
    MaxRuns     \* bound: runs of the job

ASSUME ProgressAssumption == MaxEntries \in Nat \ {0} /\ MaxRuns \in Nat

VARIABLES
    lint,       \* BOOLEAN                it is a lint, which reports once, with its success
    runs,       \* 0..MaxRuns             counts the runs begun, for the bound
    log,        \* Nat                    entries of the committed row
    silent,     \* SUBSET (1..MaxEntries) history: the entries that a success has appended
    ended,      \* BOOLEAN                its status is terminal
    task,       \* what the task is about to do, or that it is over or dead
    event,      \* Nat                    the last event that it had to publish
    stream,     \* [Streams -> Stream]
    untold      \* [Streams -> SUBSET Event]  history: what was published while the
                \* stream was between its row and its channel, or was given up

progressVars == <<lint, runs, log, silent, ended, task, event, stream, untold>>
jobVars == <<lint, runs, log, silent, ended, task, event>>

-----------------------------------------------------------------------------
End == MaxEntries + 1
Event == 1..End
TaskStates == {"work", "publish", "over", "dead"}

\* replay is the number of entries replayed from the row; heard, the events sent
\* on; queue, those that Redis has delivered and the stream has not read.
Stream == [step : {"new", "row", "live", "closed"}, replay : 0..MaxEntries,
           heard : Seq(Event), queue : Seq(Event)]

Watching == {s \in Streams : stream[s].step \in {"row", "live"}}

-----------------------------------------------------------------------------
(* The task *)

\* Redis hands the event to whoever is subscribed.
Deliver(e) ==
    /\ stream' = [s \in Streams |-> IF stream[s].step = "live"
                                    THEN [stream[s] EXCEPT !.queue = Append(@, e)]
                                    ELSE stream[s]]
    /\ untold' = [s \in Streams |-> IF stream[s].step = "row" THEN untold[s] \cup {e}
                                                              ELSE untold[s]]

\* Nobody who watches is told of the event.
TellNobody(e) ==
    /\ untold' = [s \in Streams |-> IF s \in Watching THEN untold[s] \cup {e} ELSE untold[s]]
    /\ UNCHANGED stream

\* on_step, on_batch, on_issue: an entry is appended and committed.
CommitEntry ==
    /\ task = "work"
    /\ ~lint
    /\ log < MaxEntries
    /\ log' = log + 1
    /\ event' = log + 1
    /\ task' = "publish"
    /\ UNCHANGED <<lint, runs, silent, ended, stream, untold>>

\* The entries of a success: that it is done, and a lint's issues.
EndEntries == IF lint THEN 2 ELSE 1

\* The terminal status is committed; a success, and only a success, appends entries
\* with it, which are not published.
CommitEnd ==
    /\ task = "work"
    /\ ended' = TRUE
    /\ event' = End
    /\ task' = "publish"
    /\ \E n \in {0, EndEntries} :
        /\ log + n <= MaxEntries
        /\ log' = log + n
        /\ silent' = silent \cup ((log + 1)..(log + n))
    /\ UNCHANGED <<lint, runs, stream, untold>>

AfterPublish == IF event = End THEN "over" ELSE "work"

\* Fault: a publication that arrived is tried again.
PublishAgain ==
    /\ task = "publish"
    /\ Deliver(event)
    /\ task' \in {"publish", AfterPublish}
    /\ UNCHANGED <<lint, runs, log, silent, ended, event>>

\* publish.
Publish ==
    /\ task = "publish"
    /\ Deliver(event)
    /\ task' = AfterPublish
    /\ UNCHANGED <<lint, runs, log, silent, ended, event>>

\* _safe_publish: the failure is logged and that is all.
PublishFails ==
    /\ task = "publish"
    /\ TellNobody(event)
    /\ task' = AfterPublish
    /\ UNCHANGED <<lint, runs, log, silent, ended, event>>

\* The worker's process is gone, before it publishes, in the middle of a step, or
\* before the result is noted.
TaskDies ==
    /\ \/ task = "publish" /\ TellNobody(event)
       \/ task \in {"work", "over"} /\ UNCHANGED <<stream, untold>>
    /\ task' = "dead"
    /\ UNCHANGED <<lint, runs, log, silent, ended, event>>

\* The job is delivered again.  Whoever missed its end has another one to wait for.
Redeliver ==
    /\ task = "dead"
    /\ runs < MaxRuns /\ runs' = runs + 1
    /\ untold' = [s \in Streams |-> untold[s] \ {End}]
    /\ UNCHANGED <<lint, log, silent, stream>>

\* The status is running again, or for the first time.
RunAgain ==
    /\ Redeliver
    /\ ended' = FALSE
    /\ event' = log
    /\ task' = "work"

\* The domain is busy, and the status is failed.
FindBusy ==
    /\ Redeliver
    /\ ended' = TRUE
    /\ event' = End
    /\ task' = "publish"

\* reconcile_stuck, at a worker's start, fails a row whose heartbeat is old, and
\* publishes nothing.
ReconcileRow ==
    /\ ~ended
    /\ ended' = TRUE
    /\ TellNobody(End)
    /\ UNCHANGED <<lint, runs, log, silent, task, event>>

-----------------------------------------------------------------------------
(* A stream *)

\* Fault: the log is not replayed.
ReadNoLog(s) ==
    /\ stream[s].step = "new"
    /\ stream' = [stream EXCEPT ![s].step = IF ended THEN "closed" ELSE "row"]
    /\ UNCHANGED <<jobVars, untold>>

\* sse_events: the row is read and its log replayed; nothing more if it is ended.
ReadRow(s) ==
    /\ stream[s].step = "new"
    /\ stream' = [stream EXCEPT ![s].step = IF ended THEN "closed" ELSE "row",
                                ![s].replay = log]
    /\ UNCHANGED <<jobVars, untold>>

Subscribe(s) ==
    /\ stream[s].step = "row"
    /\ stream' = [stream EXCEPT ![s].step = "live"]
    /\ UNCHANGED <<jobVars, untold>>

\* Fault: a terminal event is sent on like any other.
ForwardOn(s) ==
    /\ stream[s].step = "live"
    /\ stream[s].queue # <<>>
    /\ stream' = [stream EXCEPT ![s].heard = Append(@, Head(stream[s].queue)),
                                ![s].queue = Tail(@)]
    /\ UNCHANGED <<jobVars, untold>>

\* get_message: the event is sent on; a terminal one closes the stream.
Forward(s) ==
    /\ stream[s].step = "live"
    /\ stream[s].queue # <<>>
    /\ LET e == Head(stream[s].queue) IN
        stream' = [stream EXCEPT ![s].heard = Append(@, e),
                                 ![s].queue = Tail(@),
                                 ![s].step = IF e = End THEN "closed" ELSE "live"]
    /\ UNCHANGED <<jobVars, untold>>

\* The client goes away, or the connection to Redis does.
Leave(s) ==
    /\ s \in Watching
    /\ stream' = [stream EXCEPT ![s].step = "closed", ![s].queue = <<>>]
    /\ UNCHANGED <<jobVars, untold>>

-----------------------------------------------------------------------------
ProgressInit ==
    /\ lint \in BOOLEAN
    /\ runs = 0
    /\ log = 0
    /\ silent = {}
    /\ ended = FALSE
    /\ task = "work"
    /\ event = 0
    /\ stream = [s \in Streams |-> [step |-> "new", replay |-> 0,
                                    heard |-> <<>>, queue |-> <<>>]]
    /\ untold = [s \in Streams |-> {}]

StreamStep(s) == Subscribe(s) \/ Forward(s)

ProgressNext ==
    \/ CommitEntry \/ CommitEnd \/ Publish \/ PublishFails
    \/ TaskDies \/ RunAgain \/ FindBusy \/ ReconcileRow
    \/ \E s \in Streams : ReadRow(s) \/ StreamStep(s) \/ Leave(s)

ProgressSpec == ProgressInit /\ [][ProgressNext]_progressVars

-----------------------------------------------------------------------------
(* Properties *)

ProgressTypeOK ==
    /\ lint \in BOOLEAN
    /\ runs \in 0..MaxRuns
    /\ log \in 0..MaxEntries
    /\ silent \in SUBSET (1..MaxEntries)
    /\ ended \in BOOLEAN
    /\ task \in TaskStates
    /\ event \in Event \cup {0}
    /\ stream \in [Streams -> Stream]
    /\ untold \in [Streams -> SUBSET Event]

\* The entries that s has sent, is about to send, or is going to be told of.
Shown(s) == 1..stream[s].replay
            \cup {stream[s].heard[i] : i \in DOMAIN stream[s].heard}
            \cup {stream[s].queue[i] : i \in DOMAIN stream[s].queue}
            \cup (IF task = "publish" THEN {event} ELSE {})

\* sse_events: a stream on the channel shows every entry of the log, and the end,
\* but for what was published before it had subscribed and after it read the row,
\* what could not be published, and the entries that come with a success.  It is
\* only by missing the end that a stream stays open for ever.
StreamMissesOnlyUntold ==
    \A s \in Streams : stream[s].step = "live" =>
        /\ 1..log \subseteq Shown(s) \cup untold[s] \cup silent
        /\ ended => End \in Shown(s) \cup untold[s]

\* sse_events: however often the job is run, what is sent on comes once each and in
\* order, with nothing after an end; at most the newest entry of the replay comes
\* again.
StreamInOrder ==
    \A s \in Streams :
        LET heard == stream[s].heard IN
        /\ \A i, j \in DOMAIN heard : i < j => heard[i] < heard[j]
        /\ \A i \in DOMAIN heard : heard[i] >= stream[s].replay

\* The streams on the channel of a job that has ended, which are yet to hear of it.
Attending == {s \in Streams : stream[s].step = "live" /\ ended /\ End \notin untold[s]}
=============================================================================
