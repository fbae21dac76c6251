-------------------------------- MODULE Chat --------------------------------
(***************************************************************************)
(* Chat sessions of one user: turns, deletion, and the housekeeping job    *)
(* that prunes sessions.                                                   *)
(*                                                                         *)
(* A turn is a request whose transaction begins before the history is read *)
(* and commits after the model has answered and the question and answer    *)
(* are inserted.  PostgreSQL's now() is the time at which the transaction  *)
(* began, so that is the created_at of both messages and the               *)
(* last_active_at they leave behind.  Retrieval and the model call change  *)
(* no state.                                                               *)
(*                                                                         *)
(* Row locks of a session: its messages and its title keep it from being   *)
(* deleted until their transaction ends, and a deletion keeps messages     *)
(* from being added; two turns may insert at the same time.  gc is one     *)
(* transaction: it lists the sessions, deletes by id, and commits after it *)
(* has swept the query cache of every domain.                              *)
(***************************************************************************)
EXTENDS Naturals, FiniteSets

CONSTANTS
    Threads,     \* ids of rows of chat_sessions
    Turns,       \* requests
    Depth,       \* history_depth
    MaxSessions, \* retention_max_sessions
    MaxAge,      \* retention_max_age_days
    MaxHour      \* bound: the last moment

ASSUME ChatAssumption ==
    /\ {Depth, MaxSessions, MaxAge} \subseteq Nat
    /\ MaxHour \in Nat \ {0}

VARIABLES
    hour,       \* Nat            the database's clock
    thread,     \* [Threads -> ThreadRow]     committed rows of chat_sessions
    told,       \* [Threads -> SUBSET Turns]  committed pairs of messages
    turn,       \* [Turns -> Turn]
    gc,         \* what gc_housekeeping has done: "idle", "listed", "deleted"
    gcNow,      \* Nat            its now
    listing,    \* [Threads -> Nat]  the last_active_at it listed, 0 if no row
    revived,    \* SUBSET Threads    history: sessions with a turn since the list
    before      \* [Turns -> SUBSET Turns]  history: the turns of its session that
                \* were committed before it began

chatVars == <<hour, thread, told, turn, gc, gcNow, listing, revived, before>>
gcVars == <<gc, gcNow, listing>>

-----------------------------------------------------------------------------
NoThread == "no_thread"
NoTurn == "no_turn"

\* active is last_active_at; title, the turn that gave the title.
ThreadRow == [state : {"unborn", "open", "deleted"}, active : Nat, title : Turns \cup {NoTurn}]

TurnSteps == {"new", "prepare", "model", "title", "insert", "commit", "done", "lost"}
TurnEnded == {"done", "lost"}

\* began is now(); saw, the history in the prompt; titles, that the title has
\* been set and not committed.
Turn == [step : TurnSteps, thread : Threads \cup {NoThread}, began : Nat,
         saw : SUBSET Turns, titles : BOOLEAN]

OpenThreads == {s \in Threads : thread[s].state = "open"}
Underway == {t \in Turns : turn[t].step \notin {"new"} \cup TurnEnded}
TurnTo(t, step) == turn' = [turn EXCEPT ![t].step = step]

\* Turns of S that began after t.
Later(S, t) == {u \in S : turn[u].began > turn[t].began}

\* Fault: the sessions are sorted from the oldest.
PruneNewest == {s \in Threads : /\ listing[s] > 0
                                /\ \/ Cardinality({u \in Threads : listing[u] \in 1..(listing[s] - 1)})
                                        >= MaxSessions
                                   \/ listing[s] + MaxAge < gcNow}

\* select_sessions_to_prune, of the list: all but the newest, and the old ones.
Prune == {s \in Threads : /\ listing[s] > 0
                          /\ \/ Cardinality({u \in Threads : listing[u] > listing[s]})
                                  >= MaxSessions
                             \/ listing[s] + MaxAge < gcNow}

\* Turns that have inserted messages of s, or set its title; sessions that gc has
\* deleted; each until its transaction ends.
Inserted(s) == {t \in Turns : turn[t].thread = s /\ turn[t].step = "commit"}
Titled(s) == {t \in Underway : turn[t].thread = s /\ turn[t].titles}
Pruned == IF gc = "deleted" THEN Prune \cap OpenThreads ELSE {}

-----------------------------------------------------------------------------
(* Turns *)

\* resolve_session: an open session of the user, or a new one, which is committed
\* at once.  The turn's transaction begins.
BeginTurn(t, s) ==
    /\ turn[t].step = "new"
    /\ hour < MaxHour
    /\ \/ s \in OpenThreads /\ UNCHANGED thread
       \/ /\ thread[s].state = "unborn"
          /\ thread' = [thread EXCEPT ![s].state = "open", ![s].active = hour]
    /\ turn' = [turn EXCEPT ![t].step = "prepare", ![t].thread = s, ![t].began = hour]
    /\ before' = [before EXCEPT ![t] = told[s]]
    /\ hour' = hour + 1
    /\ UNCHANGED <<told, gcVars, revived>>

\* Fault: the history is the first turns.
FirstTurns(S) == {t \in S : Cardinality(S \ Later(S, t)) <= Depth}

\* list_messages sorts by created_at, and in a turn the question first, so that
\* window_turns finds the pairs again; the last Depth of them are the history.
WindowTurns(S) == {t \in S : Cardinality(Later(S, t)) < Depth}

\* prepare_turn, up to the call of the model.
Prepare(t) ==
    /\ turn[t].step = "prepare"
    /\ turn' = [turn EXCEPT ![t].step = "model", ![t].saw = WindowTurns(told[turn[t].thread])]
    /\ UNCHANGED <<hour, thread, told, gcVars, revived, before>>

\* Fault: every turn gives the session its title.
CountNoMessages(t) ==
    /\ turn[t].step = "model"
    /\ TurnTo(t, "title")
    /\ UNCHANGED <<hour, thread, told, gcVars, revived, before>>

\* complete_turn, or the end of the stream: the model has answered.  record_turn:
\* the first turn gives the session its title.
CountMessages(t) ==
    /\ turn[t].step = "model"
    /\ TurnTo(t, IF told[turn[t].thread] = {} THEN "title" ELSE "insert")
    /\ UNCHANGED <<hour, thread, told, gcVars, revived, before>>

\* UPDATE of the title, which waits for whoever has changed the row; none if the
\* row is gone.
SetTitle(t) ==
    LET s == turn[t].thread IN
    /\ turn[t].step = "title"
    /\ Titled(s) = {}
    /\ s \notin Pruned
    /\ turn' = [turn EXCEPT ![t].step = "insert", ![t].titles = s \in OpenThreads]
    /\ UNCHANGED <<hour, thread, told, gcVars, revived, before>>

\* INSERT of the two messages; the whole turn is lost if the session is gone.
InsertMessages(t) ==
    LET s == turn[t].thread IN
    /\ turn[t].step = "insert"
    /\ s \notin Pruned
    /\ IF s \in OpenThreads
       THEN TurnTo(t, "commit")
       ELSE turn' = [turn EXCEPT ![t].step = "lost", ![t].titles = FALSE]
    /\ UNCHANGED <<hour, thread, told, gcVars, revived, before>>

\* bump_last_active, which waits for whoever has changed the row, and COMMIT.
CommitTurn(t) ==
    LET s == turn[t].thread IN
    /\ turn[t].step = "commit"
    /\ Titled(s) \subseteq {t}
    /\ thread' = [thread EXCEPT ![s].active = turn[t].began,
                                ![s].title = IF turn[t].titles THEN t ELSE @]
    /\ told' = [told EXCEPT ![s] = @ \cup {t}]
    /\ revived' = IF gc = "listed" THEN revived \cup {s} ELSE revived
    /\ turn' = [turn EXCEPT ![t].step = "done", ![t].titles = FALSE]
    /\ UNCHANGED <<hour, gcVars, before>>

\* The provider fails, the client closes the stream, a process dies.
FailTurn(t) ==
    /\ t \in Underway
    /\ turn' = [turn EXCEPT ![t].step = "lost", ![t].titles = FALSE]
    /\ UNCHANGED <<hour, thread, told, gcVars, revived, before>>

-----------------------------------------------------------------------------
(* Deletion *)

\* The rows of the sessions go, and their messages with them.
RemoveThreads(S) ==
    /\ thread' = [s \in Threads |-> IF s \in S THEN [thread[s] EXCEPT !.state = "deleted"]
                                               ELSE thread[s]]
    /\ told' = [s \in Threads |-> IF s \in S THEN {} ELSE told[s]]

\* delete_owned, once nobody else holds the row.
DeleteOwned(s) ==
    /\ s \in OpenThreads \ Pruned
    /\ Inserted(s) \cup Titled(s) = {}
    /\ RemoveThreads({s})
    /\ UNCHANGED <<hour, turn, gcVars, revived, before>>

GcList ==
    /\ gc = "idle"
    /\ gc' = "listed"
    /\ gcNow' = hour
    /\ listing' = [s \in Threads |-> IF s \in OpenThreads THEN thread[s].active ELSE 0]
    /\ revived' = {}
    /\ UNCHANGED <<hour, thread, told, turn, before>>

\* delete_by_ids, once nobody else holds one of the rows.
GcDelete ==
    /\ gc = "listed"
    /\ \A s \in Prune : Inserted(s) \cup Titled(s) = {}
    /\ gc' = "deleted"
    /\ UNCHANGED <<hour, thread, told, turn, gcNow, listing, revived, before>>

\* The job is over, and what it had listed is forgotten.
GcEnds ==
    /\ gc' = "idle"
    /\ gcNow' = 0
    /\ listing' = [s \in Threads |-> 0]
    /\ revived' = {}

GcCommit ==
    /\ gc = "deleted"
    /\ RemoveThreads(Prune)
    /\ GcEnds
    /\ UNCHANGED <<hour, turn, before>>

\* Any other end of the job.
GcFail ==
    /\ gc # "idle"
    /\ GcEnds
    /\ UNCHANGED <<hour, thread, told, turn, before>>

HourPasses ==
    /\ hour < MaxHour
    /\ hour' = hour + 1
    /\ UNCHANGED <<thread, told, turn, gcVars, revived, before>>

-----------------------------------------------------------------------------
ChatInit ==
    /\ hour = 1
    /\ thread = [s \in Threads |-> [state |-> "unborn", active |-> 0, title |-> NoTurn]]
    /\ told = [s \in Threads |-> {}]
    /\ turn = [t \in Turns |-> [step |-> "new", thread |-> NoThread, began |-> 0,
                                saw |-> {}, titles |-> FALSE]]
    /\ gc = "idle"
    /\ gcNow = 0
    /\ listing = [s \in Threads |-> 0]
    /\ revived = {}
    /\ before = [t \in Turns |-> {}]

TurnStep(t) ==
    \/ Prepare(t) \/ CountMessages(t) \/ SetTitle(t)
    \/ InsertMessages(t) \/ CommitTurn(t)
GcStep == GcDelete \/ GcCommit

ChatNext ==
    \/ \E t \in Turns : \/ \E s \in Threads : BeginTurn(t, s)
                        \/ TurnStep(t) \/ FailTurn(t)
    \/ \E s \in Threads : DeleteOwned(s)
    \/ GcList \/ GcStep \/ GcFail \/ HourPasses

ChatSpec == ChatInit /\ [][ChatNext]_chatVars

-----------------------------------------------------------------------------
(* Properties *)

\* Rows, turns and the job have their types; only an open session has messages,
\* and they are those of turns that are done.
ChatTypeOK ==
    /\ hour \in 1..MaxHour
    /\ thread \in [Threads -> ThreadRow]
    /\ told \in [Threads -> SUBSET {t \in Turns : turn[t].step = "done"}]
    /\ \A s \in Threads : told[s] # {} => s \in OpenThreads
    /\ turn \in [Turns -> Turn]
    /\ gc \in {"idle", "listed", "deleted"}
    /\ gcNow \in 0..MaxHour
    /\ listing \in [Threads -> 0..MaxHour]
    /\ revived \subseteq Threads
    /\ before \in [Turns -> SUBSET Turns]

\* gc_housekeeping: a session that is neither too old nor beyond the newest
\* MaxSessions when the rows go was left alone, unless one of its turns was
\* committed after the list was made.
ActiveSessionSurvives ==
    [][\A s \in OpenThreads : s \notin OpenThreads' /\ gc' # gc
            => \/ s \in revived
               \/ thread[s].active + MaxAge < gcNow
               \/ Cardinality({u \in Threads : listing[u] > thread[s].active})
                    >= MaxSessions]_chatVars

\* ChatService: a turn that began after all the others of its session were
\* committed keeps the title and does not move last_active_at back; only turns
\* that overlap can.
SerialTurnKeepsSession ==
    [][\A t \in Turns, s \in Threads :
            /\ t \in told'[s] \ told[s]
            /\ told[s] \subseteq before[t]
            => /\ thread[s].active <= thread'[s].active
               /\ thread[s].title \in {NoTurn, thread'[s].title}]_chatVars

\* list_messages, window_turns: a turn has in its prompt every turn of its session
\* that was committed before it began, or Depth later ones.
PromptHasEarlierTurns ==
    \A t \in Turns :
        /\ turn[t].step \notin {"new", "prepare", "lost"}
        /\ turn[t].thread \in OpenThreads
        => \A u \in before[t] \ turn[t].saw : Cardinality(Later(turn[t].saw, u)) = Depth
=============================================================================
