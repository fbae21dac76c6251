---------------------------- MODULE AnswerProofs ----------------------------
(***************************************************************************)
(* Theorems about Chat and Harness: how an answer is come by, for any      *)
(* number of sessions and turns and for every budget and model.            *)
(*                                                                         *)
(* Chat: what was committed to a session before a turn began stays, unless *)
(* the session goes (BeginInv), and turns begin at moments of their own,   *)
(* so the window of the history is the latest of what is committed         *)
(* (WindowIsLatest). Only a turn that saw a session without messages       *)
(* titles it, and what a turn has overtaken was not active later than it   *)
(* (TurnInv, RowInv). What the housekeeping has listed of a session is     *)
(* still so when it deletes it, unless the session was revived (GcInv): a  *)
(* turn holds its session's row from the insertion on.                     *)
(*                                                                         *)
(* Harness: while the loop goes on, the model has been asked once for each *)
(* step that is over (AskedInv), and what it has used up is what the       *)
(* budget has counted, at most one answer more than it allows (TokensInv); *)
(* of tools and writes the budget counts at least what is run, refusals    *)
(* too, and _signatures has every call that is run (ToolsInv).             *)
(***************************************************************************)
EXTENDS Chat, Harness, FiniteSetTheorems, SequenceTheorems, TLAPS

(* Chat *)

DoneTurns == {t \in Turns : turn[t].step = "done"}
BegunTurns == {t \in Turns : turn[t].step # "new"}

\* Whether the session of a turn is there.
InOpen(t) == turn[t].thread \in OpenThreads

\* A turn has a session of its own user, began at a moment of its own, and what was
\* committed before it began stays, unless the session is gone.
BeginInv ==
    /\ \A t \in BegunTurns :
        /\ turn[t].thread \in Threads /\ thread[turn[t].thread].state # "unborn"
        /\ turn[t].began < hour
        /\ before[t] \subseteq DoneTurns /\ turn[t].saw \subseteq DoneTurns
        /\ InOpen(t) => before[t] \subseteq told[turn[t].thread]
    /\ \A t, u \in BegunTurns : turn[t].began = turn[u].began => t = u

\* Messages are inserted into sessions that are there; the title is given by a turn that
\* no other was committed before, as far as it can know.
TurnInv == \A t \in Turns :
    /\ turn[t].step = "new" => turn[t].saw = {}
    /\ turn[t].step = "commit" => InOpen(t)
    /\ turn[t].titles => turn[t].step \in {"insert", "commit"}
    /\ (turn[t].step = "title" \/ turn[t].titles) /\ InOpen(t) => before[t] = {}

\* A session has the title of one of its turns and was last active in the past; and for
\* a turn that has seen all of its session committed, not after the turn began.
RowInv ==
    /\ \A s \in Threads : /\ thread[s].active < hour
                          /\ thread[s].state # "deleted" => thread[s].title \in told[s] \cup {NoTurn}
                          /\ IsFiniteSet(told[s])
    /\ \A t \in Underway : InOpen(t) /\ told[turn[t].thread] \subseteq before[t]
                                => thread[turn[t].thread].active <= turn[t].began

\* What the job has listed is still so when the rows go, but for revived sessions.
GcInv ==
    /\ \A s \in Threads : listing[s] > 0 => thread[s].state # "unborn"
    /\ gc # "idle" => \A s \in (Prune \cap OpenThreads) \ revived : thread[s].active = listing[s]
    /\ gc = "deleted" => \A s \in Prune \cap OpenThreads : Inserted(s) = {}

ChatInv == ChatTypeOK /\ BeginInv /\ TurnInv /\ RowInv /\ GcInv /\ PromptHasEarlierTurns

-----------------------------------------------------------------------------
\* Of turns that began at different moments, the window keeps as many as it may, and all
\* that it keeps are later than any that it drops.
LEMMA WindowIsLatest ==
    ASSUME ChatTypeOK, NEW S, IsFiniteSet(S), S \subseteq Turns, NEW u \in S, u \notin WindowTurns(S),
           \A t, v \in S : turn[t].began = turn[v].began => t = v
    PROVE  Cardinality(Later(WindowTurns(S), u)) = Depth
<1> DEFINE W == WindowTurns(S)
           n == Cardinality(S)
           f == [x \in S |-> Cardinality(Later(S, x))]
<1>1. Depth \in Nat /\ n \in Nat /\ \A t \in S : turn[t].began \in Nat
  BY FS_CardinalityType, ChatAssumption DEF ChatTypeOK, Turn
<1>2. ASSUME NEW x \in S
      PROVE  /\ IsFiniteSet(Later(S, x)) /\ f[x] \in Nat /\ f[x] < n
             /\ Later(S, x) \subseteq S /\ x \notin Later(S, x)
  <2>1. Later(S, x) \subseteq S \ {x}
    BY <1>1 DEF Later
  <2>2. IsFiniteSet(S \ {x}) /\ Cardinality(S \ {x}) = n - 1
    BY FS_RemoveElement
  <2>3. IsFiniteSet(Later(S, x)) /\ Cardinality(Later(S, x)) <= n - 1
    BY <2>1, <2>2, FS_Subset
  <2>4. Cardinality(Later(S, x)) \in Nat
    BY <2>3, FS_CardinalityType
  <2>5. QED BY <1>1, <2>1, <2>3, <2>4
<1>3. ASSUME NEW x \in S, NEW y \in S, turn[x].began < turn[y].began
      PROVE  f[y] < f[x]
  <2>1. Later(S, y) \cup {y} \subseteq Later(S, x)
    BY <1>1, <1>3 DEF Later
  <2>2. IsFiniteSet(Later(S, y) \cup {y}) /\ Cardinality(Later(S, y) \cup {y}) = f[y] + 1
    BY <1>2, FS_AddElement
  <2>3. f[y] + 1 <= f[x]
    BY <1>2, <2>1, <2>2, FS_Subset
  <2>4. QED BY <1>2, <2>3
<1>4. f \in Injection(S, 0..(n - 1))
  <2>1. \A x, y \in S : f[x] = f[y] => x = y
    BY <1>1, <1>2, <1>3
  <2>2. f \in [S -> 0..(n - 1)]
    BY <1>1, <1>2
  <2>3. QED BY <2>1, <2>2 DEF Injection, IsInjective
<1>5. IsFiniteSet(0..(n - 1)) /\ Cardinality(0..(n - 1)) = n
  <2>1. 0 \in Int /\ n - 1 \in Int /\ n \in Nat
    BY <1>1
  <2>2. IsFiniteSet(0..(n - 1)) /\ Cardinality(0..(n - 1)) = IF 0 > n - 1 THEN 0 ELSE (n - 1) - 0 + 1
    BY <2>1, FS_Interval
  <2>3. QED BY <2>1, <2>2
<1>6. f \in Surjection(S, 0..(n - 1))
  BY <1>4, <1>5, FS_Injection
<1>7. W = {x \in S : f[x] < Depth}
  BY DEF WindowTurns
<1>8. Depth < n
  BY <1>1, <1>2, <1>7
<1> DEFINE g == [x \in W |-> f[x]]
<1>9. g \in Bijection(W, 0..(Depth - 1))
  <2>1. g \in [W -> 0..(Depth - 1)]
    BY <1>1, <1>2, <1>7
  <2>2. \A x, y \in W : g[x] = g[y] => x = y
    BY <1>4, <1>7 DEF Injection, IsInjective
  <2>3. ASSUME NEW i \in 0..(Depth - 1)
        PROVE  \E x \in W : g[x] = i
    <3>1. i \in 0..(n - 1) /\ i < Depth
      BY <1>1, <1>8
    <3>2. PICK x \in S : f[x] = i
      BY <1>6, <3>1 DEF Surjection
    <3>3. QED BY <1>7, <3>1, <3>2
  <2>4. QED BY <2>1, <2>2, <2>3 DEF Bijection, Injection, IsInjective, Surjection
<1>10. Cardinality(W) = Depth
  <2>1. IsFiniteSet(0..(Depth - 1)) /\ Cardinality(0..(Depth - 1)) = Depth
    <3>1. 0 \in Int /\ Depth - 1 \in Int /\ Depth \in Nat
      BY <1>1
    <3>2. /\ IsFiniteSet(0..(Depth - 1))
          /\ Cardinality(0..(Depth - 1)) = IF 0 > Depth - 1 THEN 0 ELSE (Depth - 1) - 0 + 1
      BY <3>1, FS_Interval
    <3>3. QED BY <3>1, <3>2
  <2>2. IsFiniteSet(W)
    BY <1>7, FS_Subset
  <2>3. ExistsBijection(W, 0..(Depth - 1))
    BY <1>9, Zenon DEF ExistsBijection
  <2>4. QED BY <2>1, <2>2, <2>3, FS_Bijection
<1>11. Later(W, u) = W
  <2>1. \A w \in W : w \in S /\ f[w] < Depth /\ ~(f[u] < Depth)
    BY <1>7
  <2>2. ASSUME NEW w \in W
        PROVE  turn[w].began > turn[u].began
    <3>1. /\ w \in S /\ turn[w].began \in Nat /\ turn[u].began \in Nat
          /\ f[w] \in Nat /\ f[u] \in Nat /\ f[w] < f[u]
      BY <1>1, <1>2, <2>1
    <3>2. w # u
      BY <3>1
    <3>3. turn[w].began # turn[u].began
      BY <3>1, <3>2
    <3>4. ~(turn[w].began < turn[u].began)
      <4>1. ASSUME turn[w].began < turn[u].began PROVE FALSE
        <5>1. f[u] < f[w]
          BY <1>3, <3>1, <4>1
        <5>2. QED BY <3>1, <5>1
      <4>2. QED BY <4>1
    <3>5. QED BY <3>1, <3>3, <3>4
  <2>3. QED BY <2>2 DEF Later
<1>12. QED BY <1>10, <1>11

-----------------------------------------------------------------------------
\* A turn moves.
LEMMA TurnMoves ==
    ASSUME turn \in [Turns -> Turn], NEW t \in Turns, NEW r \in Turn, turn' = [turn EXCEPT ![t] = r]
    PROVE  /\ turn' \in [Turns -> Turn] /\ turn'[t] = r
           /\ \A u \in Turns \ {t} : turn'[u] = turn[u]
  OBVIOUS

StepTo(q, step) == [q EXCEPT !.step = step]

\* A turn whose step alone changes.
LEMMA StepIs ==
    ASSUME NEW q \in Turn, NEW step \in TurnSteps
    PROVE  /\ StepTo(q, step) \in Turn
           /\ StepTo(q, step).step = step
           /\ StepTo(q, step).thread = q.thread /\ StepTo(q, step).began = q.began
           /\ StepTo(q, step).saw = q.saw /\ StepTo(q, step).titles = q.titles
<1>1. StepTo(q, step) \in Turn
  BY DEF Turn, StepTo
<1>2. /\ StepTo(q, step).step = step
      /\ StepTo(q, step).thread = q.thread /\ StepTo(q, step).began = q.began
      /\ StepTo(q, step).saw = q.saw /\ StepTo(q, step).titles = q.titles
  BY DEF Turn, StepTo
<1>3. QED BY <1>1, <1>2

TitlesTo(q, step, titles) == [q EXCEPT !.step = step, !.titles = titles]

\* A turn that has counted the messages.
LEMMA TitlesIs ==
    ASSUME NEW q \in Turn, NEW step \in TurnSteps,
           NEW titles \in BOOLEAN
    PROVE  /\ TitlesTo(q, step, titles) \in Turn
           /\ TitlesTo(q, step, titles).step = step
           /\ TitlesTo(q, step, titles).thread = q.thread /\ TitlesTo(q, step, titles).began = q.began
           /\ TitlesTo(q, step, titles).saw = q.saw /\ TitlesTo(q, step, titles).titles = titles
<1>1. TitlesTo(q, step, titles) \in Turn
  BY DEF Turn, TitlesTo
<1>2. /\ TitlesTo(q, step, titles).step = step
      /\ TitlesTo(q, step, titles).thread = q.thread /\ TitlesTo(q, step, titles).began = q.began
      /\ TitlesTo(q, step, titles).saw = q.saw /\ TitlesTo(q, step, titles).titles = titles
  BY DEF Turn, TitlesTo
<1>3. QED BY <1>1, <1>2

SawTo(q, step, saw) == [q EXCEPT !.step = step, !.saw = saw]

\* A turn that has read its history.
LEMMA SawIs ==
    ASSUME NEW q \in Turn, NEW step \in TurnSteps,
           NEW saw \in SUBSET Turns
    PROVE  /\ SawTo(q, step, saw) \in Turn
           /\ SawTo(q, step, saw).step = step
           /\ SawTo(q, step, saw).thread = q.thread /\ SawTo(q, step, saw).began = q.began
           /\ SawTo(q, step, saw).saw = saw /\ SawTo(q, step, saw).titles = q.titles
<1>1. SawTo(q, step, saw) \in Turn
  BY DEF Turn, SawTo
<1>2. /\ SawTo(q, step, saw).step = step
      /\ SawTo(q, step, saw).thread = q.thread /\ SawTo(q, step, saw).began = q.began
      /\ SawTo(q, step, saw).saw = saw /\ SawTo(q, step, saw).titles = q.titles
  BY DEF Turn, SawTo
<1>3. QED BY <1>1, <1>2

\* At first there are no sessions and no turns.
LEMMA ChatInitOK == ChatInit => ChatInv
<1> SUFFICES ASSUME ChatInit PROVE ChatInv
  OBVIOUS
<1>1. ChatTypeOK
  BY ChatAssumption DEF ChatInit, ChatTypeOK, ThreadRow, Turn, TurnSteps, NoThread, NoTurn
<1>2. BeginInv /\ TurnInv /\ PromptHasEarlierTurns
  BY DEF ChatInit, BeginInv, TurnInv, PromptHasEarlierTurns, BegunTurns
<1>3. RowInv
  BY FS_EmptySet DEF ChatInit, RowInv, OpenThreads, Underway
<1>4. GcInv
  BY DEF ChatInit, GcInv
<1>5. QED BY <1>1, <1>2, <1>3, <1>4 DEF ChatInv

\* A turn that has begun moves, and only it; r is what it is then.
MovedOn(t, r) ==
    /\ turn[t].step \notin {"new"} \cup TurnEnded
    /\ r.step \notin {"new", "done"}
    /\ r.thread = turn[t].thread /\ r.began = turn[t].began
    /\ r.titles => r.step \in {"insert", "commit"}
    /\ r.step = "commit" => turn[t].thread \in OpenThreads \ Pruned
    /\ (r.step = "title" \/ r.titles) /\ InOpen(t) => before[t] = {}
    /\ r.saw \subseteq DoneTurns
    /\ r.step \notin {"prepare", "lost"} /\ InOpen(t) =>
           \A u \in before[t] \ r.saw : Cardinality(Later(r.saw, u)) = Depth

\* A turn that moves on as MovedOn says keeps the invariant.
LEMMA MoveKeepsChat ==
    ASSUME ChatInv, NEW t \in Turns, NEW r \in Turn, turn' = [turn EXCEPT ![t] = r], MovedOn(t, r),
           UNCHANGED <<hour, thread, told, gcVars, revived, before>>
    PROVE  ChatInv'
<1>1. /\ ChatTypeOK /\ BeginInv /\ TurnInv /\ RowInv /\ GcInv /\ PromptHasEarlierTurns
      /\ turn \in [Turns -> Turn]
      /\ gc' = gc /\ gcNow' = gcNow /\ listing' = listing
  BY DEF ChatInv, ChatTypeOK, gcVars
<1>2. /\ turn' \in [Turns -> Turn] /\ turn'[t] = r
      /\ \A u \in Turns \ {t} : turn'[u] = turn[u]
  BY <1>1, TurnMoves
<1>3. /\ turn[t].step \notin {"new", "done", "lost"} /\ t \in Underway /\ r.step \notin {"new", "done"}
      /\ r.thread = turn[t].thread /\ r.began = turn[t].began
  BY DEF MovedOn, TurnEnded, Underway
<1>4. /\ \A u \in Turns : turn'[u].thread = turn[u].thread /\ turn'[u].began = turn[u].began
      /\ DoneTurns' = DoneTurns /\ BegunTurns' = BegunTurns /\ Underway' \subseteq Underway
      /\ OpenThreads' = OpenThreads /\ \A u \in Turns : InOpen(u)' = InOpen(u)
      /\ Prune' = Prune
  BY <1>1, <1>2, <1>3 DEF DoneTurns, BegunTurns, Underway, OpenThreads, InOpen, Prune, TurnEnded
<1>5. ChatTypeOK'
  <2>1. {u \in Turns : turn[u].step = "done"} = {u \in Turns : turn'[u].step = "done"}
    BY <1>4 DEF DoneTurns
  <2>2. QED BY <1>1, <1>2, <1>4, <2>1 DEF ChatTypeOK
<1>6. BeginInv'
  <2>1. \A u \in BegunTurns : turn'[u].saw \subseteq DoneTurns
    BY <1>1, <1>2 DEF BeginInv, MovedOn, BegunTurns
  <2>2. \A u \in BegunTurns : u \in Turns
    BY DEF BegunTurns
  <2>3. QED BY <1>1, <1>4, <2>1, <2>2 DEF BeginInv
<1>7. TurnInv'
  BY <1>1, <1>2, <1>4 DEF TurnInv, MovedOn, InOpen
<1>8. RowInv'
  <2>1. \A u \in Underway' : u \in Underway /\ u \in Turns
    BY <1>4 DEF Underway
  <2>2. QED BY <1>1, <1>4, <2>1 DEF RowInv
<1>9. GcInv'
  <2>1. \A s \in Pruned : Inserted(s)' \subseteq Inserted(s)
    BY <1>2, <1>4 DEF Inserted, MovedOn
  <2>2. gc = "deleted" => Pruned = Prune \cap OpenThreads
    BY DEF Pruned
  <2>3. gc = "deleted" => \A s \in Prune \cap OpenThreads : Inserted(s)' = {}
    BY <1>1, <2>1, <2>2 DEF GcInv
  <2>4. QED BY <1>1, <1>4, <2>3 DEF GcInv
<1>10. PromptHasEarlierTurns'
  <2>1. \A S, u : S \subseteq Turns /\ u \in Turns => Later(S, u)' = Later(S, u)
    BY <1>4 DEF Later
  <2>2. \A u \in Turns : turn'[u].saw \subseteq Turns /\ before[u] \subseteq Turns
    BY <1>1, <1>2 DEF ChatTypeOK, Turn
  <2>3. SUFFICES ASSUME NEW u \in Turns, turn'[u].step \notin {"new", "prepare", "lost"},
                        turn'[u].thread \in OpenThreads, NEW v \in before[u] \ turn'[u].saw
                 PROVE  Cardinality(Later(turn'[u].saw, v)) = Depth
    BY <1>4, <2>1, <2>2 DEF PromptHasEarlierTurns
  <2>4. CASE u = t
    BY <1>2, <1>4, <2>3, <2>4 DEF MovedOn, InOpen
  <2>5. CASE u # t
    BY <1>1, <1>2, <2>3, <2>5 DEF PromptHasEarlierTurns
  <2>6. QED BY <2>4, <2>5
<1>11. QED BY <1>5, <1>6, <1>7, <1>8, <1>9, <1>10 DEF ChatInv

-----------------------------------------------------------------------------
\* prepare_turn reads the history: the window has the latest of what is committed.
LEMMA PrepareKeeps ==
    ASSUME ChatInv, NEW t \in Turns, Prepare(t)
    PROVE  ChatInv'
<1> DEFINE S == told[turn[t].thread]
<1>1. /\ ChatTypeOK /\ BeginInv /\ TurnInv /\ RowInv /\ turn \in [Turns -> Turn]
      /\ turn[t].step = "prepare" /\ t \in BegunTurns
  BY DEF ChatInv, ChatTypeOK, Prepare, BegunTurns
<1>2. turn[t].thread \in Threads /\ S \subseteq DoneTurns /\ IsFiniteSet(S) /\ DoneTurns \subseteq Turns
  BY <1>1 DEF BeginInv, ChatTypeOK, DoneTurns, RowInv
<1>3. WindowTurns(S) \subseteq S /\ WindowTurns(S) \in SUBSET Turns
  BY <1>2 DEF WindowTurns
<1>4. PICK r \in Turn :
      /\ r = SawTo(turn[t], "model", WindowTurns(S))
      /\ r.step = "model" /\ r.thread = turn[t].thread /\ r.began = turn[t].began
      /\ r.saw = WindowTurns(S) /\ r.titles = turn[t].titles
  <2>1. turn[t] \in Turn /\ "model" \in TurnSteps
    BY <1>1 DEF TurnSteps
  <2>2. QED BY <1>3, <2>1, SawIs
<1>5. turn' = [turn EXCEPT ![t] = r] /\ UNCHANGED <<hour, thread, told, gcVars, revived, before>>
  BY <1>4 DEF Prepare, SawTo
<1>6. ASSUME InOpen(t), NEW u \in before[t] \ WindowTurns(S)
      PROVE  Cardinality(Later(WindowTurns(S), u)) = Depth
  <2>1. u \in S
    BY <1>1, <1>6 DEF BeginInv
  <2>2. S \subseteq Turns /\ \A v, w \in S : turn[v].began = turn[w].began => v = w
    BY <1>1, <1>2 DEF BeginInv, BegunTurns, DoneTurns
  <2>3. u \notin WindowTurns(S)
    BY <1>6
  <2>4. QED BY <1>1, <1>2, <2>1, <2>2, <2>3, WindowIsLatest
<1>7. MovedOn(t, r)
  BY <1>1, <1>2, <1>3, <1>4, <1>6 DEF MovedOn, TurnEnded, TurnInv
<1>8. QED BY <1>4, <1>5, <1>7, MoveKeepsChat

\* A turn keeps what it has seen.
LEMMA StaysSeen ==
    ASSUME ChatInv, NEW t \in Turns, turn[t].step \notin {"new", "prepare", "lost"}
    PROVE  /\ turn[t].saw \subseteq DoneTurns
           /\ InOpen(t) => \A u \in before[t] \ turn[t].saw : Cardinality(Later(turn[t].saw, u)) = Depth
  BY DEF ChatInv, BeginInv, BegunTurns, PromptHasEarlierTurns, InOpen

\* The count, the title, the insertion and a failure leave rows as they are.
LEMMA QuietTurnKeeps ==
    ASSUME ChatInv, NEW t \in Turns,
           CountMessages(t) \/ SetTitle(t) \/ InsertMessages(t) \/ FailTurn(t)
    PROVE  ChatInv'
<1>1. /\ ChatTypeOK /\ BeginInv /\ TurnInv /\ RowInv /\ turn \in [Turns -> Turn]
  BY DEF ChatInv, ChatTypeOK
<1>2. /\ turn[t].step \notin {"new", "done", "lost"} /\ t \in BegunTurns
      /\ UNCHANGED <<hour, thread, told, gcVars, revived, before>>
  BY DEF CountMessages, SetTitle, InsertMessages, FailTurn, BegunTurns, Underway, TurnEnded
<1>3. turn[t].thread \in Threads /\ turn[t].saw \subseteq DoneTurns
  BY <1>1, <1>2 DEF BeginInv
<1>4. PICK r \in Turn :
          /\ turn' = [turn EXCEPT ![t] = r]
          /\ r.thread = turn[t].thread /\ r.began = turn[t].began /\ r.saw = turn[t].saw
          /\ \/ /\ turn[t].step = "model" /\ r.titles = turn[t].titles
                /\ r.step = IF told[turn[t].thread] = {} THEN "title" ELSE "insert"
             \/ /\ turn[t].step = "title" /\ r.step = "insert"
                /\ r.titles <=> turn[t].thread \in OpenThreads
             \/ /\ turn[t].step = "insert" /\ r.step = "commit" /\ r.titles = turn[t].titles
                /\ turn[t].thread \in OpenThreads \ Pruned
             \/ r.step = "lost" /\ r.titles = FALSE
  <2>1. turn[t] \in Turn /\ {"title", "insert", "commit", "lost"} \subseteq TurnSteps
    BY <1>1 DEF TurnSteps
  <2>2. ASSUME NEW step \in {"title", "insert", "commit", "lost"}, TurnTo(t, step)
        PROVE  \E r \in Turn : /\ turn' = [turn EXCEPT ![t] = r] /\ r.step = step
                               /\ r.thread = turn[t].thread /\ r.began = turn[t].began
                               /\ r.saw = turn[t].saw /\ r.titles = turn[t].titles
    <3>1. turn' = [turn EXCEPT ![t] = StepTo(turn[t], step)]
      BY <2>2 DEF TurnTo, StepTo
    <3>2. step \in TurnSteps
      BY <2>1
    <3>3. LET r == StepTo(turn[t], step)
          IN  /\ r \in Turn /\ r.step = step /\ r.thread = turn[t].thread
              /\ r.began = turn[t].began /\ r.saw = turn[t].saw /\ r.titles = turn[t].titles
      BY <2>1, <3>2, StepIs, Zenon
    <3>4. QED BY <3>1, <3>3
  <2>3. ASSUME NEW step \in {"insert", "lost"}, NEW titles \in BOOLEAN,
               turn' = [turn EXCEPT ![t].step = step, ![t].titles = titles]
        PROVE  \E r \in Turn : /\ turn' = [turn EXCEPT ![t] = r] /\ r.step = step
                               /\ r.thread = turn[t].thread /\ r.began = turn[t].began
                               /\ r.saw = turn[t].saw /\ r.titles = titles
    <3>1. turn' = [turn EXCEPT ![t] = TitlesTo(turn[t], step, titles)]
      BY <2>3 DEF TitlesTo
    <3>2. turn[t] \in Turn /\ step \in TurnSteps /\ titles \in BOOLEAN
      BY <2>1
    <3>3. LET r == TitlesTo(turn[t], step, titles)
          IN  /\ r \in Turn /\ r.step = step /\ r.thread = turn[t].thread
              /\ r.began = turn[t].began /\ r.saw = turn[t].saw /\ r.titles = titles
      BY ONLY <3>2, TitlesIs
    <3>4. QED BY <3>1, <3>3
  <2>5. CASE CountMessages(t)
    BY <2>2, <2>5 DEF CountMessages
  <2>6. CASE SetTitle(t)
    <3>1. (turn[t].thread \in OpenThreads) \in BOOLEAN
      OBVIOUS
    <3>2. QED BY <2>3, <2>6, <3>1 DEF SetTitle
  <2>7. CASE InsertMessages(t)
    BY <2>2, <2>3, <2>7 DEF InsertMessages
  <2>8. CASE FailTurn(t)
    BY <2>3, <2>8 DEF FailTurn
  <2>9. QED BY <2>5, <2>6, <2>7, <2>8
<1>5. MovedOn(t, r)
  <2>1. turn[t].step = "prepare" => r.step = "lost"
    BY <1>4
  <2>2. r.step \notin {"prepare", "lost"} /\ InOpen(t) =>
           \A u \in before[t] \ r.saw : Cardinality(Later(r.saw, u)) = Depth
    BY <1>2, <1>4, <2>1, StaysSeen
  <2>3. (r.step = "title" \/ r.titles) /\ InOpen(t) => before[t] = {}
    BY <1>1, <1>2, <1>4 DEF TurnInv, BeginInv, InOpen
  <2>4. r.titles => r.step \in {"insert", "commit"}
    BY <1>1, <1>4 DEF TurnInv
  <2>5. r.step = "commit" => turn[t].thread \in OpenThreads \ Pruned
    BY <1>4
  <2>6. r.step \notin {"new", "done"}
    BY <1>4
  <2>7. QED BY <1>2, <1>3, <1>4, <2>2, <2>3, <2>4, <2>5, <2>6 DEF MovedOn, TurnEnded
<1>6. QED BY <1>2, <1>4, <1>5, MoveKeepsChat

-----------------------------------------------------------------------------
\* A session without inserted messages goes, and its messages with it.
LEMMA RemoveKeeps ==
    ASSUME ChatInv, NEW S \in SUBSET Threads, RemoveThreads(S), UNCHANGED <<hour, turn, before>>,
           \A s \in S \cap OpenThreads : Inserted(s) = {}
    PROVE  /\ thread' \in [Threads -> ThreadRow]
           /\ told' \in [Threads -> SUBSET {t \in Turns : turn'[t].step = "done"}]
           /\ \A s \in Threads : told'[s] # {} => s \in OpenThreads'
           /\ BeginInv' /\ TurnInv' /\ RowInv' /\ PromptHasEarlierTurns'
           /\ OpenThreads' \subseteq OpenThreads
           /\ \A s \in Threads : /\ thread'[s].active = thread[s].active
                                 /\ thread'[s].state = "unborn" => thread[s].state = "unborn"
                                 /\ thread[s].state # "unborn" => thread'[s].state # "unborn" \/ s \in S
                                 /\ s \in S => thread'[s].state = "deleted"
<1>1. /\ ChatTypeOK /\ BeginInv /\ TurnInv /\ RowInv /\ PromptHasEarlierTurns
      /\ thread \in [Threads -> ThreadRow] /\ turn \in [Turns -> Turn]
      /\ told \in [Threads -> SUBSET {t \in Turns : turn[t].step = "done"}]
      /\ turn' = turn /\ hour' = hour /\ before' = before
  BY DEF ChatInv, ChatTypeOK
<1>2. ASSUME NEW s \in Threads
      PROVE  /\ thread'[s] \in ThreadRow
             /\ thread'[s].active = thread[s].active /\ thread'[s].title = thread[s].title
             /\ s \in S => thread'[s].state = "deleted" /\ told'[s] = {}
             /\ s \notin S => thread'[s].state = thread[s].state /\ told'[s] = told[s]
  <2>1. thread[s] \in ThreadRow
    BY <1>1
  <2>2. CASE s \in S
    <3>1. thread'[s] = [thread[s] EXCEPT !.state = "deleted"] /\ told'[s] = {}
      BY <2>2 DEF RemoveThreads
    <3>2. QED BY <2>1, <2>2, <3>1 DEF ThreadRow
  <2>3. CASE s \notin S
    <3>1. thread'[s] = thread[s] /\ told'[s] = told[s]
      BY <2>3 DEF RemoveThreads
    <3>2. QED BY <2>1, <2>3, <3>1
  <2>4. QED BY <2>2, <2>3
<1>3. OpenThreads' = OpenThreads \ S
  BY <1>2 DEF OpenThreads
<1>4. /\ thread' \in [Threads -> ThreadRow]
      /\ told' \in [Threads -> SUBSET {t \in Turns : turn[t].step = "done"}]
  <2>1. \A s \in Threads : told'[s] \subseteq told[s]
    BY <1>2
  <2>2. QED BY <1>1, <1>2, <2>1 DEF RemoveThreads
<1>5. \A s \in Threads : told'[s] # {} => s \in OpenThreads'
  BY <1>1, <1>2, <1>3 DEF ChatTypeOK
<1>6. /\ BegunTurns' = BegunTurns /\ DoneTurns' = DoneTurns /\ Underway' = Underway
      /\ \A t \in Turns : InOpen(t)' => InOpen(t) /\ turn[t].thread \notin S /\ turn[t].thread \in Threads
  BY <1>1, <1>3 DEF BegunTurns, DoneTurns, Underway, InOpen, OpenThreads
<1>7. BeginInv'
  <2>1. \A t \in BegunTurns : t \in Turns
    BY DEF BegunTurns
  <2>2. QED BY <1>1, <1>2, <1>6, <2>1 DEF BeginInv
<1>8. TurnInv'
  <2>1. \A t \in Turns : turn[t].step = "commit" => InOpen(t)'
    BY <1>1, <1>3 DEF TurnInv, InOpen, Inserted
  <2>2. QED BY <1>1, <1>6, <2>1 DEF TurnInv
<1>9. RowInv'
  <2>1. \A s \in Threads : IsFiniteSet(told'[s])
    BY <1>1, <1>2, FS_EmptySet DEF RowInv
  <2>2. \A t \in Underway : t \in Turns
    BY DEF Underway
  <2>3. QED BY <1>1, <1>2, <1>3, <1>6, <2>1, <2>2 DEF RowInv
<1>10. PromptHasEarlierTurns'
  BY <1>1, <1>3 DEF PromptHasEarlierTurns, Later
<1>11. QED BY <1>1, <1>2, <1>3, <1>4, <1>5, <1>7, <1>8, <1>9, <1>10

\* The owner deletes a session in which no turn holds messages.
LEMMA DeleteKeeps ==
    ASSUME ChatInv, NEW s \in Threads, DeleteOwned(s)
    PROVE  ChatInv'
<1>1. /\ RemoveThreads({s}) /\ UNCHANGED <<hour, turn, before>>
      /\ gc' = gc /\ gcNow' = gcNow /\ listing' = listing /\ revived' = revived
      /\ \A v \in {s} \cap OpenThreads : Inserted(v) = {}
  BY DEF DeleteOwned, gcVars
<1>2. /\ thread' \in [Threads -> ThreadRow]
      /\ told' \in [Threads -> SUBSET {t \in Turns : turn'[t].step = "done"}]
      /\ \A v \in Threads : told'[v] # {} => v \in OpenThreads'
      /\ BeginInv' /\ TurnInv' /\ RowInv' /\ PromptHasEarlierTurns'
      /\ OpenThreads' \subseteq OpenThreads
      /\ \A v \in Threads : /\ thread'[v].active = thread[v].active
                            /\ thread'[v].state = "unborn" => thread[v].state = "unborn"
  BY <1>1, RemoveKeeps
<1>3. ChatTypeOK'
  BY <1>1, <1>2 DEF ChatInv, ChatTypeOK
<1>4. GcInv'
  <2>1. Prune' = Prune /\ Prune \subseteq Threads /\ \A v \in Threads : Inserted(v)' = Inserted(v)
    BY <1>1 DEF Prune, Inserted
  <2>2. QED BY <1>1, <1>2, <2>1 DEF ChatInv, GcInv
<1>5. QED BY <1>2, <1>3, <1>4 DEF ChatInv

\* gc_housekeeping commits its deletions.
LEMMA GcCommitKeeps ==
    ASSUME ChatInv, GcCommit
    PROVE  ChatInv'
<1>1. /\ RemoveThreads(Prune) /\ UNCHANGED <<hour, turn, before>>
      /\ gc' = "idle" /\ gcNow' = 0 /\ listing' = [s \in Threads |-> 0] /\ revived' = {}
      /\ Prune \in SUBSET Threads
      /\ \A v \in Prune \cap OpenThreads : Inserted(v) = {}
  BY DEF GcCommit, GcEnds, Prune, ChatInv, GcInv
<1>2. /\ thread' \in [Threads -> ThreadRow]
      /\ told' \in [Threads -> SUBSET {t \in Turns : turn'[t].step = "done"}]
      /\ \A v \in Threads : told'[v] # {} => v \in OpenThreads'
      /\ BeginInv' /\ TurnInv' /\ RowInv' /\ PromptHasEarlierTurns'
  BY <1>1, RemoveKeeps
<1>3. ChatTypeOK'
  BY <1>1, <1>2, ChatAssumption DEF ChatInv, ChatTypeOK
<1>4. GcInv'
  BY <1>1 DEF GcInv
<1>5. QED BY <1>2, <1>3, <1>4 DEF ChatInv

\* The job lists, decides or fails, or time passes: sessions and turns stay.
LEMMA RowsStay ==
    ASSUME ChatInv, UNCHANGED <<thread, told, turn, before>>, hour' \in {hour, hour + 1}
    PROVE  BeginInv' /\ TurnInv' /\ RowInv' /\ PromptHasEarlierTurns'
<1>1. /\ ChatTypeOK /\ BeginInv /\ TurnInv /\ RowInv /\ PromptHasEarlierTurns
      /\ hour \in Nat /\ hour' \in Nat /\ hour' >= hour
      /\ \A t \in Turns : turn[t].began \in Nat
      /\ \A s \in Threads : thread[s].active \in Nat
  BY ChatAssumption DEF ChatInv, ChatTypeOK, Turn, ThreadRow
<1>2. /\ OpenThreads' = OpenThreads /\ BegunTurns' = BegunTurns /\ DoneTurns' = DoneTurns
      /\ Underway' = Underway /\ \A t \in Turns : InOpen(t)' = InOpen(t)
      /\ BegunTurns \subseteq Turns /\ Underway \subseteq Turns
  BY DEF OpenThreads, BegunTurns, DoneTurns, Underway, InOpen
<1>3. BeginInv'
  <2>1. ASSUME NEW t \in BegunTurns PROVE turn[t].began < hour'
    BY <1>1, <1>2 DEF BeginInv
  <2>2. QED BY <1>1, <1>2, <2>1 DEF BeginInv
<1>4. TurnInv'
  BY <1>1, <1>2 DEF TurnInv
<1>5. RowInv'
  <2>1. ASSUME NEW s \in Threads PROVE thread[s].active < hour'
    BY <1>1 DEF RowInv
  <2>2. QED BY <1>1, <1>2, <2>1 DEF RowInv
<1>6. PromptHasEarlierTurns'
  BY <1>1, <1>2 DEF PromptHasEarlierTurns, Later
<1>7. QED BY <1>3, <1>4, <1>5, <1>6

\* Every other step of gc_housekeeping, and the passing of time.
LEMMA GcStepKeeps ==
    ASSUME ChatInv, GcList \/ GcDelete \/ GcFail \/ HourPasses \/ UNCHANGED chatVars
    PROVE  ChatInv'
<1>1. /\ UNCHANGED <<thread, told, turn, before>> /\ hour' \in {hour, hour + 1} /\ hour' \in 1..MaxHour
  BY ChatAssumption DEF GcList, GcDelete, GcFail, HourPasses, chatVars, ChatInv, ChatTypeOK
<1>2. /\ BeginInv' /\ TurnInv' /\ RowInv' /\ PromptHasEarlierTurns'
  BY <1>1, RowsStay
<1>3. /\ hour \in 0..MaxHour /\ hour \in Nat
      /\ \A s \in Threads : thread[s].active \in Nat /\ thread[s].active < hour
  BY ChatAssumption DEF ChatInv, ChatTypeOK, RowInv, ThreadRow
<1>4. ChatTypeOK'
  <2>1. /\ thread' \in [Threads -> ThreadRow]
        /\ told' \in [Threads -> SUBSET {t \in Turns : turn'[t].step = "done"}]
        /\ \A s \in Threads : told'[s] # {} => s \in OpenThreads'
        /\ turn' \in [Turns -> Turn] /\ before' \in [Turns -> SUBSET Turns]
    BY <1>1 DEF ChatInv, ChatTypeOK, OpenThreads
  <2>2. \A s \in Threads : thread[s].active \in 0..MaxHour /\ 0 \in 0..MaxHour
    BY <1>3, ChatAssumption
  <2>3. /\ gc' \in {"idle", "listed", "deleted"} /\ gcNow' \in 0..MaxHour
        /\ listing' \in [Threads -> 0..MaxHour] /\ revived' \subseteq Threads
    BY <1>3, <2>2, ChatAssumption
       DEF GcList, GcDelete, GcFail, GcEnds, HourPasses, chatVars, gcVars, ChatInv, ChatTypeOK
  <2>4. QED BY <1>1, <2>1, <2>3 DEF ChatTypeOK
<1>5. GcInv'
  <2>1. CASE GcList
    <3>1. /\ gc' = "listed" /\ revived' = {}
          /\ \A s \in Threads : listing'[s] = IF s \in OpenThreads THEN thread[s].active ELSE 0
          /\ OpenThreads' = OpenThreads /\ Prune' \subseteq Threads /\ thread' = thread
      BY <1>1, <2>1 DEF GcList, OpenThreads, Prune
    <3>2. QED BY <3>1 DEF GcInv, OpenThreads
  <2>2. CASE GcFail
    BY <1>1, <2>2 DEF GcFail, GcEnds, GcInv
  <2>3. CASE GcDelete \/ HourPasses \/ UNCHANGED chatVars
    <3>1. /\ gcNow' = gcNow /\ listing' = listing /\ revived' = revived
          /\ Prune' = Prune /\ OpenThreads' = OpenThreads
          /\ \A s \in Threads : Inserted(s)' = Inserted(s)
          /\ Prune \subseteq Threads /\ thread' = thread
      BY <1>1, <2>3 DEF GcDelete, HourPasses, chatVars, gcVars, Prune, OpenThreads, Inserted
    <3>2. /\ gc' # "idle" => gc # "idle"
          /\ gc' = "deleted" => gc = "deleted" \/ \A s \in Prune : Inserted(s) = {}
      BY <2>3 DEF GcDelete, HourPasses, chatVars, gcVars
    <3>3. QED BY <3>1, <3>2 DEF ChatInv, GcInv
  <2>4. QED BY <2>1, <2>2, <2>3
<1>6. QED BY <1>2, <1>4, <1>5 DEF ChatInv

-----------------------------------------------------------------------------
\* A turn begins: in a new session, or in one that is there.
LEMMA BeginKeeps ==
    ASSUME ChatInv, NEW t \in Turns, NEW s \in Threads, BeginTurn(t, s)
    PROVE  ChatInv'
<1>1. /\ ChatTypeOK /\ BeginInv /\ TurnInv /\ RowInv /\ GcInv /\ PromptHasEarlierTurns
      /\ turn \in [Turns -> Turn] /\ thread \in [Threads -> ThreadRow]
      /\ turn[t].step = "new" /\ hour \in Nat /\ hour \in 1..MaxHour /\ hour' = hour + 1 /\ hour' \in 1..MaxHour
      /\ told' = told /\ gc' = gc /\ gcNow' = gcNow /\ listing' = listing /\ revived' = revived
      /\ \A u \in Turns : turn[u].began \in Nat
      /\ \A v \in Threads : thread[v].active \in Nat
  BY ChatAssumption DEF ChatInv, ChatTypeOK, BeginTurn, gcVars, Turn, ThreadRow
<1>2. PICK r \in Turn : /\ turn' = [turn EXCEPT ![t] = r]
                        /\ r.step = "prepare" /\ r.thread = s /\ r.began = hour
                        /\ r.saw = {} /\ r.titles = FALSE
  <2>1. turn[t] \in Turn /\ turn[t].saw = {} /\ turn[t].titles = FALSE
    BY <1>1 DEF TurnInv, Turn
  <2> DEFINE r == [turn[t] EXCEPT !.step = "prepare", !.thread = s, !.began = hour]
  <2>2. r \in Turn
    BY <1>1, <2>1 DEF Turn, TurnSteps
  <2>3. r.step = "prepare" /\ r.thread = s /\ r.began = hour /\ r.saw = {} /\ r.titles = FALSE
    BY <2>1 DEF Turn
  <2>4. turn' = [turn EXCEPT ![t] = r]
    BY DEF BeginTurn
  <2>5. QED BY <2>2, <2>3, <2>4
<1>3. /\ turn' \in [Turns -> Turn] /\ turn'[t] = r
      /\ \A u \in Turns \ {t} : turn'[u] = turn[u]
  BY <1>1, <1>2, TurnMoves
<1>4. /\ thread' \in [Threads -> ThreadRow] /\ thread'[s].state = "open"
      /\ thread'[s].active <= hour
      /\ thread'[s].title = thread[s].title
      /\ thread[s].state = "unborn" \/ thread' = thread
      /\ \A v \in Threads \ {s} : thread'[v] = thread[v]
  <2>1. thread[s] \in ThreadRow /\ thread[s].active < hour
    BY <1>1 DEF RowInv
  <2>2. CASE thread' = thread /\ s \in OpenThreads
    BY <1>1, <2>1, <2>2 DEF OpenThreads
  <2>3. CASE thread' = [thread EXCEPT ![s].state = "open", ![s].active = hour] /\ thread[s].state = "unborn"
    <3>1. [thread[s] EXCEPT !.state = "open", !.active = hour] \in ThreadRow
      BY <1>1, <2>1 DEF ThreadRow
    <3>2. LET q == [thread[s] EXCEPT !.state = "open", !.active = hour]
          IN  q.state = "open" /\ q.active = hour /\ q.title = thread[s].title
      BY <2>1 DEF ThreadRow
    <3>3. QED BY <1>1, <2>3, <3>1, <3>2
  <2>4. QED BY <2>2, <2>3 DEF BeginTurn
<1>5. /\ before' = [before EXCEPT ![t] = told[s]] /\ before \in [Turns -> SUBSET Turns]
      /\ told[s] \subseteq DoneTurns /\ DoneTurns \subseteq Turns
      /\ before'[t] = told[s] /\ \A u \in Turns \ {t} : before'[u] = before[u]
  BY <1>1 DEF BeginTurn, ChatTypeOK, DoneTurns
<1>6. /\ BegunTurns' = BegunTurns \cup {t} /\ t \notin BegunTurns /\ BegunTurns \subseteq Turns
      /\ DoneTurns' = DoneTurns /\ t \notin DoneTurns /\ Underway' = Underway \cup {t} /\ Underway \subseteq BegunTurns
      /\ OpenThreads' = OpenThreads \cup {s}
  <2>1. \A v \in Threads \ {s} : v \in OpenThreads' <=> v \in OpenThreads
    BY <1>4 DEF OpenThreads
  <2>2. s \in OpenThreads'
    BY <1>4 DEF OpenThreads
  <2>3. QED BY <1>1, <1>2, <1>3, <2>1, <2>2 DEF BegunTurns, DoneTurns, Underway, TurnEnded, OpenThreads
<1>7. ASSUME NEW u \in BegunTurns
      PROVE  /\ u # t /\ u \in Turns /\ turn'[u] = turn[u] /\ before'[u] = before[u]
             /\ InOpen(u)' <=> InOpen(u)
             /\ turn[u].thread \in Threads
             /\ InOpen(u) => thread'[turn[u].thread] = thread[turn[u].thread]
             /\ thread'[turn[u].thread].state # "unborn"
  <2>1. /\ u # t /\ u \in Turns /\ turn'[u] = turn[u] /\ before'[u] = before[u]
        /\ turn[u].thread \in Threads /\ thread[turn[u].thread].state # "unborn"
    BY <1>1, <1>3, <1>5, <1>6 DEF BeginInv
  <2>2. QED BY <1>4, <1>6, <2>1 DEF InOpen, OpenThreads
<1>8. ChatTypeOK'
  <2>1. told' \in [Threads -> SUBSET {u \in Turns : turn'[u].step = "done"}]
    BY <1>1, <1>6 DEF ChatTypeOK, DoneTurns
  <2>2. \A v \in Threads : told'[v] # {} => v \in OpenThreads'
    BY <1>1, <1>6 DEF ChatTypeOK
  <2>3. QED BY <1>1, <1>3, <1>4, <1>5, <2>1, <2>2 DEF ChatTypeOK
<1>9. BeginInv'
  <2>1. ASSUME NEW u \in BegunTurns
        PROVE  /\ turn'[u].thread \in Threads /\ thread'[turn'[u].thread].state # "unborn"
               /\ turn'[u].began < hour' /\ turn'[u].began < hour
               /\ before'[u] \subseteq DoneTurns' /\ turn'[u].saw \subseteq DoneTurns'
               /\ InOpen(u)' => before'[u] \subseteq told'[turn'[u].thread]
    BY <1>1, <1>6, <1>7 DEF BeginInv
  <2>2. /\ turn'[t].thread \in Threads /\ thread'[turn'[t].thread].state # "unborn"
        /\ turn'[t].began < hour' /\ turn'[t].began = hour
        /\ before'[t] \subseteq DoneTurns' /\ turn'[t].saw \subseteq DoneTurns'
        /\ InOpen(t)' => before'[t] \subseteq told'[turn'[t].thread]
    BY <1>1, <1>2, <1>3, <1>4, <1>5, <1>6
  <2>3. \A u, v \in BegunTurns' : turn'[u].began = turn'[v].began => u = v
    BY <1>1, <1>6, <1>7, <2>1, <2>2 DEF BeginInv
  <2>4. QED BY <1>6, <2>1, <2>2, <2>3 DEF BeginInv
<1>10. TurnInv'
  <2>1. ASSUME NEW u \in Turns, u # t, u \notin BegunTurns
        PROVE  turn'[u].step = "new" /\ turn'[u].saw = {} /\ ~turn'[u].titles
    BY <1>1, <1>3, <2>1 DEF TurnInv, BegunTurns
  <2>2. ASSUME NEW u \in BegunTurns
        PROVE  /\ turn'[u].step = "new" => turn'[u].saw = {}
               /\ turn'[u].step = "commit" => InOpen(u)'
               /\ turn'[u].titles => turn'[u].step \in {"insert", "commit"}
               /\ (turn'[u].step = "title" \/ turn'[u].titles) /\ InOpen(u)' => before'[u] = {}
    BY <1>1, <1>7 DEF TurnInv
  <2>3. QED BY <1>2, <1>3, <2>1, <2>2 DEF TurnInv
<1>11. RowInv'
  <2>1. ASSUME NEW v \in Threads
        PROVE  /\ thread'[v].active < hour' /\ IsFiniteSet(told'[v])
               /\ thread'[v].state # "deleted" => thread'[v].title \in told'[v] \cup {NoTurn}
    <3>1. thread[v].active < hour /\ IsFiniteSet(told[v])
      BY <1>1 DEF RowInv
    <3>2. /\ thread'[v].state # "deleted" => thread[v].state # "deleted"
          /\ thread'[v].title = thread[v].title
          /\ thread'[v].active \in Nat /\ thread[v].active \in Nat
          /\ thread'[v].active <= hour \/ thread'[v].active = thread[v].active
      BY <1>1, <1>4 DEF ThreadRow
    <3>3. QED BY <1>1, <3>1, <3>2 DEF RowInv
  <2>2. ASSUME NEW u \in Underway', InOpen(u)', told'[turn'[u].thread] \subseteq before'[u]
        PROVE  thread'[turn'[u].thread].active <= turn'[u].began
    <3>1. CASE u = t
      BY <1>2, <1>3, <1>4, <3>1
    <3>2. CASE u # t
      <4>1. u \in BegunTurns /\ u \in Underway
        BY <1>6, <3>2
      <4>2. QED BY <1>1, <1>7, <2>2, <4>1 DEF RowInv
    <3>3. QED BY <3>1, <3>2
  <2>3. QED BY <2>1, <2>2 DEF RowInv
<1>12. GcInv'
  <2>1. /\ Prune' = Prune /\ Prune \subseteq Threads /\ \A v \in Prune : listing[v] > 0
    BY <1>1 DEF Prune
  <2>2. \A v \in Threads : listing[v] > 0 => thread'[v] = thread[v]
    BY <1>1, <1>4 DEF GcInv
  <2>3. Prune \cap OpenThreads' = Prune \cap OpenThreads
    BY <2>1, <2>2 DEF OpenThreads
  <2>4. \A v \in Threads : Inserted(v)' = Inserted(v)
    BY <1>1, <1>2, <1>3 DEF Inserted
  <2>5. QED BY <1>1, <2>1, <2>2, <2>3, <2>4 DEF GcInv
<1>13. PromptHasEarlierTurns'
  <2>1. SUFFICES ASSUME NEW u \in Turns, turn'[u].step \notin {"new", "prepare", "lost"},
                        turn'[u].thread \in OpenThreads', NEW v \in before'[u] \ turn'[u].saw
                 PROVE  Cardinality(Later(turn[u].saw, v)') = Depth
    BY DEF PromptHasEarlierTurns
  <2>2. u \in BegunTurns
    BY <1>2, <1>3, <2>1 DEF BegunTurns
  <2>3. turn[u].saw \subseteq DoneTurns /\ before[u] \subseteq DoneTurns
    BY <1>1, <2>2 DEF BeginInv
  <2>4. \A w \in DoneTurns : w \in Turns /\ turn'[w] = turn[w]
    BY <1>3, <1>6 DEF DoneTurns
  <2>5. Later(turn[u].saw, v)' = Later(turn[u].saw, v)
    BY <1>7, <2>1, <2>2, <2>3, <2>4 DEF Later
  <2>6. QED BY <1>1, <1>7, <2>1, <2>2, <2>5 DEF PromptHasEarlierTurns, InOpen
<1>14. QED BY <1>8, <1>9, <1>10, <1>11, <1>12, <1>13 DEF ChatInv

\* A turn commits its messages, its title and the time of its session.
LEMMA CommitKeepsChat ==
    ASSUME ChatInv, NEW t \in Turns, CommitTurn(t)
    PROVE  ChatInv'
<1> DEFINE s == turn[t].thread
<1>1. /\ ChatTypeOK /\ BeginInv /\ TurnInv /\ RowInv /\ GcInv /\ PromptHasEarlierTurns
      /\ turn \in [Turns -> Turn] /\ thread \in [Threads -> ThreadRow]
      /\ told \in [Threads -> SUBSET {u \in Turns : turn[u].step = "done"}]
      /\ turn[t].step = "commit" /\ t \in BegunTurns /\ t \in Underway
      /\ hour' = hour /\ gc' = gc /\ gcNow' = gcNow /\ listing' = listing /\ before' = before
  BY DEF ChatInv, ChatTypeOK, CommitTurn, gcVars, BegunTurns, Underway, TurnEnded
<1>2. s \in Threads /\ s \in OpenThreads /\ turn[t].began < hour /\ turn[t].began \in Nat
  BY <1>1 DEF BeginInv, TurnInv, InOpen, Turn
<1>3. PICK r \in Turn : /\ turn' = [turn EXCEPT ![t] = r]
                        /\ r.step = "done" /\ r.thread = s /\ r.began = turn[t].began
                        /\ r.saw = turn[t].saw /\ r.titles = FALSE
  <2>1. turn[t] \in Turn /\ "done" \in TurnSteps
    BY <1>1 DEF TurnSteps
  <2>2. turn' = [turn EXCEPT ![t] = TitlesTo(turn[t], "done", FALSE)]
    BY DEF CommitTurn, TitlesTo
  <2>3. LET r == TitlesTo(turn[t], "done", FALSE)
        IN  /\ r \in Turn /\ r.step = "done" /\ r.thread = s /\ r.began = turn[t].began
            /\ r.saw = turn[t].saw /\ r.titles = FALSE
    BY <2>1, TitlesIs
  <2>4. QED BY <2>2, <2>3
<1>4. /\ turn' \in [Turns -> Turn] /\ turn'[t] = r
      /\ \A u \in Turns \ {t} : turn'[u] = turn[u]
  BY <1>1, <1>3, TurnMoves
<1>5. /\ thread' \in [Threads -> ThreadRow] /\ thread'[s].state = thread[s].state
      /\ thread'[s].active = turn[t].began
      /\ thread'[s].title = IF turn[t].titles THEN t ELSE thread[s].title
      /\ \A v \in Threads \ {s} : thread'[v] = thread[v]
  <2> DEFINE title == IF turn[t].titles THEN t ELSE thread[s].title
             q == [thread[s] EXCEPT !.active = turn[t].began, !.title = title]
  <2>1. thread[s] \in ThreadRow /\ title \in Turns \cup {NoTurn}
    BY <1>1, <1>2 DEF ThreadRow
  <2>2. thread' = [thread EXCEPT ![s] = q]
    BY DEF CommitTurn
  <2> HIDE DEF title
  <2>3. q \in ThreadRow /\ q.state = thread[s].state /\ q.active = turn[t].began /\ q.title = title
    BY <1>2, <2>1 DEF ThreadRow
  <2> HIDE DEF q
  <2>4. QED BY <1>1, <1>2, <2>2, <2>3 DEF title
<1>6. /\ told'[s] = told[s] \cup {t} /\ \A v \in Threads \ {s} : told'[v] = told[v]
      /\ told' = [told EXCEPT ![s] = @ \cup {t}]
  BY <1>1, <1>2 DEF CommitTurn
<1>7. /\ BegunTurns' = BegunTurns /\ DoneTurns' = DoneTurns \cup {t} /\ t \notin DoneTurns
      /\ Underway' = Underway \ {t} /\ OpenThreads' = OpenThreads
      /\ BegunTurns \subseteq Turns /\ DoneTurns \subseteq BegunTurns /\ Underway \subseteq BegunTurns
      /\ \A u \in Turns : turn'[u].thread = turn[u].thread /\ turn'[u].began = turn[u].began
                          /\ turn'[u].saw = turn[u].saw /\ (InOpen(u)' <=> InOpen(u))
  <2>1. OpenThreads' = OpenThreads
    BY <1>2, <1>5 DEF OpenThreads
  <2>2. QED BY <1>1, <1>3, <1>4, <2>1 DEF BegunTurns, DoneTurns, Underway, TurnEnded, InOpen
<1>8. \A v \in Threads : thread'[v].state = thread[v].state
  BY <1>5
<1>9. ChatTypeOK'
  <2>1. told' \in [Threads -> SUBSET DoneTurns']
    BY <1>1, <1>6, <1>7 DEF DoneTurns
  <2>2. \A v \in Threads : told'[v] # {} => v \in OpenThreads'
    BY <1>1, <1>2, <1>6, <1>7 DEF ChatTypeOK
  <2>3. revived' \subseteq Threads
    BY <1>1, <1>2 DEF CommitTurn, ChatTypeOK
  <2>4. QED BY <1>1, <1>4, <1>5, <2>1, <2>2, <2>3 DEF ChatTypeOK, DoneTurns
<1>10. BeginInv'
  <2>1. \A v \in Threads : told[v] \subseteq told'[v]
    BY <1>6
  <2>2. QED BY <1>1, <1>7, <1>8, <2>1 DEF BeginInv
<1>11. TurnInv'
  BY <1>1, <1>3, <1>4, <1>7 DEF TurnInv
<1>12. RowInv'
  <2>1. ASSUME NEW v \in Threads
        PROVE  /\ thread'[v].active < hour' /\ IsFiniteSet(told'[v])
               /\ thread'[v].state # "deleted" => thread'[v].title \in told'[v] \cup {NoTurn}
    <3>1. CASE v = s
      <4>1. IsFiniteSet(told[s] \cup {t})
        BY <1>1, <1>2, FS_AddElement DEF RowInv
      <4>2. QED BY <1>1, <1>2, <1>5, <1>6, <3>1, <4>1 DEF RowInv
    <3>2. CASE v # s
      BY <1>1, <1>5, <1>6, <3>2 DEF RowInv
    <3>3. QED BY <3>1, <3>2
  <2>2. ASSUME NEW u \in Underway', InOpen(u)', told'[turn'[u].thread] \subseteq before'[u]
        PROVE  thread'[turn'[u].thread].active <= turn'[u].began
    <3>1. u \in Underway /\ u \in BegunTurns /\ u \in Turns /\ turn[u].thread \in Threads
          /\ before[u] \subseteq DoneTurns
      BY <1>1, <1>7 DEF BeginInv
    <3>2. turn[u].thread # s
      BY <1>1, <1>6, <1>7, <2>2, <3>1
    <3>3. QED BY <1>1, <1>5, <1>6, <1>7, <2>2, <3>1, <3>2 DEF RowInv
  <2>3. QED BY <2>1, <2>2 DEF RowInv
<1>13. GcInv'
  <2>1. Prune' = Prune /\ Prune \subseteq Threads
    BY <1>1 DEF Prune
  <2>2. gc = "deleted" => s \notin Prune
    BY <1>1, <1>2 DEF GcInv, Inserted
  <2>3. gc # "idle" => s \notin Prune \/ s \in revived'
    BY <1>1, <2>2 DEF CommitTurn, ChatTypeOK
  <2>4. revived \subseteq revived'
    BY DEF CommitTurn
  <2>5. \A v \in Threads : Inserted(v)' \subseteq Inserted(v)
    BY <1>3, <1>4, <1>7 DEF Inserted
  <2>6. QED BY <1>1, <1>2, <1>5, <1>7, <1>8, <2>1, <2>3, <2>4, <2>5 DEF GcInv
<1>14. PromptHasEarlierTurns'
  <2>1. SUFFICES ASSUME NEW u \in Turns, turn'[u].step \notin {"new", "prepare", "lost"},
                        turn'[u].thread \in OpenThreads, NEW v \in before[u] \ turn'[u].saw
                 PROVE  Cardinality(Later(turn[u].saw, v)') = Depth
    BY <1>1, <1>7 DEF PromptHasEarlierTurns
  <2>2. turn[u].step \notin {"new", "prepare", "lost"}
    BY <1>1, <1>4, <2>1
  <2>3. turn[u].saw \subseteq Turns /\ v \in Turns
    BY <1>1 DEF ChatTypeOK, Turn
  <2>4. Later(turn[u].saw, v)' = Later(turn[u].saw, v)
    BY <1>7, <2>3 DEF Later
  <2>5. QED BY <1>1, <1>7, <2>1, <2>2, <2>4 DEF PromptHasEarlierTurns
<1>15. QED BY <1>9, <1>10, <1>11, <1>12, <1>13, <1>14 DEF ChatInv

\* No step of a turn, of a deletion or of the housekeeping breaks the invariant.
LEMMA ChatStep == ChatInv /\ [ChatNext]_chatVars => ChatInv'
<1> SUFFICES ASSUME ChatInv, [ChatNext]_chatVars PROVE ChatInv'
  OBVIOUS
<1>1. ASSUME NEW t \in Turns, NEW s \in Threads, BeginTurn(t, s) PROVE ChatInv'
  BY <1>1, BeginKeeps
<1>2. ASSUME NEW t \in Turns, TurnStep(t) \/ FailTurn(t) PROVE ChatInv'
  BY <1>2, PrepareKeeps, QuietTurnKeeps, CommitKeepsChat DEF TurnStep
<1>3. ASSUME NEW s \in Threads, DeleteOwned(s) PROVE ChatInv'
  BY <1>3, DeleteKeeps
<1>4. CASE GcList \/ GcStep \/ GcFail \/ HourPasses \/ UNCHANGED chatVars
  BY <1>4, GcStepKeeps, GcCommitKeeps DEF GcStep
<1>5. QED BY <1>1, <1>2, <1>3, <1>4 DEF ChatNext

\* The invariant of the chat, for any number of sessions and turns.
LEMMA ChatHolds == ChatSpec => []ChatInv
  BY ChatInitOK, ChatStep, PTL DEF ChatSpec

\* Sessions, turns and the housekeeping keep their types.
THEOREM ChatTyped == ChatSpec => []ChatTypeOK
<1>1. ChatInv => ChatTypeOK
  BY DEF ChatInv
<1>2. QED BY <1>1, ChatHolds, PTL

\* prepare_turn: a prompt leaves out a turn that was committed before it began only if
\* it has as many later ones as the history holds, whatever turns run beside it.
THEOREM PromptsHaveEarlier == ChatSpec => []PromptHasEarlierTurns
<1>1. ChatInv => PromptHasEarlierTurns
  BY DEF ChatInv
<1>2. QED BY <1>1, ChatHolds, PTL

\* Which step takes a row away while the job moves, and which one adds messages.
LEMMA RowsGoByCommit ==
    ASSUME ChatInv, [ChatNext]_chatVars, NEW s \in OpenThreads, s \notin OpenThreads', gc' # gc
    PROVE  gc # "idle" /\ s \in Prune
<1>1. \A v \in Threads : thread[v] \in ThreadRow
  BY DEF ChatInv, ChatTypeOK
<1>2. s \in Threads /\ thread[s].state = "open"
  BY DEF OpenThreads
<1>3. thread' # thread
  BY DEF OpenThreads
<1>4. GcCommit
  BY <1>3 DEF ChatNext, TurnStep, GcStep, BeginTurn, Prepare, CountMessages, SetTitle,
     InsertMessages, CommitTurn, FailTurn, DeleteOwned, GcList, GcDelete, GcFail, HourPasses, chatVars, gcVars
<1>5. s \notin Prune => thread'[s] = thread[s]
  BY <1>2, <1>4 DEF GcCommit, RemoveThreads
<1>6. QED BY <1>2, <1>4, <1>5 DEF GcCommit, OpenThreads

\* gc_housekeeping removes a session that was not used after its list only for its age
\* or for the number of later ones, though it deletes by ids that it read earlier.
THEOREM ActiveSessionsSurvive == ChatSpec => ActiveSessionSurvives
<1>1. ASSUME ChatInv, [ChatNext]_chatVars, NEW s \in OpenThreads, s \notin OpenThreads', gc' # gc,
             s \notin revived
      PROVE  \/ thread[s].active + MaxAge < gcNow
             \/ Cardinality({u \in Threads : listing[u] > thread[s].active}) >= MaxSessions
  <2>1. gc # "idle" /\ s \in Prune
    BY <1>1, RowsGoByCommit
  <2>2. thread[s].active = listing[s]
    BY <1>1, <2>1 DEF ChatInv, GcInv
  <2>3. QED BY <2>1, <2>2 DEF Prune
<1>2. ChatInv /\ [ChatNext]_chatVars =>
        [\A s \in OpenThreads : s \notin OpenThreads' /\ gc' # gc
            => \/ s \in revived
               \/ thread[s].active + MaxAge < gcNow
               \/ Cardinality({u \in Threads : listing[u] > thread[s].active})
                    >= MaxSessions]_chatVars
  BY <1>1
<1>3. QED BY <1>2, ChatHolds, PTL DEF ChatSpec, ActiveSessionSurvives

\* A turn that overtook no other sets the session's time forward and its title once.
THEOREM SerialTurnsKeepSession == ChatSpec => SerialTurnKeepsSession
<1>1. ASSUME ChatInv, [ChatNext]_chatVars, NEW t \in Turns, NEW s \in Threads,
             t \in told'[s] \ told[s], told[s] \subseteq before[t]
      PROVE  /\ thread[s].active <= thread'[s].active
             /\ thread[s].title \in {NoTurn, thread'[s].title}
  <2>1. told' # told /\ \E v \in Threads : told'[v] # {}
    BY <1>1
  <2>2. ASSUME NEW S, RemoveThreads(S) PROVE FALSE
    BY <1>1, <2>2 DEF RemoveThreads
  <2>3. PICK u \in Turns : CommitTurn(u)
    BY <1>1, <2>1, <2>2 DEF ChatNext, TurnStep, GcStep, BeginTurn, Prepare, CountMessages,
       SetTitle, InsertMessages, FailTurn, DeleteOwned, GcList, GcDelete, GcCommit, GcFail, HourPasses,
       chatVars, gcVars
  <2>4. /\ ChatTypeOK /\ BeginInv /\ TurnInv /\ RowInv /\ turn \in [Turns -> Turn]
        /\ thread \in [Threads -> ThreadRow] /\ told \in [Threads -> SUBSET Turns]
    BY <1>1 DEF ChatInv, ChatTypeOK
  <2>5. u = t /\ turn[t].thread = s
    BY <1>1, <2>3, <2>4 DEF CommitTurn
  <2>6. InOpen(t) /\ t \in Underway
    BY <2>3, <2>4, <2>5 DEF CommitTurn, TurnInv, Underway, TurnEnded
  <2>7. /\ thread'[s].active = turn[t].began
        /\ thread'[s].title = IF turn[t].titles THEN t ELSE thread[s].title
    <3> DEFINE title == IF turn[t].titles THEN t ELSE thread[s].title
               q == [thread[s] EXCEPT !.active = turn[t].began, !.title = title]
    <3>1. thread' = [thread EXCEPT ![s] = q] /\ thread[s] \in ThreadRow
      BY <2>3, <2>4, <2>5 DEF CommitTurn
    <3> HIDE DEF title
    <3>2. q.active = turn[t].began /\ q.title = title
      BY <3>1 DEF ThreadRow
    <3> HIDE DEF q
    <3>3. QED BY <2>4, <3>1, <3>2 DEF title
  <2>8. thread[s].active <= turn[t].began
    BY <1>1, <2>4, <2>5, <2>6 DEF RowInv
  <2>9. turn[t].titles => thread[s].title = NoTurn
    <3>1. turn[t].titles => before[t] = {}
      BY <2>4, <2>6 DEF TurnInv
    <3>2. thread[s].title \in told[s] \cup {NoTurn}
      BY <2>4, <2>5, <2>6 DEF RowInv, InOpen, OpenThreads
    <3>3. QED BY <1>1, <3>1, <3>2
  <2>10. QED BY <2>7, <2>8, <2>9
<1>2. ChatInv /\ [ChatNext]_chatVars =>
        [\A t \in Turns, s \in Threads :
            /\ t \in told'[s] \ told[s]
            /\ told[s] \subseteq before[t]
            => /\ thread[s].active <= thread'[s].active
               /\ thread[s].title \in {NoTurn, thread'[s].title}]_chatVars
  BY <1>1
<1>3. QED BY <1>2, ChatHolds, PTL DEF ChatSpec, SerialTurnKeepsSession

-----------------------------------------------------------------------------
(* Harness *)

\* Each passed step has asked the model once, and each pass of coerce_structured.
AskedInv ==
    /\ phase \in {"step", "tools"} => asked = budget.steps /\ asked <= MaxSteps
    /\ phase = "ask" => asked + 1 = budget.steps /\ budget.steps <= MaxSteps
    /\ phase = "coerce" => budget.steps = 0 /\ asked = tried /\ tried <= Retries

\* The loop goes on only after an answer that was asked for within the budget.
TokensInv ==
    phase \in {"step", "ask", "tools"} =>
        spent = budget.tokens /\ spent <= TokenBudget + MaxUse

\* What has run was counted first, and its signature kept.
ToolsInv ==
    /\ phase = "tools" => calls # <<>>
    /\ Len(ran) <= budget.toolCalls
    /\ Len(wrote) <= budget.writes
    /\ \A i \in 1..Len(ran) : ran[i] \in seen

HarnessInv == HarnessTypeOK /\ AskedInv /\ TokensInv /\ ToolsInv /\ BudgetBoundsRun

-----------------------------------------------------------------------------
\* A run begins with the invariant.
LEMMA HarnessStarts == HarnessInit => HarnessInv
<1> SUFFICES ASSUME HarnessInit PROVE HarnessInv
  OBVIOUS
<1> USE HarnessAssumption DEF HarnessInit
<1>1. HarnessTypeOK
  BY DEF HarnessTypeOK, Phases, Budget
<1>2. AskedInv /\ TokensInv /\ ToolsInv
  BY DEF AskedInv, TokensInv, ToolsInv
<1>3. BudgetBoundsRun
  BY DEF BudgetBoundsRun, Distinct
<1> QED
  BY <1>1, <1>2, <1>3 DEF HarnessInv

\* Budget.step counts a step, add_tokens the tokens, and nothing else.
LEMMA Stepped ==
    ASSUME budget \in Budget, TakeStep
    PROVE  /\ budget' \in Budget /\ budget'.steps = budget.steps + 1
           /\ budget'.toolCalls = budget.toolCalls /\ budget'.writes = budget.writes
           /\ budget'.tokens = budget.tokens
BY DEF TakeStep, Budget

LEMMA TokensAdded ==
    ASSUME budget \in Budget, NEW n \in Nat, AddTokens(n)
    PROVE  /\ budget' \in Budget /\ budget'.steps = budget.steps
           /\ budget'.toolCalls = budget.toolCalls /\ budget'.writes = budget.writes
           /\ budget'.tokens = budget.tokens + n
BY DEF AddTokens, Budget

\* Charge counts a call, and a write if the call is not refused.
LEMMA Charged ==
    ASSUME budget \in Budget, NEW c, Charge(c)
    PROVE  /\ budget' \in Budget
           /\ budget'.steps = budget.steps /\ budget'.tokens = budget.tokens
           /\ budget'.toolCalls = budget.toolCalls + 1
           /\ budget'.writes = IF c \in Writing /\ budget.toolCalls < MaxToolCalls
                               THEN budget.writes + 1 ELSE budget.writes
<1> DEFINE w == IF c \in Writing /\ budget.toolCalls < MaxToolCalls
                THEN budget.writes + 1 ELSE budget.writes
<1>1. w \in Nat
  BY DEF Budget
<1>2. budget' = [steps |-> budget.steps, toolCalls |-> budget.toolCalls + 1,
                 writes |-> w, tokens |-> budget.tokens]
  BY DEF Charge, Budget
<1>3. budget' \in Budget
  <2> HIDE DEF w
  <2> QED
    BY <1>1, <1>2 DEF Budget
<1> QED
  BY <1>2, <1>3

\* What the tools leave alone stays within its bounds while the rest changes.
LEMMA ToolsKept ==
    ASSUME HarnessInv, UNCHANGED <<seen, ran, wrote>>,
           budget' \in Budget,
           budget'.toolCalls = budget.toolCalls, budget'.writes = budget.writes
    PROVE  /\ seen' \in SUBSET Calls /\ ran' \in Seq(Calls) /\ wrote' \in Seq(Calls)
           /\ Len(ran') <= budget'.toolCalls /\ Len(wrote') <= budget'.writes
           /\ \A i \in 1..Len(ran') : ran'[i] \in seen'
           /\ Len(ran') <= MaxToolCalls /\ Distinct(ran') /\ Len(wrote') <= MaxWrites
BY DEF HarnessInv, HarnessTypeOK, ToolsInv, BudgetBoundsRun, Distinct

\* An answer is asked for, and the tools wait.
LEMMA AnswersKeep ==
    ASSUME HarnessInv, NEW n \in 0..MaxUse,
           \/ TakeStep \/ OutOfTokens(n) \/ FinalAnswer(n) \/ BadObject(n) \/ GoodObject(n)
           \/ \E s \in Answers : ToolAnswer(n, s)
    PROVE  HarnessInv'
<1> DEFINE Rest == /\ AskedInv' /\ TokensInv'
                   /\ asked' <= IF budget'.steps > 0 THEN MaxSteps ELSE Retries + 1
                   /\ budget'.steps > 0 => spent' <= TokenBudget + 2 * MaxUse
           Kept == UNCHANGED <<seen, tried, ran, wrote>>
<1>0. /\ MaxSteps \in Nat /\ TokenBudget \in Nat /\ Retries \in Nat /\ MaxUse \in Nat
      /\ n \in Nat /\ n <= MaxUse
      /\ budget \in Budget /\ phase \in Phases /\ calls \in Seq(Calls)
      /\ tried \in Nat /\ asked \in Nat /\ spent \in Nat
      /\ AskedInv /\ TokensInv /\ ToolsInv /\ BudgetBoundsRun
  BY HarnessAssumption DEF HarnessInv, HarnessTypeOK
<1>a. /\ MaxSteps \in Nat /\ TokenBudget \in Nat /\ Retries \in Nat /\ MaxUse \in Nat
      /\ n \in Nat /\ n <= MaxUse /\ asked \in Nat /\ spent \in Nat
      /\ budget.steps \in Nat /\ budget.tokens \in Nat
  BY <1>0 DEF Budget
<1>1. ASSUME TakeStep PROVE HarnessInv'
  <2>1. /\ budget' \in Budget /\ budget'.steps = budget.steps + 1
        /\ budget'.toolCalls = budget.toolCalls /\ budget'.writes = budget.writes
        /\ budget'.tokens = budget.tokens
    BY <1>0, <1>1, Stepped
  <2>2. /\ phase = "step" /\ UNCHANGED <<calls, asked, spent>> /\ Kept
        /\ phase' = IF budget'.steps > MaxSteps THEN "done" ELSE "ask"
    BY <1>1, <2>1 DEF TakeStep, harnessRun
  <2>3. Rest
    <3>1. asked = budget.steps /\ asked <= MaxSteps
      BY ONLY <1>0, <2>2 DEF AskedInv
    <3>2. spent = budget.tokens /\ spent <= TokenBudget + MaxUse
      BY ONLY <1>0, <2>2 DEF TokensInv
    <3>3. AskedInv' /\ TokensInv'
      BY ONLY <1>0, <1>a, <2>1, <2>2, <3>1, <3>2 DEF AskedInv, TokensInv
    <3>4. QED BY ONLY <1>a, <2>1, <2>2, <3>1, <3>2, <3>3
  <2> QED
    BY <1>0, <2>1, <2>2, <2>3, ToolsKept
       DEF HarnessInv, HarnessTypeOK, Phases, ToolsInv, BudgetBoundsRun
<1>2. ASSUME OutOfTokens(n) \/ BadObject(n) \/ GoodObject(n) PROVE HarnessInv'
  <2>1. /\ UNCHANGED <<seen, calls, ran, wrote, budget>>
        /\ phase' \in {"coerce", "raised", "done"} /\ tried' \in Nat
        /\ asked' = asked + 1 /\ spent' = spent + n
    BY <1>0, <1>2 DEF OutOfTokens, BadObject, GoodObject, Ask, harnessRun
  <2>2. Rest
    <3>1. CASE OutOfTokens(n)
      <4>1. phase = "ask" /\ phase' = "raised"
        BY <3>1 DEF OutOfTokens
      <4>2. asked + 1 = budget.steps /\ budget.steps <= MaxSteps
        BY ONLY <1>0, <4>1 DEF AskedInv
      <4>3. spent = budget.tokens /\ spent <= TokenBudget + MaxUse
        BY ONLY <1>0, <4>1 DEF TokensInv
      <4>4. AskedInv' /\ TokensInv'
        BY ONLY <4>1 DEF AskedInv, TokensInv
      <4>5. asked' <= MaxSteps /\ spent' <= TokenBudget + 2 * MaxUse
        BY ONLY <1>a, <2>1, <4>2, <4>3
      <4>6. budget'.steps > 0
        BY ONLY <1>a, <2>1, <4>2
      <4>7. QED BY ONLY <4>4, <4>5, <4>6
    <3>2. CASE BadObject(n) \/ GoodObject(n)
      BY <1>0, <2>1, <3>2 DEF BadObject, GoodObject, AskedInv, TokensInv, BudgetBoundsRun, Budget
    <3> QED
      BY <1>2, <3>1, <3>2
  <2> QED
    BY <1>0, <2>1, <2>2, ToolsKept
       DEF HarnessInv, HarnessTypeOK, Phases, ToolsInv, BudgetBoundsRun
<1>3. ASSUME FinalAnswer(n) \/ \E s \in Answers : ToolAnswer(n, s) PROVE HarnessInv'
  <2>1. /\ phase = "ask" /\ AddTokens(n) /\ Kept /\ phase' \in {"done", "tools"}
        /\ asked' = asked + 1 /\ spent' = spent + n
    BY <1>3 DEF FinalAnswer, ToolAnswer, Ask, harnessRun
  <2>2. /\ budget' \in Budget /\ budget'.steps = budget.steps
        /\ budget'.toolCalls = budget.toolCalls /\ budget'.writes = budget.writes
        /\ budget'.tokens = budget.tokens + n
    BY <1>0, <2>1, TokensAdded
  <2>a. budget.tokens < TokenBudget
    BY <2>1 DEF AddTokens
  <2>3. Rest
    <3>1. asked + 1 = budget.steps /\ budget.steps <= MaxSteps
      BY ONLY <1>0, <2>1 DEF AskedInv
    <3>2. spent = budget.tokens /\ budget.tokens < TokenBudget
      BY ONLY <1>0, <2>1, <2>a DEF TokensInv
    <3>3. AskedInv' /\ TokensInv'
      <4>1. asked' = budget'.steps /\ asked' <= MaxSteps
        BY ONLY <1>a, <2>1, <2>2, <3>1
      <4>2. spent' = budget'.tokens /\ spent' <= TokenBudget + MaxUse
        BY ONLY <1>a, <2>1, <2>2, <3>2
      <4>3. phase' \notin {"ask", "coerce"}
        BY ONLY <2>1
      <4>4. QED BY ONLY <4>1, <4>2, <4>3 DEF AskedInv, TokensInv
    <3>4. asked' <= MaxSteps /\ spent' <= TokenBudget + 2 * MaxUse
      BY ONLY <1>a, <2>1, <3>1, <3>2
    <3>5. budget'.steps > 0
      BY ONLY <1>a, <2>2, <3>1
    <3>6. QED BY ONLY <3>3, <3>4, <3>5
  <2>4. calls' \in Seq(Calls) /\ (phase' = "tools" => calls' # <<>>)
    <3>1. CASE FinalAnswer(n)
      BY <1>0, <3>1 DEF FinalAnswer, harnessRun
    <3>2. CASE \E s \in Answers : ToolAnswer(n, s)
      <4>1. PICK s \in Answers : ToolAnswer(n, s)
        BY <3>2
      <4>2. s \in Seq(Calls)
        BY DEF Answers
      <4> QED
        BY <4>1, <4>2 DEF ToolAnswer
    <3> QED
      BY <1>3, <3>1, <3>2
  <2> QED
    BY <1>0, <2>1, <2>2, <2>3, <2>4, ToolsKept
       DEF HarnessInv, HarnessTypeOK, Phases, ToolsInv, BudgetBoundsRun
<1> QED
  BY <1>1, <1>2, <1>3

\* No answer, and the run is over.
LEMMA FailureKeeps == ASSUME HarnessInv, ProviderFails PROVE HarnessInv'
<1>0. /\ MaxSteps \in Nat /\ Retries \in Nat /\ MaxUse \in Nat /\ TokenBudget \in Nat
      /\ asked \in Nat /\ spent \in Nat /\ tried \in Nat /\ budget.steps \in Nat
      /\ AskedInv /\ BudgetBoundsRun
  BY HarnessAssumption DEF HarnessInv, HarnessTypeOK, Budget
<1>1. /\ phase' = "raised" /\ phase \in {"ask", "coerce"}
      /\ UNCHANGED <<budget, seen, calls, tried, ran, wrote>>
      /\ asked' = asked + 1 /\ spent' = spent
  BY <1>0 DEF ProviderFails, Ask, harnessRun
<1>2. HarnessTypeOK' /\ AskedInv' /\ TokensInv' /\ ToolsInv'
  BY <1>0, <1>1 DEF HarnessInv, HarnessTypeOK, Phases, AskedInv, TokensInv, ToolsInv
<1>3. asked' <= IF budget'.steps > 0 THEN MaxSteps ELSE Retries + 1
  BY <1>0, <1>1 DEF AskedInv
<1>4. BudgetBoundsRun'
  BY <1>0, <1>1, <1>3 DEF BudgetBoundsRun, Distinct
<1> QED
  BY <1>2, <1>4 DEF HarnessInv

\* The first of the calls is taken from them.
LEMMA CallsGoOn ==
    ASSUME HarnessInv, phase = "tools"
    PROVE  Head(calls) \in Calls /\ Tail(calls) \in Seq(Calls)
BY HeadTailProperties DEF HarnessInv, HarnessTypeOK, ToolsInv

\* A call is refused or run.
LEMMA CallsKeep ==
    ASSUME HarnessInv,
           RefuseCall \/ OverLimit \/ \E lost \in BOOLEAN : RunTool(lost)
    PROVE  HarnessInv'
<1> USE HarnessAssumption DEF HarnessInv, HarnessTypeOK, Phases
<1>0. phase = "tools" /\ UNCHANGED <<tried, asked, spent>> /\ budget \in Budget
  BY DEF RefuseCall, OverLimit, RunTool
<1>1. Head(calls) \in Calls /\ Tail(calls) \in Seq(Calls)
  BY <1>0, CallsGoOn
<1>2. /\ phase' \in {"step", "tools", "raised"} /\ calls' \in Seq(Calls)
      /\ phase' = "tools" => calls' # <<>>
  <2>1. CASE RefuseCall \/ OverLimit \/ NextCall
    BY <1>1, <2>1 DEF RefuseCall, OverLimit, NextCall
  <2>2. ASSUME NEW lost \in BOOLEAN, RunTool(lost)
        PROVE  NextCall \/ (phase' = "raised" /\ calls' = <<>>)
    BY <2>2 DEF RunTool
  <2>3. CASE phase' = "raised" /\ calls' = <<>>
    BY <2>3
  <2> QED
    BY <2>1, <2>2, <2>3
<1>3. ASSUME budget' \in Budget, budget'.steps = budget.steps, budget'.tokens = budget.tokens
      PROVE  /\ AskedInv' /\ TokensInv'
             /\ asked' <= IF budget'.steps > 0 THEN MaxSteps ELSE Retries + 1
             /\ budget'.steps > 0 => spent' <= TokenBudget + 2 * MaxUse
  BY <1>0, <1>2, <1>3 DEF AskedInv, TokensInv, BudgetBoundsRun
<1>4. CASE RefuseCall
  <2>1. UNCHANGED <<budget, seen, ran, wrote>>
    BY <1>4 DEF RefuseCall
  <2> QED
    BY <1>0, <1>2, <1>3, <2>1, ToolsKept DEF ToolsInv, BudgetBoundsRun
<1>5. CASE OverLimit
  <2>1. seen' = seen \cup {Head(calls)} /\ UNCHANGED <<ran, wrote>> /\ Charge(Head(calls))
    BY <1>5 DEF OverLimit
  <2>2. /\ budget' \in Budget
        /\ budget'.steps = budget.steps /\ budget'.tokens = budget.tokens
        /\ budget.toolCalls <= budget'.toolCalls /\ budget.writes <= budget'.writes
    <3>1. /\ budget' \in Budget /\ budget'.toolCalls = budget.toolCalls + 1
          /\ budget'.steps = budget.steps /\ budget'.tokens = budget.tokens
          /\ budget'.writes \in {budget.writes, budget.writes + 1}
      BY <1>0, <2>1, Charged
    <3>2. budget.toolCalls \in Nat /\ budget.writes \in Nat
      BY <1>0 DEF Budget
    <3>3. QED BY ONLY <3>1, <3>2
  <2>3. /\ Len(ran') <= budget'.toolCalls /\ Len(wrote') <= budget'.writes
        /\ \A i \in 1..Len(ran') : ran'[i] \in seen'
    <3> Len(ran) \in Nat /\ Len(wrote) \in Nat
      OBVIOUS
    <3> QED
      BY <1>0, <2>1, <2>2 DEF ToolsInv, Budget
  <2>4. Len(ran') <= MaxToolCalls /\ Distinct(ran') /\ Len(wrote') <= MaxWrites
    BY <2>1 DEF BudgetBoundsRun, Distinct
  <2> QED
    BY <1>0, <1>1, <1>2, <1>3, <2>1, <2>2, <2>3, <2>4 DEF ToolsInv, BudgetBoundsRun
<1>6. ASSUME NEW lost \in BOOLEAN, RunTool(lost) PROVE HarnessInv'
  <2> DEFINE c == Head(calls)
  <2>1. /\ c \in Calls /\ c \notin seen /\ Affords(c) /\ Charge(c)
        /\ seen' = seen \cup {c} /\ ran' = Append(ran, c)
        /\ wrote' = IF c \in Writing THEN Append(wrote, c) ELSE wrote
    BY <1>1, <1>6 DEF RunTool, IsNew
  <2> HIDE DEF c
  <2>2. /\ budget' \in Budget
        /\ budget'.steps = budget.steps /\ budget'.tokens = budget.tokens
        /\ budget'.toolCalls = budget.toolCalls + 1
        /\ budget'.writes = IF c \in Writing THEN budget.writes + 1 ELSE budget.writes
    BY <2>1, Charged DEF Affords
  <2>3. ran' \in Seq(Calls) /\ Len(ran') = Len(ran) + 1 /\ Len(ran) \in Nat
        /\ (\A i \in 1..Len(ran) : ran'[i] = ran[i]) /\ ran'[Len(ran) + 1] = c
    BY <2>1
  <2>4. wrote' \in Seq(Calls) /\ Len(wrote) \in Nat
        /\ Len(wrote') = IF c \in Writing THEN Len(wrote) + 1 ELSE Len(wrote)
    BY <2>1
  <2>5. /\ Len(ran') <= budget'.toolCalls /\ Len(wrote') <= budget'.writes
        /\ Len(ran') <= MaxToolCalls /\ Len(wrote') <= MaxWrites
    <3>1. /\ Len(ran) <= budget.toolCalls /\ Len(wrote) <= budget.writes
          /\ Len(wrote) <= MaxWrites
          /\ budget.toolCalls \in Nat /\ budget.writes \in Nat
          /\ MaxToolCalls \in Nat /\ MaxWrites \in Nat
      BY <1>0 DEF ToolsInv, BudgetBoundsRun, Budget
    <3>2. budget.toolCalls < MaxToolCalls /\ (c \in Writing => budget.writes < MaxWrites)
      BY <2>1 DEF Affords
    <3>3. Len(ran') <= budget'.toolCalls /\ Len(ran') <= MaxToolCalls
      BY <2>2, <2>3, <3>1, <3>2
    <3>4. CASE c \in Writing
      <4>1. Len(wrote') = Len(wrote) + 1 /\ budget'.writes = budget.writes + 1
        BY <2>2, <2>4, <3>4
      <4> QED
        BY <2>4, <3>1, <3>2, <3>3, <3>4, <4>1
    <3>5. CASE c \notin Writing
      <4>1. Len(wrote') = Len(wrote) /\ budget'.writes = budget.writes
        BY <2>2, <2>4, <3>5
      <4> QED
        BY <3>1, <3>3, <4>1
    <3> QED
      BY <3>4, <3>5
  <2>6. \A i \in 1..Len(ran') : ran'[i] \in seen'
    BY <2>1, <2>3 DEF ToolsInv
  <2>7. Distinct(ran')
    BY <2>1, <2>3 DEF ToolsInv, BudgetBoundsRun, Distinct
  <2> QED
    BY <1>0, <1>2, <1>3, <2>1, <2>2, <2>3, <2>4, <2>5, <2>6, <2>7 DEF ToolsInv, BudgetBoundsRun
<1> QED
  BY <1>4, <1>5, <1>6

\* Every step keeps the invariant.
LEMMA HarnessKeeps == HarnessInv /\ [HarnessNext]_harnessVars => HarnessInv'
<1> SUFFICES ASSUME HarnessInv, [HarnessNext]_harnessVars PROVE HarnessInv'
  OBVIOUS
<1>1. CASE TakeStep
  BY <1>1, AnswersKeep, HarnessAssumption
<1>2. ASSUME NEW n \in 0..MaxUse,
             \/ OutOfTokens(n) \/ FinalAnswer(n) \/ BadObject(n) \/ GoodObject(n)
             \/ \E s \in Answers : ToolAnswer(n, s)
      PROVE  HarnessInv'
  BY <1>2, AnswersKeep
<1>3. CASE RefuseCall \/ OverLimit \/ \E lost \in BOOLEAN : RunTool(lost)
  BY <1>3, CallsKeep
<1>4. CASE ProviderFails
  BY <1>4, FailureKeeps
<1>5. CASE UNCHANGED harnessVars
  BY <1>5 DEF harnessVars, HarnessInv, HarnessTypeOK, AskedInv, TokensInv, ToolsInv,
              BudgetBoundsRun, Distinct
<1> QED
  BY <1>1, <1>2, <1>3, <1>4, <1>5 DEF HarnessNext

\* The run of the agent loop keeps its types, the budget and the lists of calls among
\* them, for every budget.
THEOREM HarnessTyped == HarnessSpec => []HarnessTypeOK
<1>1. HarnessInv => HarnessTypeOK
  BY DEF HarnessInv
<1> QED
  BY <1>1, HarnessStarts, HarnessKeeps, PTL DEF HarnessSpec

\* run_loop, coerce_structured: whatever the model answers, its calls, the tools run
\* and the writes stay within the configuration, no call is run twice, and the tokens
\* are over the budget by no more than two answers.
THEOREM BudgetBounds == HarnessSpec => []BudgetBoundsRun
<1>1. HarnessInv => BudgetBoundsRun
  BY DEF HarnessInv
<1> QED
  BY <1>1, HarnessStarts, HarnessKeeps, PTL DEF HarnessSpec

-----------------------------------------------------------------------------
\* What may come after a phase within the same step of the loop, the same pass.
Following ==
    [step |-> {}, ask |-> {"tools", "done", "raised"}, tools |-> {"step", "raised"},
     coerce |-> {"done", "raised"}, done |-> {}, raised |-> {}]

\* A step of a run comes closer to its end: it counts a step of the loop or a pass of
\* coerce_structured, each no further than to one above its limit; or it goes on to a
\* following phase, or leaves fewer calls to execute.
ComesCloser ==
    \/ budget.steps < budget'.steps /\ budget'.steps <= MaxSteps + 1
    \/ /\ budget'.steps = budget.steps
       /\ \/ tried < tried' /\ tried' <= Retries + 1
          \/ /\ tried' = tried
             /\ \/ phase' \in Following[phase]
                \/ phase' = phase /\ Len(calls') < Len(calls)

LEMMA RunComesCloser == HarnessInv /\ HarnessNext => ComesCloser
<1> SUFFICES ASSUME HarnessInv, HarnessNext PROVE ComesCloser
  OBVIOUS
<1>0. /\ HarnessTypeOK /\ AskedInv /\ ToolsInv /\ budget \in Budget
      /\ MaxSteps \in Nat /\ Retries \in Nat /\ MaxUse \in Nat
      /\ budget.steps \in Nat /\ tried \in Nat
  BY HarnessAssumption DEF HarnessInv, HarnessTypeOK, Budget
<1>1. CASE TakeStep
  <2>1. phase = "step" /\ budget'.steps = budget.steps + 1
    BY <1>0, <1>1, Stepped DEF TakeStep
  <2>2. budget.steps <= MaxSteps
    BY <1>0, <2>1 DEF AskedInv
  <2>3. budget.steps < budget'.steps /\ budget'.steps <= MaxSteps + 1
    BY ONLY <1>0, <2>1, <2>2
  <2> QED
    BY <2>3 DEF ComesCloser
<1>2. ASSUME NEW n \in 0..MaxUse, FinalAnswer(n) \/ \E s \in Answers : ToolAnswer(n, s)
      PROVE  ComesCloser
  <2>1. n \in Nat /\ AddTokens(n)
    BY <1>0, <1>2 DEF FinalAnswer, ToolAnswer
  <2>2. budget'.steps = budget.steps
    BY <1>0, <2>1, TokensAdded
  <2>3. phase = "ask" /\ phase' \in {"tools", "done"} /\ tried' = tried
    BY <1>2 DEF FinalAnswer, ToolAnswer, harnessRun
  <2> QED
    BY <2>2, <2>3 DEF ComesCloser, Following
<1>3. ASSUME NEW n \in 0..MaxUse, BadObject(n)
      PROVE  ComesCloser
  <2>1. tried' = tried + 1 /\ budget' = budget /\ tried <= Retries
    BY <1>0, <1>3 DEF BadObject, AskedInv
  <2>2. budget'.steps = budget.steps
    BY ONLY <2>1
  <2>3. tried < tried' /\ tried' <= Retries + 1
    BY ONLY <1>0, <2>1
  <2> QED
    BY <2>2, <2>3 DEF ComesCloser
<1>4. ASSUME NEW n \in 0..MaxUse, OutOfTokens(n) \/ GoodObject(n) \/ ProviderFails
      PROVE  ComesCloser
  <2>1. /\ budget' = budget /\ tried' = tried
        /\ phase \in {"ask", "coerce"} /\ phase' \in {"done", "raised"}
    BY <1>4 DEF OutOfTokens, GoodObject, ProviderFails
  <2>2. budget'.steps = budget.steps
    BY ONLY <2>1
  <2> QED
    BY <2>1, <2>2 DEF ComesCloser, Following
<1>5. CASE RefuseCall \/ OverLimit \/ \E lost \in BOOLEAN : RunTool(lost)
  <2>1. phase = "tools" /\ calls # <<>> /\ calls \in Seq(Calls)
    BY <1>0, <1>5 DEF RefuseCall, OverLimit, RunTool, HarnessTypeOK, ToolsInv
  <2>2. tried' = tried /\ budget'.steps = budget.steps
    BY <1>0, <1>5, Charged DEF RefuseCall, OverLimit, RunTool
  <2>3. NextCall \/ phase' = "raised"
    BY <1>5 DEF RefuseCall, OverLimit, RunTool
  <2>4. CASE phase' = "raised"
    BY <2>1, <2>2, <2>4 DEF ComesCloser, Following
  <2>5. CASE NextCall
    <3>1. Len(Tail(calls)) < Len(calls)
      BY <2>1
    <3>2. \/ phase' = "step"
          \/ phase' = phase /\ Len(calls') < Len(calls)
      BY <2>1, <2>5, <3>1 DEF NextCall
    <3> QED
      BY <2>1, <2>2, <3>2 DEF ComesCloser, Following
  <2> QED
    BY <2>3, <2>4, <2>5
<1>6. 0 \in 0..MaxUse
  BY <1>0
<1> QED
  BY <1>1, <1>2, <1>3, <1>4, <1>5, <1>6 DEF HarnessNext

\* run_loop, coerce_structured: whatever the model answers, each step leaves a run less
\* to do, by an order that has no endless descent: it cannot go round for ever, for
\* every budget and every number of retries.
THEOREM RunsGetShorter == HarnessSpec => [][ComesCloser]_harnessVars
<1>1. HarnessInv /\ [HarnessNext]_harnessVars => [ComesCloser]_harnessVars
  BY RunComesCloser
<1> QED
  BY <1>1, HarnessStarts, HarnessKeeps, PTL DEF HarnessSpec
=============================================================================
