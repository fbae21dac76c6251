----------------------------- MODULE ViewProofs -----------------------------
(***************************************************************************)
(* Theorems about Progress and Graph: what a reader is shown of a job and  *)
(* of the links, for any number of streams, a log of any length, and any   *)
(* articles and links.                                                     *)
(*                                                                         *)
(* Progress: the task publishes an entry after it has committed it and     *)
(* before it commits the next (TaskInv), so what a stream has received     *)
(* since it subscribed is in order, up to an end, and later than what it   *)
(* replayed, and a stream sends nothing on after an end (OrderInv); and    *)
(* what is neither shown nor queued was published between the read of the  *)
(* row and the subscription, or not published (MissInv).                   *)
(*                                                                         *)
(* Graph: the rounds of build_subgraph visit exactly what walks of as many *)
(* links reach, and all neighbours of what is no longer in the frontier    *)
(* (SearchInv); so where the frontier is empty no walk of any length       *)
(* leaves what is visited, as the first article outside would be a         *)
(* neighbour of one inside (WalkStays). attach places an article only      *)
(* below one that was placed before, and returns when all children are     *)
(* placed (PlaceInv); so between two calls from the top the placed         *)
(* articles have no child outside, and no root is above a child that is    *)
(* put at the top (TopInv).                                                *)
(***************************************************************************)
EXTENDS Progress, Graph, SequenceTheorems, WellFoundedInduction, TLAPS

(* Progress *)

\* What a stream has received, sent on or not.
Sent(q) == q.heard \o q.queue

\* A stream of a job whose task has still to publish pub, and whose last event is e.
OrderOK(q, n, e, pub) ==
    /\ q.step \in {"new", "row"} => q.heard = <<>> /\ q.queue = <<>>
    /\ q.replay <= n
    /\ \A i, j \in DOMAIN Sent(q) : i < j => Sent(q)[i] = End \/ Sent(q)[i] < Sent(q)[j]
    /\ \A i \in DOMAIN Sent(q) :
        /\ Sent(q)[i] >= q.replay
        /\ Sent(q)[i] = End \/ (Sent(q)[i] <= n /\ (pub => Sent(q)[i] # e))
    /\ \A i \in DOMAIN q.heard : q.heard[i] = End => q.step = "closed" /\ i = Len(q.heard)

\* The task publishes entries in the order of the log, and the end of a run last.
TaskInv ==
    /\ task = "work" => event = log
    /\ task = "publish" => event \in {log, End} /\ event # 0

OrderInv == \A s \in Streams : OrderOK(stream[s], log, event, task = "publish")

\* What a stream that has read its row, on the channel or not yet, has shown or will.
MissInv == \A s \in Watching :
    /\ 1..log \subseteq Shown(s) \cup untold[s] \cup silent
    /\ ended => End \in Shown(s) \cup untold[s]

ProgressInv == ProgressTypeOK /\ TaskInv /\ OrderInv /\ MissInv

-----------------------------------------------------------------------------
\* A stream that is told of an event, and one that sends it on.
LEMMA SentMore ==
    ASSUME NEW h \in Seq(Event), NEW q \in Seq(Event), NEW e \in Event
    PROVE  /\ h \o Append(q, e) = Append(h \o q, e)
           /\ h \o q \in Seq(Event)
           /\ Append(h \o q, e) \in Seq(Event)
  OBVIOUS

\* Sending on moves the first of the queue to what was heard.
LEMMA SentOn ==
    ASSUME NEW h \in Seq(Event), NEW q \in Seq(Event), q # <<>>
    PROVE  /\ Append(h, Head(q)) \o Tail(q) = h \o q
           /\ Append(h, Head(q)) \in Seq(Event) /\ Tail(q) \in Seq(Event)
           /\ Head(q) \in Event
           /\ \A n \in Event : (\E i \in DOMAIN q : q[i] = n)
                => n = Head(q) \/ \E i \in DOMAIN Tail(q) : Tail(q)[i] = n
<1>1. /\ Head(q) \in Event /\ Tail(q) \in Seq(Event) /\ Append(h, Head(q)) \in Seq(Event)
      /\ Len(q) \in Nat \ {0} /\ Len(Tail(q)) = Len(q) - 1
  OBVIOUS
<1>2. Append(h, Head(q)) \o Tail(q) = h \o q
  BY <1>1
<1>3. ASSUME NEW n \in Event, NEW i \in DOMAIN q, q[i] = n, n # Head(q)
      PROVE  \E j \in DOMAIN Tail(q) : Tail(q)[j] = n
  <2>1. i \in 1..Len(q) /\ i # 1
    BY <1>3
  <2>2. i - 1 \in DOMAIN Tail(q) /\ Tail(q)[i - 1] = n
    BY <1>1, <1>3, <2>1
  <2>3. QED BY <2>2
<1>4. QED BY <1>1, <1>2, <1>3

\* An event later than all before keeps a stream in order.
LEMMA OrderOfAppend ==
    ASSUME NEW q \in Stream, NEW n \in 0..MaxEntries, NEW e \in Event,
           OrderOK(q, n, e, TRUE), e \in {n, End}, q.step = "live"
    PROVE  OrderOK([q EXCEPT !.queue = Append(@, e)], n, e, FALSE)
<1> DEFINE q2 == [q EXCEPT !.queue = Append(@, e)]
<1>1. /\ q2.step = "live" /\ q2.replay = q.replay /\ q.replay \in 0..MaxEntries
      /\ q2.heard = q.heard /\ q2.queue = Append(q.queue, e)
      /\ q.heard \in Seq(Event) /\ q.queue \in Seq(Event)
  BY DEF Stream
<1> HIDE DEF q2
<1>2. Sent(q2) = Append(Sent(q), e) /\ Sent(q) \in Seq(Event)
  <2>1. /\ q.heard \o Append(q.queue, e) = Append(q.heard \o q.queue, e)
        /\ q.heard \o q.queue \in Seq(Event)
    BY <1>1, SentMore
  <2>2. QED BY <1>1, <2>1, Zenon DEF Sent
<1>3. /\ q.replay <= n /\ e >= n /\ q.replay <= e /\ e \in Nat /\ n \in Nat
      /\ Event \subseteq Nat /\ End \in Nat
  BY <1>1, ProgressAssumption DEF OrderOK, Event, End
<1>4. ASSUME NEW z \in Seq(Event),
             \A i, j \in DOMAIN z : i < j => z[i] = End \/ z[i] < z[j],
             \A i \in DOMAIN z : z[i] >= q.replay /\ (z[i] = End \/ (z[i] <= n /\ z[i] # e))
      PROVE  /\ \A i, j \in DOMAIN Append(z, e) :
                    i < j => Append(z, e)[i] = End \/ Append(z, e)[i] < Append(z, e)[j]
             /\ \A i \in DOMAIN Append(z, e) :
                    Append(z, e)[i] >= q.replay /\ (Append(z, e)[i] = End \/ Append(z, e)[i] <= n)
  <2>1. /\ DOMAIN z = 1..Len(z) /\ Len(z) \in Nat
        /\ DOMAIN Append(z, e) = 1..(Len(z) + 1)
        /\ \A i \in 1..Len(z) : Append(z, e)[i] = z[i]
        /\ Append(z, e)[Len(z) + 1] = e
    OBVIOUS
  <2>5. \A i \in DOMAIN z : z[i] \in Nat
    BY <1>3, <2>1, ElementOfSeq
  <2>2. \A i \in DOMAIN z : z[i] = End \/ z[i] < e
    BY <1>3, <1>4, <2>5
  <2>3. ASSUME NEW i \in DOMAIN Append(z, e), NEW j \in DOMAIN Append(z, e), i < j
        PROVE  Append(z, e)[i] = End \/ Append(z, e)[i] < Append(z, e)[j]
    BY <1>4, <2>1, <2>2, <2>3
  <2>4. QED BY <1>3, <1>4, <2>1, <2>3
<1>5. /\ \A i, j \in DOMAIN Sent(q) : i < j => Sent(q)[i] = End \/ Sent(q)[i] < Sent(q)[j]
      /\ \A i \in DOMAIN Sent(q) : /\ Sent(q)[i] >= q.replay
                                   /\ Sent(q)[i] = End \/ (Sent(q)[i] <= n /\ Sent(q)[i] # e)
      /\ \A i \in DOMAIN q.heard : q.heard[i] = End => q.step = "closed" /\ i = Len(q.heard)
  BY DEF OrderOK
<1>6. /\ \A i, j \in DOMAIN Sent(q2) : i < j => Sent(q2)[i] = End \/ Sent(q2)[i] < Sent(q2)[j]
      /\ \A i \in DOMAIN Sent(q2) : /\ Sent(q2)[i] >= q2.replay
                                    /\ Sent(q2)[i] = End \/ Sent(q2)[i] <= n
  BY <1>1, <1>2, <1>4, <1>5
<1>7. OrderOK(q2, n, e, FALSE)
  BY <1>1, <1>3, <1>5, <1>6 DEF OrderOK
<1>8. QED BY <1>7 DEF q2

\* What a stream has heard is the beginning of what it has received.
LEMMA HeardFirst ==
    ASSUME NEW h \in Seq(Event), NEW z \in Seq(Event)
    PROVE  /\ h \o <<>> = h /\ DOMAIN h \subseteq DOMAIN (h \o z)
           /\ \A i \in DOMAIN h : h[i] = (h \o z)[i]
  OBVIOUS

\* A stream that has sent nothing is in order.
LEMMA NothingSent ==
    ASSUME NEW q, q.heard = <<>>, q.queue = <<>>, NEW n, q.replay <= n, NEW e, NEW pub \in BOOLEAN
    PROVE  OrderOK(q, n, e, pub)
<1>1. <<>> \in Seq(Event) /\ <<>> \o <<>> = <<>>
  BY EmptySeq, ConcatEmptySeq
<1>2. Sent(q) = <<>> /\ DOMAIN <<>> = {}
  BY <1>1 DEF Sent
<1>3. QED BY <1>2 DEF OrderOK

\* A stream whose queue grows by an event.
LEMMA QueueGrows ==
    ASSUME NEW q \in Stream, NEW e \in Event
    PROVE  /\ [q EXCEPT !.queue = Append(@, e)] \in Stream
           /\ [q EXCEPT !.queue = Append(@, e)].replay = q.replay
           /\ [q EXCEPT !.queue = Append(@, e)].heard = q.heard
           /\ [q EXCEPT !.queue = Append(@, e)].queue = Append(q.queue, e)
           /\ [q EXCEPT !.queue = Append(@, e)].step = q.step
           /\ q.queue \in Seq(Event) /\ q.heard \in Seq(Event)
<1>1. q.queue \in Seq(Event) /\ q.heard \in Seq(Event) /\ Append(q.queue, e) \in Seq(Event)
  BY DEF Stream
<1>2. QED BY <1>1 DEF Stream

-----------------------------------------------------------------------------
\* An event is published and Redis delivers it.
LEMMA DeliverKeeps ==
    ASSUME ProgressInv, task = "publish", Deliver(event), task' \in {"work", "over"},
           task' = "work" => event # End, UNCHANGED <<lint, runs, log, silent, ended, event>>
    PROVE  ProgressInv'
<1> USE DEF ProgressInv
<1>1. /\ event \in Event /\ event \in Nat /\ log \in Nat /\ event \in {log, End} /\ log \in 0..MaxEntries
      /\ End \in Event /\ Event \subseteq Nat
  BY ProgressAssumption DEF TaskInv, ProgressTypeOK, Event, End
<1>2. ASSUME NEW s \in Streams
      PROVE  /\ stream[s] \in Stream /\ untold[s] \in SUBSET Event
             /\ stream[s].step = "live" => /\ stream'[s] = [stream[s] EXCEPT !.queue = Append(@, event)]
                                           /\ untold'[s] = untold[s]
             /\ stream[s].step # "live" => stream'[s] = stream[s]
             /\ stream[s].step = "row" => untold'[s] = untold[s] \cup {event}
             /\ stream[s].step # "row" => untold'[s] = untold[s]
  BY DEF Deliver, ProgressTypeOK
<1>4. ProgressTypeOK'
  <2>1. stream' \in [Streams -> Stream]
    BY <1>1, <1>2, QueueGrows DEF Deliver
  <2>2. untold' \in [Streams -> SUBSET Event]
    BY <1>1, <1>2 DEF Deliver
  <2>3. QED BY <2>1, <2>2 DEF ProgressTypeOK, TaskStates
<1>5. TaskInv'
  BY <1>1 DEF TaskInv
<1>6. OrderInv'
  <2>1. SUFFICES ASSUME NEW s \in Streams
                 PROVE  OrderOK(stream'[s], log, event, FALSE)
    BY DEF OrderInv
  <2>2. OrderOK(stream[s], log, event, TRUE) /\ stream[s] \in Stream
    BY <1>2 DEF OrderInv
  <2>3. CASE stream[s].step = "live"
    <3>1. OrderOK([stream[s] EXCEPT !.queue = Append(@, event)], log, event, FALSE)
      BY <1>1, <2>2, <2>3, OrderOfAppend
    <3>2. QED BY <1>2, <2>3, <3>1
  <2>4. CASE stream[s].step # "live"
    <3>1. stream'[s] = stream[s]
      BY <1>2, <2>4
    <3>2. QED BY <2>2, <3>1 DEF OrderOK
  <2>5. QED BY <2>3, <2>4
<1>7. MissInv'
  <2>1. SUFFICES ASSUME NEW s \in Watching'
                 PROVE  /\ 1..log \subseteq Shown(s)' \cup untold'[s] \cup silent
                        /\ ended => End \in Shown(s)' \cup untold'[s]
    BY DEF MissInv
  <2>2. s \in Streams /\ s \in Watching
    BY <1>1, <1>2, QueueGrows DEF Watching
  <2>3. /\ 1..log \subseteq Shown(s) \cup untold[s] \cup silent
        /\ ended => End \in Shown(s) \cup untold[s]
    BY <2>2 DEF MissInv
  <2>4. Shown(s) \cup untold[s] \subseteq Shown(s)' \cup untold'[s]
    <3>1. CASE stream[s].step = "live"
      <4>1. /\ stream'[s].replay = stream[s].replay /\ stream'[s].heard = stream[s].heard
            /\ stream'[s].queue = Append(stream[s].queue, event) /\ stream[s].queue \in Seq(Event)
            /\ untold'[s] = untold[s]
        <5>1. /\ stream[s] \in Stream /\ untold'[s] = untold[s]
              /\ stream'[s] = [stream[s] EXCEPT !.queue = Append(@, event)]
          BY <1>2, <2>2, <3>1
        <5>2. ASSUME NEW q \in Stream, stream'[s] = [q EXCEPT !.queue = Append(@, event)]
              PROVE  /\ stream'[s].replay = q.replay /\ stream'[s].heard = q.heard
                     /\ stream'[s].queue = Append(q.queue, event) /\ q.queue \in Seq(Event)
          BY <1>1, <5>2, QueueGrows
        <5>3. QED BY ONLY <5>1, <5>2
      <4>2. {stream[s].queue[i] : i \in DOMAIN stream[s].queue} \cup {event}
                \subseteq {stream'[s].queue[i] : i \in DOMAIN stream'[s].queue}
        <5>1. ASSUME NEW z \in Seq(Event)
              PROVE  {z[i] : i \in DOMAIN z} \cup {event}
                        \subseteq {Append(z, event)[i] : i \in DOMAIN Append(z, event)}
          <6>1. /\ DOMAIN z = 1..Len(z) /\ Len(z) \in Nat
                /\ DOMAIN Append(z, event) = 1..(Len(z) + 1)
                /\ \A i \in 1..Len(z) : Append(z, event)[i] = z[i]
                /\ Append(z, event)[Len(z) + 1] = event
            BY <1>1
          <6>2. QED BY <6>1
        <5>2. {stream[s].queue[i] : i \in DOMAIN stream[s].queue} \cup {event}
                  \subseteq {Append(stream[s].queue, event)[i] :
                                i \in DOMAIN Append(stream[s].queue, event)}
          BY <4>1, <5>1
        <5>3. QED BY <4>1, <5>2
      <4>3. QED BY <4>1, <4>2 DEF Shown
    <3>2. CASE stream[s].step = "row"
      <4>1. stream'[s] = stream[s] /\ untold'[s] = untold[s] \cup {event}
        BY <1>2, <2>2, <3>2
      <4>2. QED BY <4>1 DEF Shown
    <3>3. QED BY <2>2, <3>1, <3>2 DEF Watching
  <2>5. QED BY <2>3, <2>4
<1>8. QED BY <1>4, <1>5, <1>6, <1>7

\* The event is told to nobody, or there is none; the task goes on or is gone.
LEMMA TellNobodyKeeps ==
    ASSUME ProgressInv, task = "publish", TellNobody(event), task' \in {"work", "over", "dead"},
           task' = "work" => event # End, UNCHANGED <<lint, runs, log, silent, ended, event>>
    PROVE  ProgressInv'
<1> USE DEF ProgressInv
<1>1. event \in Event /\ UNCHANGED stream
  BY DEF TaskInv, ProgressTypeOK, TellNobody
<1>2. ProgressTypeOK' /\ TaskInv'
  BY <1>1 DEF ProgressTypeOK, TaskStates, TaskInv, TellNobody
<1>3. OrderInv'
  BY <1>1 DEF OrderInv, OrderOK, Sent
<1>4. MissInv'
  <2>1. SUFFICES ASSUME NEW s \in Watching'
                 PROVE  /\ 1..log \subseteq Shown(s)' \cup untold'[s] \cup silent
                        /\ ended => End \in Shown(s)' \cup untold'[s]
    BY DEF MissInv
  <2>2. s \in Watching /\ s \in Streams /\ untold'[s] = untold[s] \cup {event}
    BY <1>1 DEF Watching, TellNobody
  <2>3. Shown(s) \cup untold[s] \subseteq Shown(s)' \cup untold'[s]
    BY <1>1, <2>2 DEF Shown
  <2>4. QED BY <2>2, <2>3 DEF MissInv
<1>5. QED BY <1>2, <1>3, <1>4

-----------------------------------------------------------------------------
\* At first nothing is logged and no stream has been opened.
LEMMA ProgressInitOK == ProgressInit => ProgressInv
<1> SUFFICES ASSUME ProgressInit PROVE ProgressInv
  OBVIOUS
<1>1. ASSUME NEW s \in Streams
      PROVE  /\ stream[s].step = "new" /\ stream[s].replay = 0
             /\ stream[s].heard = <<>> /\ stream[s].queue = <<>>
             /\ stream[s] \in Stream
  <2>1. <<>> \in Seq(Event)
    BY EmptySeq
  <2>2. QED BY <2>1, ProgressAssumption DEF ProgressInit, Stream
<1>2. ProgressTypeOK
  <2>1. stream = [s \in Streams |-> stream[s]] /\ untold \in [Streams -> SUBSET Event]
    BY DEF ProgressInit
  <2>2. stream \in [Streams -> Stream]
    BY <1>1, <2>1
  <2>3. log = 0 /\ event = 0 /\ ended \in BOOLEAN /\ task \in TaskStates
    BY Zenon DEF ProgressInit, TaskStates
  <2>4. /\ log \in 0..MaxEntries /\ event \in Event \cup {0} /\ lint \in BOOLEAN
        /\ runs \in 0..MaxRuns /\ silent \in SUBSET (1..MaxEntries)
    BY <2>3, ProgressAssumption DEF ProgressInit
  <2>5. QED BY <2>1, <2>2, <2>3, <2>4, Zenon DEF ProgressTypeOK
<1>3. TaskInv /\ MissInv
  BY <1>1 DEF ProgressInit, TaskInv, MissInv, Watching
<1>4. OrderInv
  <2>1. ASSUME NEW s \in Streams
        PROVE  OrderOK(stream[s], log, event, task = "publish")
    <3>1. (task = "publish") \in BOOLEAN /\ stream[s].replay <= log
      BY <1>1 DEF ProgressInit
    <3>2. QED BY <1>1, <3>1, NothingSent
  <2>2. QED BY <2>1 DEF OrderInv
<1>5. QED BY <1>2, <1>3, <1>4 DEF ProgressInv

\* The task commits an entry, or its end.
LEMMA CommitKeepsStreams ==
    ASSUME ProgressInv, CommitEntry \/ CommitEnd
    PROVE  ProgressInv'
<1> USE DEF ProgressInv
<1>1. /\ log \in Nat /\ event = log /\ log \in 0..MaxEntries /\ task = "work" /\ task' = "publish"
      /\ End \in Event /\ Event \subseteq Nat /\ 0..MaxEntries \subseteq Nat /\ End = MaxEntries + 1
      /\ MaxEntries \in Nat
  BY ProgressAssumption DEF CommitEntry, CommitEnd, TaskInv, ProgressTypeOK, Event, End
<1>2. /\ log' \in 0..MaxEntries /\ log <= log' /\ UNCHANGED <<lint, runs, stream, untold>>
      /\ \/ event' = log' /\ log' = log + 1 /\ ended' = ended /\ silent' = silent
         \/ event' = End /\ ended' = TRUE /\ silent' = silent \cup ((log + 1)..log')
      /\ event' \in Event /\ event' > log
  <2>1. CASE CommitEntry
    BY <1>1, <2>1 DEF CommitEntry, Event
  <2>2. CASE CommitEnd
    <3>1. PICK n \in {0, EndEntries} : /\ log + n <= MaxEntries /\ log' = log + n
                                       /\ silent' = silent \cup ((log + 1)..(log + n))
      BY <2>2 DEF CommitEnd
    <3>2. n \in Nat
      BY <3>1 DEF EndEntries
    <3>3. QED BY <1>1, <2>2, <3>1, <3>2 DEF CommitEnd
  <2>3. QED BY <2>1, <2>2
<1>3. ProgressTypeOK'
  <2>1. (log + 1)..log' \subseteq 1..MaxEntries
    BY <1>1, <1>2
  <2>2. silent' \in SUBSET (1..MaxEntries)
    BY <1>2, <2>1 DEF ProgressTypeOK
  <2>3. ended' \in BOOLEAN
    BY <1>2 DEF ProgressTypeOK
  <2>4. QED BY <1>1, <1>2, <2>2, <2>3 DEF ProgressTypeOK, TaskStates
<1>4. TaskInv'
  BY <1>1, <1>2 DEF TaskInv
<1>5. OrderInv'
  <2>1. SUFFICES ASSUME NEW s \in Streams
                 PROVE  OrderOK(stream[s], log', event', TRUE)
    BY <1>1, <1>2 DEF OrderInv
  <2>2. OrderOK(stream[s], log, event, FALSE) /\ stream[s] \in Stream
    BY <1>1 DEF OrderInv, ProgressTypeOK
  <2>3. /\ stream[s].replay \in Nat /\ Sent(stream[s]) \in Seq(Event)
    BY <2>2, SentMore DEF Stream, Sent
  <2>4. \A i \in DOMAIN Sent(stream[s]) : Sent(stream[s])[i] \in Nat
    <3>1. ASSUME NEW z \in Seq(Event) PROVE \A i \in DOMAIN z : z[i] \in Nat
      <4>1. DOMAIN z = 1..Len(z) /\ \A i \in 1..Len(z) : z[i] \in Event
        OBVIOUS
      <4>2. QED BY <1>1, <4>1
    <3>2. QED BY <2>3, <3>1
  <2>5. QED BY <1>1, <1>2, <2>2, <2>3, <2>4 DEF OrderOK
<1>6. MissInv'
  <2>1. SUFFICES ASSUME NEW s \in Watching
                 PROVE  /\ 1..log' \subseteq Shown(s)' \cup untold[s] \cup silent'
                        /\ ended' => End \in Shown(s)' \cup untold[s]
    BY <1>2 DEF MissInv, Watching
  <2>2. Shown(s) \cup {event'} \subseteq Shown(s)'
    BY <1>1, <1>2 DEF Shown
  <2>3. /\ 1..log \subseteq Shown(s) \cup untold[s] \cup silent
        /\ ended => End \in Shown(s) \cup untold[s]
    BY <1>1 DEF MissInv
  <2>4. 1..log' \subseteq 1..log \cup {event'} \cup silent' /\ silent \subseteq silent'
    BY <1>1, <1>2
  <2>5. QED BY <1>2, <2>2, <2>3, <2>4
<1>7. QED BY <1>3, <1>4, <1>5, <1>6

\* The job is delivered again: whoever was not told of its end waits for another one.
LEMMA RedeliverKeeps ==
    ASSUME ProgressInv, RunAgain \/ FindBusy
    PROVE  ProgressInv'
<1> USE DEF ProgressInv
<1>1. /\ task = "dead" /\ UNCHANGED <<lint, log, silent, stream>>
      /\ untold' = [s \in Streams |-> untold[s] \ {End}]
      /\ runs \in 0..MaxRuns /\ runs < MaxRuns /\ runs' = runs + 1
      /\ \/ ended' = FALSE /\ event' = log /\ task' = "work"
         \/ ended' = TRUE /\ event' = End /\ task' = "publish"
  BY DEF RunAgain, FindBusy, Redeliver, ProgressTypeOK
<1>2. /\ log \in 0..MaxEntries /\ MaxEntries \in Nat /\ End = MaxEntries + 1 /\ log # End
      /\ log \in Event \cup {0} /\ End \in Event /\ MaxRuns \in Nat
      /\ \A n \in 1..log : n # End
  BY ProgressAssumption DEF ProgressTypeOK, Event, End
<1>3. ProgressTypeOK'
  <2>1. runs' \in 0..MaxRuns
    BY <1>1, <1>2
  <2>2. untold' \in [Streams -> SUBSET Event]
    BY <1>1 DEF ProgressTypeOK
  <2>3. ended' \in BOOLEAN /\ task' \in TaskStates /\ event' \in Event \cup {0}
    BY <1>1, <1>2 DEF TaskStates
  <2>4. QED BY <1>1, <2>1, <2>2, <2>3 DEF ProgressTypeOK
<1>4. TaskInv'
  BY <1>1, <1>2 DEF TaskInv
<1>5. OrderInv'
  BY <1>1 DEF OrderInv, OrderOK, Sent
<1>6. MissInv'
  <2>1. SUFFICES ASSUME NEW s \in Watching
                 PROVE  /\ 1..log \subseteq Shown(s)' \cup untold'[s] \cup silent
                        /\ ended' => End \in Shown(s)'
    BY <1>1 DEF MissInv, Watching
  <2>2. s \in Streams /\ 1..log \subseteq Shown(s) \cup untold[s] \cup silent
    BY DEF MissInv, Watching
  <2>3. Shown(s) \subseteq Shown(s)' /\ (ended' => End \in Shown(s)')
    BY <1>1 DEF Shown
  <2>4. QED BY <1>1, <1>2, <2>2, <2>3
<1>7. QED BY <1>3, <1>4, <1>5, <1>6

\* reconcile_stuck ends the row; whoever watches is not told.
LEMMA ReconcileKeeps ==
    ASSUME ProgressInv, ReconcileRow
    PROVE  ProgressInv'
<1> USE DEF ProgressInv
<1>1. /\ UNCHANGED <<lint, runs, log, silent, task, event, stream>> /\ End \in Event
      /\ \A s \in Streams : untold[s] \subseteq untold'[s]
      /\ \A s \in Watching : End \in untold'[s]
  BY ProgressAssumption DEF ReconcileRow, TellNobody, Watching, Event, End
<1>2. ProgressTypeOK' /\ TaskInv'
  BY <1>1 DEF ProgressTypeOK, TaskInv, ReconcileRow, TellNobody
<1>3. OrderInv'
  BY <1>1 DEF OrderInv, OrderOK, Sent
<1>4. MissInv'
  <2>1. \A s \in Streams : Shown(s)' = Shown(s)
    BY <1>1 DEF Shown
  <2>2. Watching' = Watching
    BY <1>1 DEF Watching
  <2>3. QED BY <1>1, <2>1, <2>2 DEF MissInv, Watching
<1>5. QED BY <1>2, <1>3, <1>4

\* A stream moves and the others, the row and the task stay.
LEMMA StreamMoves ==
    ASSUME ProgressInv, NEW s \in Streams, NEW q \in Stream,
           stream' = [stream EXCEPT ![s] = q], UNCHANGED <<jobVars, untold>>,
           OrderOK(q, log, event, task = "publish"),
           s \in Watching' =>
             /\ 1..log \subseteq Shown(s)' \cup untold[s] \cup silent
             /\ ended => End \in Shown(s)' \cup untold[s]
    PROVE  ProgressInv'
<1> USE DEF ProgressInv
<1>1. /\ stream'[s] = q
      /\ \A t \in Streams \ {s} : stream'[t] = stream[t]
      /\ UNCHANGED <<lint, runs, log, silent, ended, task, event, untold>>
  BY DEF ProgressTypeOK, jobVars
<1>2. ProgressTypeOK' /\ TaskInv'
  BY <1>1 DEF ProgressTypeOK, TaskInv
<1>3. OrderInv'
  BY <1>1 DEF OrderInv
<1>4. MissInv'
  <2>1. SUFFICES ASSUME NEW t \in Watching', t # s
                 PROVE  /\ 1..log \subseteq Shown(t)' \cup untold[t] \cup silent
                        /\ ended => End \in Shown(t)' \cup untold[t]
    BY <1>1 DEF MissInv
  <2>2. t \in Watching /\ Shown(t)' = Shown(t)
    BY <1>1, <2>1 DEF Watching, Shown
  <2>3. QED BY <2>2 DEF MissInv
<1>5. QED BY <1>2, <1>3, <1>4

\* sse_events reads the row and replays its log.
LEMMA ReadRowKeeps ==
    ASSUME ProgressInv, NEW s \in Streams, ReadRow(s)
    PROVE  ProgressInv'
<1> DEFINE q == [stream[s] EXCEPT !.step = IF ended THEN "closed" ELSE "row", !.replay = log]
<1>1. /\ q \in Stream /\ q.replay = log /\ log \in Nat
      /\ q.step = (IF ended THEN "closed" ELSE "row")
      /\ stream[s] \in Stream /\ q.heard = stream[s].heard /\ q.queue = stream[s].queue
  <2>1. stream[s] \in Stream /\ log \in 0..MaxEntries /\ log \in Nat
    BY ProgressAssumption DEF ProgressInv, ProgressTypeOK
  <2>2. ASSUME NEW z \in {"closed", "row"}
        PROVE  LET r == [stream[s] EXCEPT !.step = z, !.replay = log]
               IN  /\ r \in Stream /\ r.replay = log /\ r.step = z
                   /\ r.heard = stream[s].heard /\ r.queue = stream[s].queue
    BY <2>1 DEF Stream
  <2>3. QED BY <2>1, <2>2
<1>2. stream' = [stream EXCEPT ![s] = q] /\ UNCHANGED <<jobVars, untold>>
  BY DEF ReadRow
<1> HIDE DEF q
<1>3. q.heard = <<>> /\ q.queue = <<>>
  BY <1>1 DEF ReadRow, ProgressInv, OrderInv, OrderOK
<1>4. OrderOK(q, log, event, task = "publish")
  <2>1. (task = "publish") \in BOOLEAN /\ q.replay <= log
    BY <1>1
  <2>2. QED BY <1>3, <2>1, NothingSent
<1>5. s \in Watching' => ~ended /\ 1..log \subseteq Shown(s)'
  BY <1>1, <1>2 DEF Watching, Shown, ProgressInv, ProgressTypeOK, jobVars
<1>6. QED BY <1>1, <1>2, <1>4, <1>5, StreamMoves

\* A stream subscribes: what was published before it is untold.
LEMMA SubscribeKeeps ==
    ASSUME ProgressInv, NEW s \in Streams, Subscribe(s)
    PROVE  ProgressInv'
<1> DEFINE q == [stream[s] EXCEPT !.step = "live"]
<1>1. /\ q \in Stream /\ q.step = "live" /\ q.replay = stream[s].replay
      /\ stream[s] \in Stream /\ q.heard = stream[s].heard /\ q.queue = stream[s].queue
  BY DEF ProgressInv, ProgressTypeOK, Stream
<1>2. stream' = [stream EXCEPT ![s] = q] /\ UNCHANGED <<jobVars, untold>>
  BY DEF Subscribe
<1> HIDE DEF q
<1>3. OrderOK(q, log, event, task = "publish")
  <2>1. OrderOK(stream[s], log, event, task = "publish") /\ stream[s].step = "row"
    BY DEF ProgressInv, OrderInv, Subscribe
  <2>2. \A i \in DOMAIN q.heard : q.heard[i] # End
    BY <1>1, <2>1 DEF OrderOK
  <2>3. Sent(q) = Sent(stream[s])
    BY <1>1 DEF Sent
  <2>4. QED BY <1>1, <2>1, <2>2, <2>3 DEF OrderOK
<1>4. stream'[s] = q
  BY <1>2 DEF ProgressInv, ProgressTypeOK
<1>5. Shown(s)' = Shown(s) /\ s \in Watching
  BY <1>1, <1>2, <1>4 DEF Shown, Watching, Subscribe, jobVars
<1>6. QED BY <1>1, <1>2, <1>3, <1>5, StreamMoves DEF ProgressInv, MissInv

\* A stream sends the first of its queue on, or ends with it.
LEMMA ForwardKeeps ==
    ASSUME ProgressInv, NEW s \in Streams, Forward(s)
    PROVE  ProgressInv'
<1> DEFINE e == Head(stream[s].queue)
           q == [stream[s] EXCEPT !.heard = Append(@, e), !.queue = Tail(@),
                                  !.step = IF e = End THEN "closed" ELSE "live"]
<1>1. /\ stream[s] \in Stream /\ stream[s].heard \in Seq(Event) /\ stream[s].queue \in Seq(Event)
      /\ stream[s].queue # <<>> /\ stream[s].step = "live"
  BY DEF ProgressInv, ProgressTypeOK, Stream, Forward
<1>2. /\ Append(stream[s].heard, e) \o Tail(stream[s].queue) = stream[s].heard \o stream[s].queue
      /\ Append(stream[s].heard, e) \in Seq(Event) /\ Tail(stream[s].queue) \in Seq(Event)
      /\ e \in Event
      /\ \A n \in Event : (\E i \in DOMAIN stream[s].queue : stream[s].queue[i] = n)
            => n = e \/ \E i \in DOMAIN Tail(stream[s].queue) : Tail(stream[s].queue)[i] = n
  <2> DEFINE h == stream[s].heard
             z == stream[s].queue
  <2>1. h \in Seq(Event) /\ z \in Seq(Event) /\ z # <<>>
    BY <1>1
  <2> HIDE DEF h, z
  <2>2. /\ Append(h, Head(z)) \o Tail(z) = h \o z
        /\ Append(h, Head(z)) \in Seq(Event) /\ Tail(z) \in Seq(Event)
        /\ Head(z) \in Event
        /\ \A n \in Event : (\E i \in DOMAIN z : z[i] = n)
              => n = Head(z) \/ \E i \in DOMAIN Tail(z) : Tail(z)[i] = n
    BY ONLY <2>1, SentOn
  <2> QED
    BY ONLY <2>2 DEF h, z
<1>3. stream' = [stream EXCEPT ![s] = q] /\ UNCHANGED <<jobVars, untold>>
  BY DEF Forward
<1> HIDE DEF e
<1>4. /\ q \in Stream /\ q.heard = Append(stream[s].heard, e) /\ q.queue = Tail(stream[s].queue)
      /\ q.replay = stream[s].replay /\ q.step = IF e = End THEN "closed" ELSE "live"
  BY <1>1, <1>2 DEF Stream
<1> HIDE DEF q
<1>5. Sent(q) = Sent(stream[s])
  BY <1>2, <1>4 DEF Sent
<1>6. OrderOK(q, log, event, task = "publish")
  <2>1. OrderOK(stream[s], log, event, task = "publish")
    BY DEF ProgressInv, OrderInv
  <2>2. \A i \in DOMAIN stream[s].heard : stream[s].heard[i] # End
    BY <1>1, <2>1 DEF OrderOK
  <2>3. ASSUME NEW h \in Seq(Event), \A i \in DOMAIN h : h[i] # End,
               NEW i \in DOMAIN Append(h, e), Append(h, e)[i] = End
        PROVE  e = End /\ i = Len(Append(h, e))
    <3>1. /\ DOMAIN h = 1..Len(h) /\ Len(h) \in Nat
          /\ DOMAIN Append(h, e) = 1..(Len(h) + 1) /\ Len(Append(h, e)) = Len(h) + 1
          /\ \A j \in 1..Len(h) : Append(h, e)[j] = h[j]
          /\ Append(h, e)[Len(h) + 1] = e
      BY <1>2
    <3>2. QED BY <2>3, <3>1
  <2>4. \A i \in DOMAIN q.heard : q.heard[i] = End => q.step = "closed" /\ i = Len(q.heard)
    BY <1>1, <1>4, <2>2, <2>3
  <2>5. QED BY <1>1, <1>4, <1>5, <2>1, <2>4 DEF OrderOK
<1>7. stream'[s] = q
  BY <1>3 DEF ProgressInv, ProgressTypeOK
<1>8. Shown(s) \subseteq Shown(s)'
  <2>1. {stream[s].queue[i] : i \in DOMAIN stream[s].queue} \subseteq Event
    BY <1>1, ElementOfSeq
  <2>2. ASSUME NEW h \in Seq(Event)
        PROVE  {h[i] : i \in DOMAIN h} \cup {e} \subseteq {Append(h, e)[i] : i \in DOMAIN Append(h, e)}
    <3>1. /\ DOMAIN h = 1..Len(h) /\ Len(h) \in Nat
          /\ DOMAIN Append(h, e) = 1..(Len(h) + 1)
          /\ \A i \in 1..Len(h) : Append(h, e)[i] = h[i]
          /\ Append(h, e)[Len(h) + 1] = e
      BY <1>2
    <3>2. QED BY <3>1
  <2>3. {stream[s].heard[i] : i \in DOMAIN stream[s].heard} \cup {e}
            \subseteq {stream'[s].heard[i] : i \in DOMAIN stream'[s].heard}
    <3>1. stream'[s].heard = Append(stream[s].heard, e)
      BY ONLY <1>4, <1>7
    <3>2. {stream[s].heard[i] : i \in DOMAIN stream[s].heard} \cup {e}
              \subseteq {Append(stream[s].heard, e)[i] : i \in DOMAIN Append(stream[s].heard, e)}
      BY ONLY <1>1, <2>2
    <3>3. QED BY ONLY <3>1, <3>2
  <2>4. {stream[s].queue[i] : i \in DOMAIN stream[s].queue}
            \subseteq {e} \cup {stream'[s].queue[i] : i \in DOMAIN stream'[s].queue}
    BY <1>2, <1>4, <1>7, <2>1
  <2>5. QED BY <1>3, <1>4, <1>7, <2>3, <2>4 DEF Shown, jobVars
<1>9. s \in Watching
  BY <1>1 DEF Watching
<1>10. QED BY <1>3, <1>4, <1>6, <1>8, <1>9, StreamMoves DEF ProgressInv, MissInv

\* A reader goes away.
LEMMA LeaveKeeps ==
    ASSUME ProgressInv, NEW s \in Streams, Leave(s)
    PROVE  ProgressInv'
<1> DEFINE q == [stream[s] EXCEPT !.step = "closed", !.queue = <<>>]
<1>1. stream[s] \in Stream /\ stream[s].heard \in Seq(Event) /\ stream[s].queue \in Seq(Event)
  BY DEF ProgressInv, ProgressTypeOK, Stream
<1>2. /\ q \in Stream /\ q.step = "closed" /\ q.replay = stream[s].replay
      /\ q.heard = stream[s].heard /\ q.queue = <<>>
  BY <1>1, EmptySeq DEF Stream
<1>3. stream' = [stream EXCEPT ![s] = q] /\ UNCHANGED <<jobVars, untold>>
  BY DEF Leave
<1> HIDE DEF q
<1>4. /\ Sent(q) = stream[s].heard /\ DOMAIN Sent(q) \subseteq DOMAIN Sent(stream[s])
      /\ \A i \in DOMAIN Sent(q) : Sent(q)[i] = Sent(stream[s])[i]
  <2>2. Sent(q) = stream[s].heard \o <<>> /\ Sent(stream[s]) = stream[s].heard \o stream[s].queue
    BY <1>2 DEF Sent
  <2>3. /\ stream[s].heard \o <<>> = stream[s].heard
        /\ DOMAIN stream[s].heard \subseteq DOMAIN (stream[s].heard \o stream[s].queue)
        /\ \A i \in DOMAIN stream[s].heard :
               stream[s].heard[i] = (stream[s].heard \o stream[s].queue)[i]
    BY <1>1, HeardFirst, Zenon
  <2>4. QED BY <2>2, <2>3, Zenon
<1>5. OrderOK(q, log, event, task = "publish")
  <2>1. \A i \in DOMAIN stream[s].heard : stream[s].heard[i] # End
    BY DEF Leave, Watching, ProgressInv, OrderInv, OrderOK
  <2>2. QED BY <1>2, <1>4, <2>1 DEF ProgressInv, OrderInv, OrderOK
<1>6. s \notin Watching'
  BY <1>2, <1>3 DEF Watching, ProgressInv, ProgressTypeOK
<1>7. QED BY <1>2, <1>3, <1>5, <1>6, StreamMoves

\* No step of the task, of reconcile_stuck or of a stream breaks the invariant.
LEMMA ProgressStep == ProgressInv /\ [ProgressNext]_progressVars => ProgressInv'
<1> SUFFICES ASSUME ProgressInv, [ProgressNext]_progressVars PROVE ProgressInv'
  OBVIOUS
<1>1. CASE CommitEntry \/ CommitEnd
  BY <1>1, CommitKeepsStreams
<1>2. CASE Publish
  <2>1. event \in {log, End} /\ log # End
    BY <1>2, ProgressAssumption DEF Publish, ProgressInv, TaskInv, ProgressTypeOK, End
  <2>2. QED BY <1>2, <2>1, DeliverKeeps DEF Publish, AfterPublish
<1>3. CASE PublishFails
  BY <1>3, TellNobodyKeeps DEF PublishFails, AfterPublish
<1>4. CASE TaskDies
  <2>1. CASE task = "publish"
    BY <1>4, <2>1, TellNobodyKeeps DEF TaskDies
  <2>2. CASE task \in {"work", "over"}
    <3>1. task' = "dead" /\ UNCHANGED <<lint, runs, log, silent, ended, stream, event, untold>>
      BY <1>4, <2>2 DEF TaskDies
    <3>2. ProgressTypeOK' /\ TaskInv'
      BY <3>1 DEF ProgressInv, ProgressTypeOK, TaskStates, TaskInv
    <3>3. OrderInv'
      BY <2>2, <3>1 DEF ProgressInv, OrderInv, OrderOK, Sent
    <3>4. MissInv'
      BY <2>2, <3>1 DEF ProgressInv, MissInv, Watching, Shown
    <3>5. QED BY <3>2, <3>3, <3>4 DEF ProgressInv
  <2>3. QED BY <1>4, <2>1, <2>2 DEF TaskDies
<1>5. CASE ReconcileRow
  BY <1>5, ReconcileKeeps
<1>5a. CASE RunAgain \/ FindBusy
  BY <1>5a, RedeliverKeeps
<1>6. CASE \E s \in Streams : ReadRow(s) \/ StreamStep(s) \/ Leave(s)
  BY <1>6, ReadRowKeeps, SubscribeKeeps, ForwardKeeps, LeaveKeeps DEF StreamStep
<1>7. CASE UNCHANGED progressVars
  <2>1. ProgressTypeOK' /\ TaskInv' /\ OrderInv'
    BY <1>7 DEF progressVars, ProgressInv, ProgressTypeOK, TaskInv, OrderInv, OrderOK, Sent
  <2>2. MissInv'
    BY <1>7 DEF progressVars, ProgressInv, MissInv, Watching, Shown
  <2>3. QED BY <2>1, <2>2 DEF ProgressInv
<1>8. QED BY <1>1, <1>2, <1>3, <1>4, <1>5, <1>5a, <1>6, <1>7 DEF ProgressNext

\* The invariant of the streams, for any number of them and a log of any length.
LEMMA ProgressHolds == ProgressSpec => []ProgressInv
  BY ProgressInitOK, ProgressStep, PTL DEF ProgressSpec

\* The log, the task and the streams keep their types.
THEOREM ProgressTyped == ProgressSpec => []ProgressTypeOK
<1>1. ProgressInv => ProgressTypeOK
  BY DEF ProgressInv
<1>2. QED BY <1>1, ProgressHolds, PTL

\* sse_events: each stream sends the events that it replays and then those that it hears,
\* each once and in the order of the log, the end last, however often the job is run.
THEOREM StreamsInOrder == ProgressSpec => []StreamInOrder
<1>1. ProgressInv => StreamInOrder
  <2>1. SUFFICES ASSUME ProgressInv, NEW s \in Streams
                 PROVE  LET h == stream[s].heard IN
                        /\ \A i, j \in DOMAIN h : i < j => h[i] < h[j]
                        /\ \A i \in DOMAIN h : h[i] >= stream[s].replay
    BY DEF StreamInOrder
  <2> DEFINE h == stream[s].heard
             z == stream[s].queue
  <2>2. h \in Seq(Event) /\ z \in Seq(Event)
    BY <2>1 DEF ProgressInv, ProgressTypeOK, Stream
  <2>3. /\ \A i, j \in DOMAIN (h \o z) : i < j => (h \o z)[i] = End \/ (h \o z)[i] < (h \o z)[j]
        /\ \A i \in DOMAIN (h \o z) : (h \o z)[i] >= stream[s].replay
        /\ \A i \in DOMAIN h : h[i] = End => i = Len(h)
    BY <2>1 DEF ProgressInv, OrderInv, OrderOK, Sent
  <2> HIDE DEF h, z
  <2>4. DOMAIN h = 1..Len(h) /\ Len(h) \in Nat
    BY <2>2
  <2>5. /\ DOMAIN h \subseteq DOMAIN (h \o z)
        /\ \A i \in DOMAIN h : h[i] = (h \o z)[i]
    BY <2>2, HeardFirst, Zenon
  <2>6. ASSUME NEW i \in DOMAIN h, NEW j \in DOMAIN h, i < j PROVE h[i] < h[j]
    BY ONLY <2>3, <2>4, <2>5, <2>6
  <2>7. \A i \in DOMAIN h : h[i] >= stream[s].replay
    BY ONLY <2>3, <2>5
  <2>8. QED BY ONLY <2>6, <2>7 DEF h
<1>2. QED BY <1>1, ProgressHolds, PTL

\* sse_events: what a stream misses is what was published between its read of the row
\* and its subscription, what Redis or the task lost, or what a success appended.
THEOREM StreamsMissOnlyUntold == ProgressSpec => []StreamMissesOnlyUntold
<1>1. ProgressInv => StreamMissesOnlyUntold
  BY DEF ProgressInv, MissInv, Watching, StreamMissesOnlyUntold
<1>2. QED BY <1>1, ProgressHolds, PTL

-----------------------------------------------------------------------------
(* Graph *)

\* A link that a view follows from a to b.
Linked(a, b) == <<a, b>> \in edges \/ <<b, a>> \in edges

\* What walks of as many links as have been followed reach, is visited, and nothing else;
\* and whatever is not in the frontier has its neighbours visited.
SearchInv ==
    view = "subgraph" =>
        /\ search.root \in visited
        /\ search.left <= search.depth
        /\ search.frontier \subseteq visited
        /\ Neighbours(visited \ search.frontier) \subseteq visited
        /\ \A b \in visited : \E n \in 0..(search.depth - search.left) : Walk(search.root, b, n)
        /\ \A n \in 0..(search.depth - search.left), b \in Articles :
               Walk(search.root, b, n) => b \in visited

OnStack(a) == \E i \in DOMAIN stack : stack[i] = a

\* Whoever is placed has a place above it that was placed before, and, once attach has
\* returned, its children placed.
PlaceInv ==
    /\ \A a \in Articles : OnStack(a) \/ Placed(a) => a \in visited /\ Placed(a)
    /\ \A a \in Articles : Placed(a) /\ under[a] # "top"
                              => <<under[a], a>> \in edges /\ Placed(under[a])
    /\ \A a, b \in Articles : Placed(a) /\ ~OnStack(a) /\ <<a, b>> \in edges => Placed(b)
    /\ \A S \in SUBSET Articles : S # {} /\ (\A a \in S : Placed(a)) => \E a \in S : under[a] \notin S

\* A child is at the top only if no root is above it.
TopInv == \A a \in visited : under[a] = "top" /\ IsChild(a)
              => ~\E r \in visited : ~IsChild(r) /\ Above(r, a)

TreeInv ==
    /\ view # "tree" => stack = <<>> /\ \A a \in Articles : ~Placed(a)
    /\ view = "tree" => edges \subseteq visited \X visited /\ PlaceInv /\ TopInv

GraphInv == GraphTypeOK /\ SearchInv /\ TreeInv

-----------------------------------------------------------------------------
\* A set of natural numbers has a least one.
LEMMA LeastOf ==
    ASSUME NEW S, S \subseteq Nat, S # {}
    PROVE  \E m \in S : \A i \in S : m <= i
<1> DEFINE R == {ss \in Nat \X Nat : ss[1] < ss[2]}
<1>1. IsWellFoundedOn(R, Nat)
  BY NatLessThanWellFounded DEF OpToRel
<1>2. PICK m \in S : \A i \in S : ~(<<i, m>> \in R)
  <2> HIDE DEF R
  <2> QED BY <1>1, WFMin
<1>3. ASSUME NEW i \in S PROVE m <= i
  <2>1. ~(i < m)
    BY <1>2
  <2>2. QED BY <2>1
<1>4. QED BY <1>3

\* A walk and a link more.
LEMMA WalkLonger ==
    ASSUME NEW a \in Articles, NEW b \in Articles, NEW c \in Articles, NEW n \in Nat,
           Walk(a, c, n), Linked(c, b)
    PROVE  Walk(a, b, n + 1)
<1>1. PICK p \in [0..n -> Articles] :
        /\ p[0] = a /\ p[n] = c
        /\ \A i \in 1..n : <<p[i - 1], p[i]>> \in edges \/ <<p[i], p[i - 1]>> \in edges
  BY DEF Walk
<1> DEFINE q == [i \in 0..(n + 1) |-> IF i = n + 1 THEN b ELSE p[i]]
<1>2. q \in [0..(n + 1) -> Articles]
  BY <1>1
<1>3. \A i \in 0..n : q[i] = p[i]
  OBVIOUS
<1>4. q[n + 1] = b
  OBVIOUS
<1> HIDE DEF q
<1>5. ASSUME NEW i \in 1..(n + 1)
      PROVE  <<q[i - 1], q[i]>> \in edges \/ <<q[i], q[i - 1]>> \in edges
  <2>1. CASE i = n + 1
    <3>1. q[i - 1] = c /\ q[i] = b
      BY <1>1, <1>3, <1>4, <2>1
    <3>2. QED BY <3>1 DEF Linked
  <2>2. CASE i \in 1..n
    BY <1>1, <1>3, <2>2
  <2>3. QED BY <2>1, <2>2
<1>6. QED BY <1>1, <1>2, <1>3, <1>4, <1>5 DEF Walk

\* A walk without its last link.
LEMMA WalkShorter ==
    ASSUME NEW a \in Articles, NEW b \in Articles, NEW n \in Nat, Walk(a, b, n + 1)
    PROVE  \E c \in Articles : Walk(a, c, n) /\ Linked(c, b)
<1>1. PICK p \in [0..(n + 1) -> Articles] :
        /\ p[0] = a /\ p[n + 1] = b
        /\ \A i \in 1..(n + 1) : <<p[i - 1], p[i]>> \in edges \/ <<p[i], p[i - 1]>> \in edges
  BY DEF Walk
<1> DEFINE q == [i \in 0..n |-> p[i]]
<1>2. q \in [0..n -> Articles] /\ \A i \in 0..n : q[i] = p[i]
  BY <1>1
<1> HIDE DEF q
<1>3. ASSUME NEW i \in 1..n
      PROVE  <<q[i - 1], q[i]>> \in edges \/ <<q[i], q[i - 1]>> \in edges
  BY <1>1, <1>2
<1>4. Walk(a, q[n], n)
  BY <1>1, <1>2, <1>3 DEF Walk
<1>5. Linked(q[n], b)
  <2>1. n + 1 \in 1..(n + 1) /\ (n + 1) - 1 = n
    OBVIOUS
  <2>2. QED BY <1>1, <1>2, <2>1 DEF Linked
<1>6. QED BY <1>2, <1>4, <1>5

\* A walk does not leave what has all its neighbours.
LEMMA WalkStays ==
    ASSUME NEW V \in SUBSET Articles, Neighbours(V) \subseteq V,
           NEW a \in V, NEW b \in Articles, NEW n \in Nat, Walk(a, b, n)
    PROVE  b \in V
<1>1. PICK p \in [0..n -> Articles] :
        /\ p[0] = a /\ p[n] = b
        /\ \A i \in 1..n : <<p[i - 1], p[i]>> \in edges \/ <<p[i], p[i - 1]>> \in edges
  BY DEF Walk
<1> DEFINE Out == {i \in 0..n : p[i] \notin V}
<1>2. ASSUME Out # {} PROVE FALSE
  <2>1. PICK m \in Out : \A i \in Out : m <= i
    <3>1. Out \subseteq Nat
      OBVIOUS
    <3>2. QED BY <1>2, <3>1, LeastOf
  <2>2. m \in 1..n /\ m - 1 \in 0..n /\ m - 1 \notin Out
    BY <1>1, <2>1
  <2>3. p[m] \in Neighbours(V)
    BY <1>1, <2>2 DEF Neighbours
  <2>4. QED BY <2>1, <2>3
<1>3. QED BY <1>1, <1>2

-----------------------------------------------------------------------------
\* At first there are no articles and no view.
LEMMA GraphInitOK == GraphInit => GraphInv
<1> SUFFICES ASSUME GraphInit PROVE GraphInv
  OBVIOUS
<1>1. NoSearch \in Subsearch
  BY GraphAssumption DEF NoSearch, Subsearch
<1>2. QED
  BY <1>1 DEF GraphInit, GraphInv, GraphTypeOK, Views, Places, SearchInv, TreeInv, Placed

\* Jobs write while no view reads what it shows.
LEMMA JobsKeepViews ==
    ASSUME GraphInv, articles' \subseteq Articles, links' \subseteq Link, Writable,
           UNCHANGED <<view, edges, visited, search, stack, under>>
    PROVE  GraphInv'
  BY DEF GraphInv, GraphTypeOK, SearchInv, TreeInv, Placed, Writable

\* build_subgraph begins with the root alone.
LEMMA BeginSubgraphKeeps ==
    ASSUME GraphInv, NEW r \in Articles, NEW d \in Int, NEW types, BeginSubgraph(r, d, types)
    PROVE  GraphInv'
<1>1. /\ view' = "subgraph" /\ visited' = {r} /\ view = "none" /\ GraphTypeOK
      /\ search' = [root |-> r, depth |-> Clamp(d), left |-> Clamp(d), frontier |-> {r}]
      /\ edges' = {<<l[1], l[2]>> : l \in {k \in links : k[3] \in types \cap GraphTypes}}
      /\ UNCHANGED <<store, stack, under>>
  BY DEF BeginSubgraph, GraphInv
<1>2. Clamp(d) \in 0..MaxDepth
  BY GraphAssumption DEF Clamp
<1>3. edges' \subseteq Articles \X Articles
  BY <1>1 DEF GraphTypeOK, Link
<1>4. /\ search' \in Subsearch
      /\ search'.root = r /\ search'.frontier = {r}
      /\ search'.depth = Clamp(d) /\ search'.left = Clamp(d)
  BY <1>1, <1>2 DEF Subsearch
<1>5. GraphTypeOK'
  BY <1>1, <1>3, <1>4 DEF GraphTypeOK, Views, store
<1>6. \A b \in Articles, n \in 0..0 : Walk(r, b, n)' <=> r = b
  <2>1. \A b \in Articles : Walk(r, b, 0)' <=> r = b
    <3>1. ASSUME NEW b \in Articles
          PROVE  Walk(r, b, 0)' <=> r = b
      <4> DEFINE p == [i \in 0..0 |-> r]
      <4>1. p \in [0..0 -> Articles] /\ p[0] = r /\ \A i \in 1..0 : FALSE
        OBVIOUS
      <4>2. QED BY <4>1 DEF Walk
    <3>2. QED BY <3>1
  <2>2. \A n \in 0..0 : n = 0
    OBVIOUS
  <2>3. QED BY <2>1, <2>2
<1>7. SearchInv'
  <2>1. search'.depth - search'.left = 0 /\ search'.left <= search'.depth
    BY <1>2, <1>4
  <2>2. visited' \ search'.frontier = {}
    BY <1>1, <1>4
  <2>3. Neighbours(visited \ search.frontier)' = {}
    BY <2>2 DEF Neighbours
  <2>4. /\ \A b \in visited' : \E n \in 0..0 : Walk(r, b, n)'
        /\ \A n \in 0..0, b \in Articles : Walk(r, b, n)' => b \in visited'
    <3>1. 0 \in 0..0
      OBVIOUS
    <3>2. QED BY <1>1, <1>6, <3>1
  <2>5. QED BY <1>1, <1>4, <2>1, <2>3, <2>4 DEF SearchInv
<1>8. TreeInv'
  BY <1>1 DEF GraphInv, TreeInv, Placed
<1>9. QED BY <1>5, <1>7, <1>8 DEF GraphInv

\* One round: the frontier's neighbours are visited.
LEMMA ExpandKeeps == GraphInv /\ Expand => GraphInv'
<1> SUFFICES ASSUME GraphInv, Expand PROVE GraphInv'
  OBVIOUS
<1> DEFINE new == Neighbours(search.frontier) \ visited
           far == search.depth - search.left
<1>1. /\ view = "subgraph" /\ GraphTypeOK /\ SearchInv /\ search \in Subsearch
      /\ search.left > 0
      /\ visited' = visited \cup new
      /\ search' = [search EXCEPT !.left = @ - 1, !.frontier = new]
      /\ UNCHANGED <<articles, links, view, edges, stack, under>>
  BY DEF GraphInv, GraphTypeOK, Expand, store
<1>2. new \subseteq Articles
  BY DEF Neighbours
<1> HIDE DEF new
<1>3. /\ search.root \in Articles \cup {"absent"} /\ search.depth \in 0..MaxDepth
      /\ search.left \in 0..MaxDepth
      /\ search.root \in visited /\ search.frontier \subseteq visited
      /\ search.left <= search.depth /\ visited \subseteq Articles
  BY <1>1 DEF Subsearch, SearchInv, GraphTypeOK
<1>4. search'.root = search.root /\ search'.depth = search.depth /\ search'.frontier = new
  BY <1>1 DEF Subsearch
<1>5. search'.left = search.left - 1
  BY <1>1 DEF Subsearch
<1>6. search.left - 1 \in 0..MaxDepth /\ far \in Nat /\ search'.depth - search'.left = far + 1
  BY <1>1, <1>3, <1>4, <1>5, GraphAssumption
<1>7. GraphTypeOK'
  <2>1. search' \in Subsearch
    BY <1>1, <1>2, <1>3, <1>6 DEF Subsearch
  <2>2. QED BY <1>1, <1>2, <1>3, <2>1 DEF GraphTypeOK
<1>8. /\ \A b \in visited : \E n \in 0..far : Walk(search.root, b, n)
      /\ \A n \in 0..far, b \in Articles : Walk(search.root, b, n) => b \in visited
      /\ Neighbours(visited \ search.frontier) \subseteq visited
  BY <1>1 DEF SearchInv
<1> HIDE DEF far
<1>9. \A b \in Articles, n \in Nat : Walk(search.root, b, n)' <=> Walk(search.root, b, n)
  BY <1>1, <1>4 DEF Walk
<1>10. ASSUME NEW b \in visited'
       PROVE  \E n \in 0..(far + 1) : Walk(search.root, b, n)
  <2>1. CASE b \in visited
    BY <1>6, <1>8, <2>1
  <2>2. CASE b \in new
    <3>1. PICK c \in search.frontier : Linked(c, b)
      BY <2>2 DEF new, Neighbours, Linked
    <3>2. PICK n \in 0..far : Walk(search.root, c, n)
      BY <1>3, <1>8, <3>1
    <3>3. n \in Nat /\ n + 1 \in 0..(far + 1)
      BY <1>6, <3>2
    <3>4. /\ b \in Articles /\ c \in Articles /\ search.root \in Articles
      BY <1>2, <1>3, <2>2, <3>1
    <3>5. Walk(search.root, b, n + 1)
      BY <3>1, <3>2, <3>3, <3>4, WalkLonger
    <3>6. QED BY <3>3, <3>5
  <2>3. QED BY <1>1, <1>10, <2>1, <2>2
<1>11. ASSUME NEW n \in 0..(far + 1), NEW b \in Articles, Walk(search.root, b, n)
       PROVE  b \in visited'
  <2>1. CASE n \in 0..far
    BY <1>1, <1>8, <1>11, <2>1
  <2>2. CASE n = far + 1
    <3>1. PICK c \in Articles : Walk(search.root, c, far) /\ Linked(c, b)
      BY <1>3, <1>6, <1>11, <2>2, WalkShorter
    <3>2. far \in 0..far
      BY <1>6
    <3>3. c \in visited
      BY <1>8, <3>1, <3>2
    <3>4. CASE c \in search.frontier
      BY <1>1, <3>1, <3>4 DEF new, Neighbours, Linked
    <3>5. CASE c \notin search.frontier
      BY <1>1, <1>8, <3>1, <3>3, <3>5 DEF Neighbours, Linked
    <3>6. QED BY <3>4, <3>5
  <2>3. n \in 0..far \/ n = far + 1
    BY <1>6
  <2>4. QED BY <2>1, <2>2, <2>3
<1>12. Neighbours(visited \ search.frontier)' \subseteq visited'
  <2>1. ASSUME NEW b \in Articles, NEW a \in visited' \ new, Linked(a, b)
        PROVE  b \in visited'
    <3>1. a \in visited
      BY <1>1, <2>1
    <3>2. CASE a \in search.frontier
      BY <1>1, <2>1, <3>2 DEF new, Neighbours, Linked
    <3>3. CASE a \notin search.frontier
      BY <1>1, <1>8, <2>1, <3>1, <3>3 DEF Neighbours, Linked
    <3>4. QED BY <3>2, <3>3
  <2>2. QED BY <1>1, <1>4, <2>1 DEF Neighbours, Linked
<1>13. SearchInv'
  <2>1. /\ search'.root \in visited' /\ search'.left <= search'.depth
        /\ search'.frontier \subseteq visited'
    BY <1>1, <1>3, <1>4, <1>5
  <2>2. \A b \in visited' : \E n \in 0..(far + 1) : Walk(search.root, b, n)'
    BY <1>2, <1>1, <1>3, <1>6, <1>9, <1>10
  <2>3. \A n \in 0..(far + 1), b \in Articles : Walk(search.root, b, n)' => b \in visited'
    BY <1>6, <1>9, <1>11
  <2>4. QED BY <1>4, <1>6, <1>12, <2>1, <2>2, <2>3 DEF SearchInv
<1>14. TreeInv'
  BY <1>1 DEF GraphInv, TreeInv, Placed
<1>15. QED BY <1>7, <1>13, <1>14 DEF GraphInv

\* domain_tree lists the articles, and then reads the pairs.
LEMMA ReadTreeKeeps == GraphInv /\ (BeginTree \/ ReadPairs) => GraphInv'
<1> SUFFICES ASSUME GraphInv, BeginTree \/ ReadPairs PROVE GraphInv'
  OBVIOUS
<1>1. CASE BeginTree
  BY <1>1 DEF BeginTree, GraphInv, GraphTypeOK, Views, store, SearchInv, TreeInv, Placed
<1>2. CASE ReadPairs
  <2>1. /\ view' = "tree" /\ GraphTypeOK /\ stack = <<>> /\ \A a \in Articles : ~Placed(a)
        /\ UNCHANGED <<articles, links, visited, search, stack, under>>
        /\ edges' \subseteq visited \X visited
    BY <1>2 DEF ReadPairs, GraphInv, TreeInv, store
  <2>2. GraphTypeOK'
    BY <2>1 DEF GraphTypeOK, Views
  <2>3. SearchInv'
    BY <2>1 DEF SearchInv
  <2>4. PlaceInv'
    <3>1. \A a \in Articles : ~Placed(a)' /\ ~OnStack(a)'
      BY <2>1 DEF Placed, OnStack
    <3>2. QED BY <3>1 DEF PlaceInv
  <2>5. TopInv'
    BY <2>1 DEF TopInv, Placed, GraphTypeOK
  <2>6. QED BY <2>1, <2>2, <2>3, <2>4, <2>5 DEF GraphInv, TreeInv
<1>3. QED BY <1>1, <1>2

\* attach places a below top or below whoever is calling.
LEMMA AttachKeeps ==
    ASSUME GraphInv, view = "tree", NEW a \in visited, ~Placed(a), NEW p,
           p = "top" \/ (p \in Articles /\ Placed(p) /\ <<p, a>> \in edges),
           under' = [under EXCEPT ![a] = p],
           stack' = <<a>> \o stack,
           p = "top" => stack = <<>> /\ NextTop(a),
           UNCHANGED <<store, view, edges, visited, search>>
    PROVE  GraphInv'
<1>1. /\ GraphTypeOK /\ PlaceInv /\ TopInv /\ edges \subseteq visited \X visited
      /\ visited \subseteq Articles /\ under \in [Articles -> Articles \cup Places]
      /\ stack \in Seq(Articles)
  BY DEF GraphInv, GraphTypeOK, TreeInv
<1>2. a \in Articles /\ p \in (Articles \cup Places) \ {"absent"}
      /\ under'[a] = p /\ \A b \in Articles \ {a} : under'[b] = under[b]
  BY <1>1, GraphAssumption DEF Places
<1>3. /\ Placed(a)'
      /\ \A b \in Articles \ {a} : Placed(b)' <=> Placed(b)
  BY <1>2 DEF Placed
<1>4. /\ stack' \in Seq(Articles)
      /\ \A b \in Articles : OnStack(b)' <=> b = a \/ OnStack(b)
  <2>1. Len(stack) \in Nat /\ DOMAIN stack = 1..Len(stack)
    BY <1>1
  <2>2. /\ stack' \in Seq(Articles) /\ DOMAIN stack' = 1..(Len(stack) + 1) /\ stack'[1] = a
        /\ \A i \in 1..Len(stack) : stack'[i + 1] = stack[i]
    BY <1>1, <1>2
  <2>3. ASSUME NEW b \in Articles, OnStack(b)'
        PROVE  b = a \/ OnStack(b)
    <3>1. PICK i \in 1..(Len(stack) + 1) : stack'[i] = b
      BY <2>2, <2>3 DEF OnStack
    <3>2. CASE i = 1
      BY <2>2, <3>1, <3>2
    <3>3. CASE i # 1
      <4>1. i - 1 \in 1..Len(stack) /\ stack'[(i - 1) + 1] = stack[i - 1] /\ (i - 1) + 1 = i
        BY <2>1, <2>2, <3>1, <3>3
      <4>2. QED BY <2>1, <3>1, <4>1 DEF OnStack
    <3>4. QED BY <3>2, <3>3
  <2>4. ASSUME NEW b \in Articles, b = a \/ OnStack(b)
        PROVE  OnStack(b)'
    <3>1. CASE b = a
      <4>1. 1 \in 1..(Len(stack) + 1)
        BY <2>1
      <4>2. QED BY <2>2, <3>1, <4>1 DEF OnStack
    <3>2. CASE OnStack(b)
      <4>1. PICK i \in 1..Len(stack) : stack[i] = b
        BY <2>1, <3>2 DEF OnStack
      <4>2. i + 1 \in 1..(Len(stack) + 1) /\ stack'[i + 1] = b
        BY <2>1, <2>2, <4>1
      <4>3. QED BY <2>2, <4>2 DEF OnStack
    <3>3. QED BY <2>4, <3>1, <3>2
  <2>5. QED BY <2>2, <2>3, <2>4
<1>5. GraphTypeOK'
  BY <1>1, <1>2, <1>4 DEF GraphTypeOK, store
<1>6. SearchInv'
  BY DEF SearchInv
<1>7. PlaceInv'
  <2>1. \A b \in Articles : OnStack(b)' \/ Placed(b)' => b \in visited' /\ Placed(b)'
    BY <1>1, <1>3, <1>4 DEF PlaceInv
  <2>2. ASSUME NEW b \in Articles, Placed(b)', under'[b] # "top"
        PROVE  <<under'[b], b>> \in edges' /\ under'[b] \in Articles /\ Placed(under[b])'
    <3>1. CASE b = a
      <4>1. p \in Articles /\ Placed(p) /\ <<p, a>> \in edges /\ p # a
        BY <1>2, <2>2, <3>1
      <4>2. under'[p] = under[p] /\ under'[p] # "absent"
        BY <1>2, <4>1 DEF Placed
      <4>3. QED BY <1>2, <3>1, <4>1, <4>2 DEF Placed
    <3>2. CASE b # a
      <4>1. Placed(b) /\ under'[b] = under[b]
        BY <1>2, <1>3, <2>2, <3>2
      <4>2. <<under[b], b>> \in edges /\ Placed(under[b])
        BY <1>1, <2>2, <4>1 DEF PlaceInv
      <4>3. under[b] \in Articles
        BY <1>1, <4>2
      <4>4. under[b] # a
        BY <4>2
      <4>5. under'[under[b]] = under[under[b]]
        BY <1>2, <4>3, <4>4
      <4>6. Placed(under[b])'
        BY <4>1, <4>2, <4>5 DEF Placed
      <4>7. edges' = edges
        OBVIOUS
      <4>8. QED BY <4>1, <4>2, <4>3, <4>6, <4>7
    <3>3. QED BY <3>1, <3>2
  <2>3. ASSUME NEW b \in Articles, NEW c \in Articles, Placed(b)', ~OnStack(b)', <<b, c>> \in edges
        PROVE  Placed(c)'
    <3>1. b # a /\ Placed(b) /\ ~OnStack(b)
      BY <1>3, <1>4, <2>3
    <3>2. Placed(c)
      BY <1>1, <2>3, <3>1 DEF PlaceInv
    <3>3. QED BY <1>3, <3>2
  <2>4. ASSUME NEW S \in SUBSET Articles, S # {}, \A b \in S : Placed(b)'
        PROVE  \E b \in S : under'[b] \notin S
    <3> DEFINE R == S \ {a}
    <3>1. CASE R = {}
      <4>1. S = {a} /\ p # a
        BY <1>2, <2>4, <3>1, GraphAssumption
      <4>2. QED BY <1>2, <4>1
    <3>2. CASE R # {}
      <4>1. R \in SUBSET Articles /\ \A b \in R : Placed(b)
        BY <1>3, <2>4
      <4>2. PICK b \in R : under[b] \notin R
        BY <1>1, <3>2, <4>1 DEF PlaceInv
      <4>3. b \in Articles /\ Placed(b) /\ under'[b] = under[b]
        BY <1>2, <4>1, <4>2
      <4>4. under[b] # a
        <5>1. CASE under[b] = "top"
          BY <1>2, <5>1, GraphAssumption
        <5>2. CASE under[b] # "top"
          BY <1>1, <4>3, <5>2 DEF PlaceInv
        <5>3. QED BY <5>1, <5>2
      <4>5. QED BY <4>2, <4>3, <4>4
    <3>3. QED BY <3>1, <3>2
  <2>5. QED BY <2>1, <2>2, <2>3, <2>4 DEF PlaceInv
<1>8. TopInv'
  <2>1. \A b \in visited : IsChild(b)' <=> IsChild(b)
    BY DEF IsChild
  <2>2. \A r, b \in visited : Above(r, b)' <=> Above(r, b)
    BY DEF Above
  <2>3. ASSUME NEW b \in visited, under'[b] = "top", IsChild(b), NEW r \in visited, ~IsChild(r),
               Above(r, b)
        PROVE  FALSE
    <3>1. CASE b # a
      <4>1. under[b] = "top"
        BY <1>1, <1>2, <2>3, <3>1
      <4>2. QED BY <1>1, <2>3, <4>1 DEF TopInv
    <3>2. CASE b = a
      <4>1. p = "top" /\ stack = <<>> /\ NextTop(a)
        BY <1>2, <2>3, <3>2
      <4> DEFINE S == {c \in visited : Placed(c)}
      <4>2. r \in S
        BY <2>3, <3>2, <4>1 DEF NextTop, Unplaced
      <4>3. ASSUME NEW e \in edges, e[1] \in S
            PROVE  e[2] \in S
        <5>1. e = <<e[1], e[2]>> /\ e[1] \in visited /\ e[2] \in visited
          BY <1>1
        <5>2. ~OnStack(e[1])
          BY <4>1 DEF OnStack
        <5>3. Placed(e[2])
          BY <1>1, <4>3, <5>1, <5>2 DEF PlaceInv
        <5>4. QED BY <5>1, <5>3
      <4>4. S \in SUBSET visited
        OBVIOUS
      <4>5. b \in S
        BY <2>3, <4>2, <4>3, <4>4 DEF Above
      <4>6. QED BY <3>2, <4>5
    <3>3. QED BY <3>1, <3>2
  <2>4. QED BY <2>1, <2>2, <2>3 DEF TopInv
<1>9. TreeInv'
  BY <1>1, <1>7, <1>8 DEF TreeInv
<1>10. QED BY <1>5, <1>6, <1>9 DEF GraphInv

\* attach returns when the children of its article are placed.
LEMMA AttachedKeeps == GraphInv /\ Attached => GraphInv'
<1> SUFFICES ASSUME GraphInv, Attached PROVE GraphInv'
  OBVIOUS
<1>1. /\ view = "tree" /\ stack # <<>> /\ stack' = Tail(stack)
      /\ \A a \in visited : ~Placed(a) => <<Head(stack), a>> \notin edges
      /\ UNCHANGED <<articles, links, view, edges, visited, search, under>>
  BY DEF Attached, store, Unplaced
<1>2. /\ GraphTypeOK /\ PlaceInv /\ TopInv /\ edges \subseteq visited \X visited
      /\ stack \in Seq(Articles)
  BY <1>1 DEF GraphInv, GraphTypeOK, TreeInv
<1>3. /\ stack' \in Seq(Articles)
      /\ \A b \in Articles : OnStack(b)' => OnStack(b)
      /\ \A b \in Articles : OnStack(b) => OnStack(b)' \/ b = Head(stack)
  <2>1. Len(stack) \in Nat \ {0} /\ DOMAIN stack = 1..Len(stack)
    BY <1>1, <1>2
  <2>2. /\ stack' \in Seq(Articles) /\ DOMAIN stack' = 1..(Len(stack) - 1)
        /\ \A i \in 1..(Len(stack) - 1) : stack'[i] = stack[i + 1]
        /\ Head(stack) = stack[1]
    BY <1>1, <1>2
  <2>3. ASSUME NEW b \in Articles, OnStack(b)'
        PROVE  OnStack(b)
    <3>1. PICK i \in 1..(Len(stack) - 1) : stack'[i] = b
      BY <2>2, <2>3 DEF OnStack
    <3>2. i + 1 \in 1..Len(stack) /\ stack[i + 1] = b
      BY <2>1, <2>2, <3>1
    <3>3. QED BY <2>1, <3>2 DEF OnStack
  <2>4. ASSUME NEW b \in Articles, OnStack(b), b # Head(stack)
        PROVE  OnStack(b)'
    <3>1. PICK i \in 1..Len(stack) : stack[i] = b
      BY <2>1, <2>4 DEF OnStack
    <3>2. i # 1
      BY <2>2, <2>4, <3>1
    <3>3. i - 1 \in 1..(Len(stack) - 1) /\ (i - 1) + 1 = i
      BY <2>1, <3>1, <3>2
    <3>4. stack'[i - 1] = b
      BY <2>2, <3>1, <3>3
    <3>5. QED BY <2>2, <3>3, <3>4 DEF OnStack
  <2>5. QED BY <2>2, <2>3, <2>4
<1>4. \A b \in Articles : Placed(b)' <=> Placed(b)
  BY <1>1 DEF Placed
<1>5. PlaceInv'
  <2>1. \A b \in Articles : OnStack(b)' \/ Placed(b)' => b \in visited' /\ Placed(b)'
    BY <1>1, <1>2, <1>3, <1>4 DEF PlaceInv
  <2>2. \A b \in Articles : Placed(b)' /\ under'[b] # "top"
            => <<under'[b], b>> \in edges' /\ Placed(under[b])'
    BY <1>1, <1>2 DEF PlaceInv, Placed
  <2>3. ASSUME NEW b \in Articles, NEW c \in Articles, Placed(b), ~OnStack(b)', <<b, c>> \in edges
        PROVE  Placed(c)
    <3>1. CASE OnStack(b)
      <4>1. b = Head(stack) /\ c \in visited
        BY <1>2, <1>3, <2>3, <3>1
      <4>2. QED BY <1>1, <2>3, <4>1
    <3>2. CASE ~OnStack(b)
      BY <1>2, <2>3, <3>2 DEF PlaceInv
    <3>3. QED BY <3>1, <3>2
  <2>4. \A S \in SUBSET Articles : S # {} /\ (\A b \in S : Placed(b)')
            => \E b \in S : under'[b] \notin S
    BY <1>1, <1>2, <1>4 DEF PlaceInv
  <2>5. QED BY <1>1, <1>4, <2>1, <2>2, <2>3, <2>4 DEF PlaceInv
<1>6. TopInv'
  BY <1>1, <1>2 DEF TopInv, IsChild, Above
<1>7. GraphTypeOK' /\ SearchInv'
  BY <1>1, <1>2, <1>3 DEF GraphTypeOK, SearchInv
<1>8. QED BY <1>1, <1>2, <1>5, <1>6, <1>7 DEF GraphInv, TreeInv

\* The view is sent, and what it has read is gone.
LEMMA EndViewKeeps == GraphInv /\ EndView => GraphInv'
<1> SUFFICES ASSUME GraphInv, EndView PROVE GraphInv'
  OBVIOUS
<1>1. stack = <<>>
  BY DEF EndView, Found, Complete, GraphInv, TreeInv
<1>2. NoSearch \in Subsearch
  BY GraphAssumption DEF NoSearch, Subsearch
<1>3. QED
  BY <1>1, <1>2 DEF EndView, GraphInv, GraphTypeOK, Views, Places, SearchInv, TreeInv, Placed, store

\* No step of a job or of a view breaks the invariant.
LEMMA GraphStep == GraphInv /\ [GraphNext]_graphVars => GraphInv'
<1> SUFFICES ASSUME GraphInv, [GraphNext]_graphVars PROVE GraphInv'
  OBVIOUS
<1>0. GraphTypeOK
  BY DEF GraphInv
<1>1. ASSUME NEW a \in Articles, AddArticle(a) PROVE GraphInv'
  BY <1>0, <1>1, JobsKeepViews DEF AddArticle, GraphTypeOK
<1>2. ASSUME NEW a \in Articles, NEW b \in Articles, NEW t \in WikiTypes, AddLink(a, b, t)
      PROVE  GraphInv'
  <2>1. links' \subseteq Link
    BY <1>0, <1>2 DEF AddLink, GraphTypeOK, Link
  <2>2. QED BY <1>0, <1>2, <2>1, JobsKeepViews DEF AddLink, GraphTypeOK
<1>3. ASSUME NEW r \in Articles, NEW d \in -1..(MaxDepth + 1), NEW types, BeginSubgraph(r, d, types)
      PROVE  GraphInv'
  <2>1. d \in Int
    BY GraphAssumption
  <2>2. QED BY <1>3, <2>1, BeginSubgraphKeeps
<1>4. ASSUME NEW a \in Articles, AttachTop(a) PROVE GraphInv'
  <2>1. /\ view = "tree" /\ stack = <<>> /\ NextTop(a) /\ a \in visited /\ ~Placed(a)
        /\ under' = [under EXCEPT ![a] = "top"] /\ stack' = <<a>>
        /\ UNCHANGED <<store, view, edges, visited, search>>
    BY <1>4 DEF AttachTop, NextTop, Unplaced
  <2>2. stack' = <<a>> \o stack
    BY <2>1
  <2>3. QED BY <2>1, <2>2, AttachKeeps
<1>5. ASSUME NEW a \in Articles, AttachChild(a) PROVE GraphInv'
  <2>1. /\ view = "tree" /\ stack # <<>> /\ a \in visited /\ ~Placed(a)
        /\ <<Head(stack), a>> \in edges
        /\ under' = [under EXCEPT ![a] = Head(stack)] /\ stack' = <<a>> \o stack
        /\ UNCHANGED <<store, view, edges, visited, search>>
    BY <1>5 DEF AttachChild, Unplaced
  <2>2. stack \in Seq(Articles) /\ PlaceInv
    BY <1>0, <2>1 DEF GraphTypeOK, GraphInv, TreeInv
  <2>3. Head(stack) \in Articles /\ OnStack(Head(stack))
    BY <2>1, <2>2 DEF OnStack
  <2>4. Head(stack) # "top" /\ Placed(Head(stack))
    BY <2>2, <2>3, GraphAssumption DEF PlaceInv
  <2>5. QED BY <2>1, <2>3, <2>4, AttachKeeps
<1>6. CASE UNCHANGED graphVars
  <2>1. GraphTypeOK'
    BY <1>0, <1>6 DEF graphVars, GraphTypeOK
  <2>2. SearchInv'
    BY <1>6 DEF graphVars, GraphInv, SearchInv, Neighbours, Walk
  <2>3. PlaceInv' <=> PlaceInv
    BY <1>6 DEF graphVars, PlaceInv, OnStack, Placed
  <2>4. TopInv' <=> TopInv
    BY <1>6 DEF graphVars, TopInv, IsChild, Above
  <2>5. TreeInv'
    BY <1>6, <2>3, <2>4 DEF graphVars, GraphInv, TreeInv, Placed
  <2>6. QED BY <2>1, <2>2, <2>5 DEF GraphInv
<1>7. QED
  BY <1>1, <1>2, <1>3, <1>4, <1>5, <1>6, ReadTreeKeeps, ExpandKeeps, AttachedKeeps, EndViewKeeps
     DEF GraphNext, ViewStep

\* The invariant of the views, for any number of articles and links.
LEMMA GraphHolds == GraphSpec => []GraphInv
  BY GraphInitOK, GraphStep, PTL DEF GraphSpec

\* Links, views and places keep their types.
THEOREM GraphTyped == GraphSpec => []GraphTypeOK
<1>1. GraphInv => GraphTypeOK
  BY DEF GraphInv
<1>2. QED BY <1>1, GraphHolds, PTL

\* At the end of a view.
LEMMA ViewsWhole == GraphInv => ViewsAreWhole
<1> SUFFICES ASSUME GraphInv PROVE ViewsAreWhole
  OBVIOUS
<1>1. GraphTypeOK /\ visited \subseteq Articles /\ search \in Subsearch
  BY DEF GraphInv, GraphTypeOK
<1>2. ASSUME Found
      PROVE  visited = {b \in Articles : \E n \in 0..search.depth : Walk(search.root, b, n)}
  <2>1. SearchInv /\ view = "subgraph"
    BY <1>2 DEF Found, GraphInv
  <2>2. search.depth \in Nat /\ search.left \in Nat /\ search.left <= search.depth
    BY <1>1, <2>1, GraphAssumption DEF Subsearch, SearchInv
  <2>3. \A b \in visited : \E n \in 0..search.depth : Walk(search.root, b, n)
    <3>1. 0..(search.depth - search.left) \subseteq 0..search.depth
      BY <2>2
    <3>2. QED BY <2>1, <3>1 DEF SearchInv
  <2>4. ASSUME NEW b \in Articles, NEW n \in 0..search.depth, Walk(search.root, b, n)
        PROVE  b \in visited
    <3>1. CASE search.left = 0
      <4>1. search.depth - search.left = search.depth
        BY <2>2, <3>1
      <4>2. QED BY <2>1, <2>4, <4>1 DEF SearchInv
    <3>2. CASE search.frontier = {}
      <4>1. visited \ search.frontier = visited
        BY <3>2
      <4>2. Neighbours(visited) \subseteq visited /\ search.root \in visited
        BY <2>1, <4>1 DEF SearchInv
      <4>3. QED BY <1>1, <2>4, <4>2, WalkStays
    <3>3. QED BY <1>2, <3>1, <3>2 DEF Found
  <2>5. QED BY <1>1, <2>3, <2>4
<1>3. ASSUME Complete
      PROVE  TreeIsWhole
  <2>1. /\ view = "tree" /\ PlaceInv /\ TopInv /\ \A a \in visited : ~NextTop(a)
    BY <1>3 DEF Complete, GraphInv, TreeInv
  <2>2. \A a \in visited : Placed(a)
    <3>1. ASSUME NEW a \in visited, ~Placed(a) PROVE FALSE
      <4>1. CASE \E b \in Unplaced : ~IsChild(b)
        BY <2>1, <4>1 DEF NextTop, Unplaced
      <4>2. CASE \A b \in Unplaced : IsChild(b)
        BY <2>1, <3>1, <4>2 DEF NextTop, Unplaced
      <4>3. QED BY <4>1, <4>2
    <3>2. QED BY <3>1
  <2>3. QED BY <1>1, <2>1, <2>2 DEF TreeIsWhole, PlaceInv, TopInv
<1>4. QED BY <1>2, <1>3 DEF ViewsAreWhole, NeighbourhoodIsWhole, TreeIsWhole

\* GET /graph shows all that walks of the asked length reach and nothing else, and the
\* tree of the pages has every listed article in one place, for any number of articles
\* and links, cycles among them, and any depth (ViewsAreWhole).
THEOREM ViewsWholeAlways == GraphSpec => []ViewsAreWhole
  BY GraphHolds, ViewsWhole, PTL

-----------------------------------------------------------------------------
\* A step of a view comes closer to its end: the tree has read its pairs; a round of the
\* neighbourhood less is left; an article less is without a place; or, with those that
\* are, a call of attach has returned.
ViewComesCloser ==
    view # "none" /\ view' # "none" /\ UNCHANGED store =>
        \/ view = "list" /\ view' = "tree"
        \/ view' = view /\ search'.left < search.left
        \/ view' = view /\ Unplaced' \subseteq Unplaced /\ Unplaced' # Unplaced
        \/ view' = view /\ Unplaced' = Unplaced /\ Len(stack') < Len(stack)

LEMMA ViewStepsCloser == GraphInv /\ GraphNext => ViewComesCloser
<1> SUFFICES ASSUME GraphInv, GraphNext, view # "none", view' # "none", UNCHANGED store
             PROVE  ViewComesCloser
  BY DEF ViewComesCloser
<1>0. GraphTypeOK
  BY DEF GraphInv
<1>1. CASE Expand
  <2>1. search.left \in Nat /\ search \in Subsearch
    BY <1>0, GraphAssumption DEF GraphTypeOK, Subsearch
  <2>2. view' = view /\ search'.left = search.left - 1
    BY <1>1, <2>1 DEF Expand, Subsearch
  <2>3. search'.left < search.left
    BY ONLY <2>1, <2>2
  <2> QED
    BY <2>2, <2>3 DEF ViewComesCloser
<1>2. CASE ReadPairs
  BY <1>2 DEF ReadPairs, ViewComesCloser
<1>3. ASSUME NEW a \in Articles, AttachTop(a) \/ AttachChild(a) PROVE ViewComesCloser
  <2>1. /\ a \in Unplaced /\ view' = view /\ visited' = visited
        /\ \E p : p # "absent" /\ under' = [under EXCEPT ![a] = p]
    <3>1. stack # <<>> => Head(stack) \in Articles
      BY <1>0 DEF GraphTypeOK
    <3>2. "absent" \notin Articles
      BY GraphAssumption
    <3> QED
      BY <1>3, <3>1, <3>2 DEF AttachTop, AttachChild, NextTop
  <2>2. Unplaced' = Unplaced \ {a}
    BY <1>0, <2>1 DEF Unplaced, Placed, GraphTypeOK
  <2> QED
    BY <2>1, <2>2 DEF ViewComesCloser
<1>4. CASE Attached
  <2>1. view' = view /\ stack \in Seq(Articles) /\ stack # <<>> /\ stack' = Tail(stack)
    BY <1>0, <1>4 DEF Attached, GraphTypeOK
  <2>2. Len(stack') < Len(stack)
    BY <2>1
  <2>3. Unplaced' = Unplaced
    BY <1>4 DEF Attached, Unplaced, Placed
  <2> QED
    BY <2>1, <2>2, <2>3 DEF ViewComesCloser
<1>5. ASSUME NEW a \in Articles, AddArticle(a) PROVE FALSE
  BY <1>5 DEF AddArticle, store
<1>6. ASSUME NEW a \in Articles, NEW b \in Articles, NEW t \in WikiTypes, AddLink(a, b, t)
      PROVE  FALSE
  BY <1>6 DEF AddLink, store
<1>7. ~EndView /\ ~BeginTree
      /\ \A r \in Articles, d \in -1..(MaxDepth + 1), types \in SUBSET WikiTypes :
             ~BeginSubgraph(r, d, types)
  BY DEF EndView, BeginTree, BeginSubgraph
<1> QED
  BY <1>1, <1>2, <1>3, <1>4, <1>5, <1>6, <1>7 DEF GraphNext, ViewStep

\* build_subgraph and build_tree: unless a job writes, each step of a view leaves it less
\* to do, by an order that has no endless descent: no cycle of links can hold it, for
\* every set of links.
THEOREM ViewsGetShorter == GraphSpec => [][ViewComesCloser]_graphVars
<1>1. GraphInv /\ [GraphNext]_graphVars => [ViewComesCloser]_graphVars
  BY ViewStepsCloser
<1> QED
  BY <1>1, GraphHolds, PTL DEF GraphSpec
=============================================================================
