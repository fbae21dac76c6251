----------------------------- MODULE JobsProofs -----------------------------
(***************************************************************************)
(* Theorems about Jobs for any number of jobs, domains and worker          *)
(* processes and any times that satisfy TimeoutAssumption.                 *)
(*                                                                         *)
(* A run that is inside a key's body has the key, which is no older than   *)
(* the run (LockInv); so it does not expire before arq stops the run, and  *)
(* nobody else sets or deletes it. The run that wrote failed or cancelled  *)
(* has landed nothing, and one that can still land finds neither in its    *)
(* row, unless a reconciliation put it there (OutcomeInv). A run that      *)
(* began after a cancel was requested has written nothing where it is past *)
(* its first poll (DoomInv), and the first delivery of an entry finds no   *)
(* verdict (VerdictInv). With that, every step is one of DomainWork or a   *)
(* stutter.                                                                *)
(***************************************************************************)
EXTENDS Jobs, TLAPS

\* A loop over items has one left where it is about to take it.
LoopInv ==
    \A j \in Jobs : \/ pc[j] = "work"
                    \/ pc[j] = "poll" /\ ~PollsAfterWork(j)
                    => todo[j] # 0

\* Where a run has not committed its data yet.
Unlanded == PCs \ {"idle", "finish", "release", "exit"}

\* A live run has taken its entry, and every run lands at most once.
TriesInv ==
    \A j \in Jobs : /\ msg[j] # "none" => status[j] # "none"
                    /\ pc[j] # "idle" => msg[j] = "taken"
                    /\ landed[j] <= tries[j]
                    /\ pc[j] \in Unlanded => landed[j] < tries[j]

TypeInv == TypeOK /\ LoopInv /\ TriesInv

\* What Items, AfterLoop and LoopStart return.
LEMMA LoopShape ==
    ASSUME NEW j \in Jobs, NEW n \in Items(j)
    PROVE  /\ n \in Nat
           /\ AfterLoop(j) \in {"leave", "finish", "commit"}
           /\ LoopStart(j, n) \in {"poll", "work", "leave", "finish", "commit"}
           /\ LoopStart(j, n) \in {"poll", "work"} => n # 0
BY JobsAssumption DEF Items, AfterLoop, LoopStart

\* What follows a run's loop is leaving the lock, the status or the commit.
LEMMA AfterLoopShape ==
    ASSUME NEW j \in Jobs
    PROVE  AfterLoop(j) \in {"leave", "finish", "commit"}
BY DEF AfterLoop

\* The initial state is well typed.
LEMMA TypeInit == Init => TypeInv
BY JobsAssumption DEF Init, TypeInv, TypeOK, LoopInv, TriesInv, Unlanded, Statuses,
   MsgStates, PCs, Keys

\* Every step keeps the types.
LEMMA TypeNext == TypeInv /\ [Next]_vars => TypeInv'
<1> SUFFICES ASSUME TypeInv, [Next]_vars PROVE TypeInv'
  OBVIOUS
<1> USE JobsAssumption DEF TypeInv, TypeOK, LoopInv, TriesInv, Unlanded, rowVars,
      arqVars, runVars, lockVars, ghostVars, Statuses, MsgStates, PCs, Terminal
<1>1. ASSUME NEW j \in Jobs, CreateJob(j) PROVE TypeInv'
  BY <1>1 DEF CreateJob, SetStatus
<1>2. ASSUME NEW j \in Jobs, Enqueue(j) PROVE TypeInv'
  BY <1>2 DEF Enqueue
<1>3. ASSUME NEW j \in Jobs, RequestCancel(j) PROVE TypeInv'
  BY <1>3 DEF RequestCancel
<1>4. ASSUME NEW j \in Jobs, GiveUp(j) PROVE TypeInv'
  BY <1>4 DEF GiveUp
<1>5. ASSUME NEW j \in Jobs, Timeout(j) PROVE TypeInv'
  BY <1>5 DEF Timeout, Interrupt, EndRuns, Live
<1>6. ASSUME NEW j \in Jobs, TakeDomain(j) PROVE TypeInv'
  <2>1. /\ held' \in [Keys -> BOOLEAN] /\ lockAge' \in [Keys -> Nat]
        /\ pc[j] = "start" /\ pc' = [pc EXCEPT ![j] = "begin"]
        /\ UNCHANGED <<rowVars, arqVars, runOn, runAge, todo, staged, doomed, ghostVars, up>>
    BY <1>6 DEF TakeDomain, Acquire, Goto
  <2>2. pc' \in [Jobs -> PCs]
    BY <2>1
  <2>3. TypeOK' /\ TriesInv'
    BY <2>1, <2>2
  <2>4. LoopInv'
    BY <2>1
  <2> QED
    BY <2>3, <2>4
<1>7. ASSUME NEW j \in Jobs, DomainBusy(j) PROVE TypeInv'
  BY <1>7 DEF DomainBusy, SetStatus, Goto
<1>8. ASSUME NEW j \in Jobs, Begin(j) PROVE TypeInv'
  BY <1>8 DEF Begin, SetStatus, Beat, Goto
<1>9. ASSUME NEW j \in Jobs, LoadTrace(j) PROVE TypeInv'
  BY <1>9 DEF LoadTrace, Goto
<1>10. ASSUME NEW j \in Jobs, TraceFails(j) PROVE TypeInv'
  BY <1>10 DEF TraceFails, Delete, Goto
<1>11. ASSUME NEW j \in Jobs, EnterLoop(j) PROVE TypeInv'
  <2>1. PICK n \in Items(j) : /\ todo' = [todo EXCEPT ![j] = n]
                              /\ pc' = [pc EXCEPT ![j] = LoopStart(j, n)]
    BY <1>11 DEF EnterLoop, Goto
  <2> DEFINE l == LoopStart(j, n)
  <2>2. /\ n \in Nat
        /\ l \in {"poll", "work", "leave", "finish", "commit"}
        /\ l \in {"poll", "work"} => n # 0
    BY LoopShape
  <2>3. /\ pc' = [pc EXCEPT ![j] = l]
        /\ pc[j] \in {"setup", "model"}
        /\ staged' \in [Jobs -> BOOLEAN]
        /\ held' \in [Keys -> BOOLEAN] /\ lockAge' \in [Keys -> Nat]
        /\ UNCHANGED <<rowVars, arqVars, runOn, runAge, doomed, ghostVars, up>>
    BY <1>11, <2>1 DEF EnterLoop, WritesData
  <2> HIDE DEF l
  <2>4. TypeOK'
    <3>1. todo' \in [Jobs -> Nat] /\ pc' \in [Jobs -> PCs]
      BY <2>1, <2>2, <2>3
    <3> QED
      BY <2>3, <3>1
  <2>5. LoopInv'
    BY <2>1, <2>2, <2>3
  <2>6. TriesInv'
    BY <2>2, <2>3
  <2> QED
    BY <2>4, <2>5, <2>6
<1>12. ASSUME NEW j \in Jobs, Setup(j) PROVE TypeInv'
  BY <1>12 DEF Setup, Goto
<1>13. ASSUME NEW j \in Jobs, TakeVision(j) PROVE TypeInv'
  <2>1. /\ held' \in [Keys -> BOOLEAN] /\ lockAge' \in [Keys -> Nat]
        /\ pc[j] = "vision" /\ pc' = [pc EXCEPT ![j] = "ocr"]
        /\ UNCHANGED <<rowVars, arqVars, runOn, runAge, todo, staged, doomed, ghostVars, up>>
    BY <1>13 DEF TakeVision, Acquire, Goto
  <2>2. pc' \in [Jobs -> PCs]
    BY <2>1
  <2>3. TypeOK' /\ TriesInv'
    BY <2>1, <2>2
  <2>4. LoopInv'
    BY <2>1
  <2> QED
    BY <2>3, <2>4
<1>14. ASSUME NEW j \in Jobs, Describe(j) PROVE TypeInv'
  BY <1>14 DEF Describe, Delete, Goto
<1>15. ASSUME NEW j \in Jobs, TakeModel(j) PROVE TypeInv'
  <2>1. PICK n \in Items(j) : /\ todo' = [todo EXCEPT ![j] = n]
                              /\ pc' = [pc EXCEPT ![j] = LoopStart(j, n)]
    BY <1>15 DEF TakeModel, Goto
  <2> DEFINE l == LoopStart(j, n)
  <2>2. /\ n \in Nat
        /\ l \in {"poll", "work", "leave", "finish", "commit"}
        /\ l \in {"poll", "work"} => n # 0
    BY LoopShape
  <2>3. /\ pc' = [pc EXCEPT ![j] = l]
        /\ pc[j] \in {"setup", "model"}
        /\ staged' \in [Jobs -> BOOLEAN]
        /\ held' \in [Keys -> BOOLEAN] /\ lockAge' \in [Keys -> Nat]
        /\ UNCHANGED <<rowVars, arqVars, runOn, runAge, doomed, ghostVars, up>>
    BY <1>15, <2>1 DEF TakeModel, Acquire
  <2> HIDE DEF l
  <2>4. TypeOK'
    <3>1. todo' \in [Jobs -> Nat] /\ pc' \in [Jobs -> PCs]
      BY <2>1, <2>2, <2>3
    <3> QED
      BY <2>3, <3>1
  <2>5. LoopInv'
    BY <2>1, <2>2, <2>3
  <2>6. TriesInv'
    BY <2>2, <2>3
  <2> QED
    BY <2>4, <2>5, <2>6
<1>16. ASSUME NEW j \in Jobs, ModelLockTimeout(j) PROVE TypeInv'
  BY <1>16 DEF ModelLockTimeout, Goto
<1>17. ASSUME NEW j \in Jobs, PollCancelled(j) PROVE TypeInv'
  BY <1>17 DEF PollCancelled, Delete, Goto
<1>18. ASSUME NEW j \in Jobs, PollClear(j) PROVE TypeInv'
  BY <1>18 DEF PollClear, Beat, Goto, AfterLoop
<1>19. ASSUME NEW j \in Jobs, Work(j) PROVE TypeInv'
  <2> DEFINE l == IF todo[j] = 1 /\ ~PollsAfterWork(j) THEN AfterLoop(j) ELSE "poll"
  <2>1. /\ l \in {"poll", "leave", "finish", "commit"}
        /\ l = "poll" /\ ~PollsAfterWork(j) => todo[j] # 1
    BY AfterLoopShape
  <2>2. /\ todo[j] # 0
        /\ pc' = [pc EXCEPT ![j] = l]
        /\ todo' = [todo EXCEPT ![j] = @ - 1]
        /\ hbAge' \in [Jobs -> 0..StaleAfter]
        /\ staged' \in [Jobs -> BOOLEAN]
    BY <1>19 DEF Work, Goto, Beat, WritesData
  <2> HIDE DEF l
  <2>3. /\ pc[j] = "work"
        /\ UNCHANGED <<status, cancelReq, arqVars, runOn, runAge, doomed, lockVars, ghostVars, up>>
    BY <1>19 DEF Work
  <2>4. todo' \in [Jobs -> Nat] /\ pc' \in [Jobs -> PCs]
    <3>1. todo \in [Jobs -> Nat] /\ pc \in [Jobs -> PCs]
      OBVIOUS
    <3>a. todo[j] - 1 \in Nat
      <4> HIDE JobsAssumption DEF TypeInv, TypeOK, LoopInv, TriesInv
      <4>1. todo[j] \in Nat
        BY <3>1
      <4> QED
        BY <2>2, <4>1
    <3>2. l \in PCs
      BY <2>1
    <3> QED
      BY ONLY <2>2, <3>1, <3>a, <3>2
  <2>5. TypeOK' /\ TriesInv'
    BY <2>1, <2>2, <2>3, <2>4
  <2>6. LoopInv'
    BY <2>1, <2>2
  <2> QED
    BY <2>5, <2>6
<1>20. ASSUME NEW j \in Jobs, Raise(j) PROVE TypeInv'
  BY <1>20 DEF Raise, Delete, Goto
<1>21. ASSUME NEW j \in Jobs, LeaveModel(j) PROVE TypeInv'
  BY <1>21 DEF LeaveModel, Delete, Goto
<1>22. ASSUME NEW j \in Jobs, CommitData(j) PROVE TypeInv'
  BY <1>22 DEF CommitData, Goto
<1>23. ASSUME NEW j \in Jobs, Succeed(j) PROVE TypeInv'
  BY <1>23 DEF Succeed, SetStatus, Goto
<1>24. ASSUME NEW j \in Jobs, Abort(j) PROVE TypeInv'
  BY <1>24 DEF Abort, SetStatus, Goto
<1>25. ASSUME NEW j \in Jobs, ReleaseDomain(j) PROVE TypeInv'
  BY <1>25 DEF ReleaseDomain, Delete, Goto
<1>26. ASSUME NEW j \in Jobs, FinishEntry(j) PROVE TypeInv'
  BY <1>26 DEF FinishEntry, EndRuns
<1>27. ASSUME NEW j \in Jobs, NEW w \in Workers, Deliver(j, w) PROVE TypeInv'
  BY <1>27 DEF Deliver, Goto
<1>28. ASSUME NEW w \in Workers, Startup(w) PROVE TypeInv'
  BY <1>28 DEF Startup, Stuck
<1>29. ASSUME NEW w \in Workers, Shutdown(w) PROVE TypeInv'
  BY <1>29 DEF Shutdown, Interrupt, EndRuns, Requeue, RunsOn, Live
<1>30. ASSUME NEW w \in Workers, Crash(w) PROVE TypeInv'
  BY <1>30 DEF Crash, EndRuns, Requeue, RunsOn, Live
<1>31. ASSUME Tick PROVE TypeInv'
  BY <1>31 DEF Tick, Live
<1>32. CASE UNCHANGED vars
  BY <1>32 DEF vars
<1> QED
  BY <1>1, <1>2, <1>3, <1>4, <1>5, <1>6, <1>7, <1>8, <1>9, <1>10, <1>11, <1>12, <1>13, <1>14, <1>15, <1>16, <1>17, <1>18, <1>19, <1>20, <1>21, <1>22, <1>23, <1>24, <1>25, <1>26, <1>27, <1>28, <1>29, <1>30, <1>31, <1>32 DEF Next, JobStep, RunStep

-----------------------------------------------------------------------------
(* The locks *)

\* A run inside a key's body has the key, which is no older than the run;
\* and no two runs are inside the same one.
AgeInv == \A j \in Jobs : \A k \in HeldKeys(j) : lockAge[k] <= runAge[j]
LockInv == HolderHasKey /\ AgeInv /\ KeyExclusion

\* What a run holds are keys, and its DELETE is of one of them.
LEMMA HeldKeysShape ==
    ASSUME NEW j \in Jobs
    PROVE  HeldKeys(j) \subseteq Keys /\ Dropping(j) \subseteq HeldKeys(j)
BY JobsAssumption DEF HeldKeys, DomainKeys, ChatKeys, VisionKeys, Dropping, Keys, Models,
   InDomainLock, PCs

\* What a run holds depends on its own program counter only.
LEMMA HeldKeysLocal ==
    ASSUME NEW i \in Jobs, pc'[i] = pc[i]
    PROVE  HeldKeys(i)' = HeldKeys(i)
BY DEF HeldKeys, DomainKeys, ChatKeys, VisionKeys

\* A step of one run keeps LockInv if the run has what it then holds and
\* touches nobody else's key.
LEMMA OneRunStep ==
    ASSUME LockInv, NEW j \in Jobs,
           \A i \in Jobs \ {j} : pc'[i] = pc[i] /\ runAge'[i] = runAge[i],
           \A k \in HeldKeys(j)' : held'[k] /\ lockAge'[k] <= runAge'[j],
           \A i \in Jobs \ {j} : \A k \in HeldKeys(i) :
               held'[k] /\ lockAge'[k] = lockAge[k] /\ k \notin HeldKeys(j)'
    PROVE  LockInv'
<1>1. \A i \in Jobs \ {j} : HeldKeys(i)' = HeldKeys(i)
  BY HeldKeysLocal
<1>2. HolderHasKey' /\ AgeInv'
  BY <1>1 DEF LockInv, HolderHasKey, AgeInv
<1>3. KeyExclusion'
  BY <1>1 DEF LockInv, KeyExclusion
<1> QED
  BY <1>2, <1>3 DEF LockInv

\* A step of run j that sets and deletes no key keeps LockInv.
LEMMA KeepKeys ==
    ASSUME LockInv, NEW j \in Jobs,
           \A i \in Jobs \ {j} : pc'[i] = pc[i], runAge' = runAge,
           UNCHANGED lockVars, HeldKeys(j)' \subseteq HeldKeys(j)
    PROVE  LockInv'
BY OneRunStep DEF LockInv, HolderHasKey, AgeInv, KeyExclusion, lockVars

\* A SET NX that succeeds gives run j one more key, and nobody else had it.
LEMMA TakeKey ==
    ASSUME TypeOK, LockInv, NEW j \in Jobs, NEW k \in Keys,
           \A i \in Jobs \ {j} : pc'[i] = pc[i], runAge' = runAge,
           Acquire(k), HeldKeys(j)' \subseteq HeldKeys(j) \cup {k}
    PROVE  LockInv'
<1>1. held' = [held EXCEPT ![k] = TRUE] /\ lockAge' = [lockAge EXCEPT ![k] = 0]
  BY DEF Acquire
<1>2. \A i \in Jobs : \A h \in HeldKeys(i) : h \in Keys /\ h # k /\ held[h]
  BY HeldKeysShape DEF Acquire, LockInv, HolderHasKey
<1>3. held \in [Keys -> BOOLEAN] /\ lockAge \in [Keys -> Nat] /\ runAge[j] \in Nat
  BY JobsAssumption DEF TypeOK
<1>4. \A h \in HeldKeys(j)' : held'[h] /\ lockAge'[h] <= runAge'[j]
  BY <1>1, <1>2, <1>3 DEF LockInv, AgeInv
<1>5. \A i \in Jobs \ {j} : \A h \in HeldKeys(i) :
          held'[h] /\ lockAge'[h] = lockAge[h] /\ h \notin HeldKeys(j)'
  BY <1>1, <1>2, <1>3 DEF LockInv, KeyExclusion
<1> QED
  BY <1>4, <1>5, OneRunStep

\* A DELETE of keys that run j holds keeps LockInv.
LEMMA DropKeys ==
    ASSUME LockInv, NEW j \in Jobs, NEW S,
           \A i \in Jobs \ {j} : pc'[i] = pc[i], runAge' = runAge,
           S \subseteq HeldKeys(j), Delete(S),
           HeldKeys(j)' \subseteq HeldKeys(j) \ S
    PROVE  LockInv'
<1>1. ASSUME NEW i \in Jobs, NEW k \in HeldKeys(i) \ S
      PROVE  held'[k] /\ lockAge'[k] = lockAge[k]
  <2>1. k \in Keys /\ held[k]
    BY HeldKeysShape DEF LockInv, HolderHasKey
  <2>2. held'[k] <=> held[k] /\ k \notin S
    BY <2>1 DEF Delete
  <2>3. lockAge'[k] = lockAge[k]
    BY <2>1 DEF Delete
  <2> QED
    BY <2>1, <2>2, <2>3
<1>2. \A i \in Jobs \ {j} : HeldKeys(i) \cap HeldKeys(j) = {}
  BY DEF LockInv, KeyExclusion
<1>3. \A k \in HeldKeys(j)' : held'[k] /\ lockAge'[k] <= runAge'[j]
  BY <1>1 DEF LockInv, AgeInv
<1>4. \A i \in Jobs \ {j} : \A k \in HeldKeys(i) :
          held'[k] /\ lockAge'[k] = lockAge[k] /\ k \notin HeldKeys(j)'
  BY <1>1, <1>2
<1> QED
  BY <1>3, <1>4, OneRunStep

\* Runs end: the others' keys are where they were.
LEMMA RunsEnd ==
    ASSUME LockInv, NEW S \in SUBSET Jobs, EndRuns(S),
           \A i \in Jobs \ S : \A k \in HeldKeys(i) :
               held'[k] /\ lockAge'[k] = lockAge[k]
    PROVE  LockInv'
<1>1. \A i \in Jobs \ S : pc'[i] = pc[i] /\ runAge'[i] = runAge[i]
  BY DEF EndRuns
<1>2. \A i \in Jobs \ S : HeldKeys(i)' = HeldKeys(i)
  BY <1>1, HeldKeysLocal
<1>3. \A i \in S : pc'[i] = "idle"
  BY DEF EndRuns
<1>4. \A i \in S : HeldKeys(i)' = {}
  BY <1>3 DEF HeldKeys, DomainKeys, ChatKeys, VisionKeys, InDomainLock, InModelLock
<1>5. HolderHasKey' /\ AgeInv'
  BY <1>1, <1>2, <1>4 DEF LockInv, HolderHasKey, AgeInv
<1>6. KeyExclusion'
  BY <1>2, <1>4 DEF LockInv, KeyExclusion
<1> QED
  BY <1>5, <1>6 DEF LockInv

\* Cancelled runs delete their own keys only, and a SET in flight can only
\* have created a key that nobody held.
LEMMA InterruptKeeps ==
    ASSUME LockInv, NEW S \in SUBSET Jobs, Interrupt(S)
    PROVE  LockInv'
<1> DEFINE released == UNION {HeldKeys(j) : j \in S}
           unsure   == {k \in UNION {Wanted(j) : j \in S} : ~held[k] \/ k \in released}
           kept     == UNION {Dropping(j) : j \in S}
<1>1. PICK stay \in SUBSET (unsure \cup kept) :
        /\ held' = [k \in Keys |-> k \in stay \/ (held[k] /\ k \notin released)]
        /\ lockAge' = [k \in Keys |->
                 IF k \in stay \cup released
                    THEN IF k \in stay \cap kept THEN lockAge[k] ELSE 0
                    ELSE lockAge[k]]
  BY DEF Interrupt
<1>2. ASSUME NEW i \in Jobs \ S, NEW k \in HeldKeys(i)
      PROVE  held'[k] /\ lockAge'[k] = lockAge[k]
  <2>1. k \in Keys /\ held[k]
    BY HeldKeysShape DEF LockInv, HolderHasKey
  <2>2. k \notin released
    BY DEF LockInv, KeyExclusion
  <2>3. k \notin kept
    BY <2>2, HeldKeysShape
  <2>4. k \notin stay
    BY <2>1, <2>2, <2>3
  <2> QED
    BY <1>1, <2>1, <2>2, <2>4
<1>3. EndRuns(S)
  BY DEF Interrupt
<1> QED
  BY <1>2, <1>3, RunsEnd

\* Initially nobody holds a key.
LEMMA LockInit == Init => LockInv
BY DEF Init, LockInv, HolderHasKey, AgeInv, KeyExclusion, HeldKeys, DomainKeys,
   ChatKeys, VisionKeys, InDomainLock, InModelLock

\* Every step keeps LockInv.
LEMMA LockNext == TypeInv /\ LockInv /\ [Next]_vars => LockInv'
<1> SUFFICES ASSUME TypeInv, LockInv, [Next]_vars PROVE LockInv'
  OBVIOUS
<1> USE DEF rowVars, arqVars, runVars, lockVars, ghostVars
<1>0. TypeOK
  BY DEF TypeInv
<1>a. pc \in [Jobs -> PCs] /\ runAge \in [Jobs -> 0..JobTimeout] /\ lockAge \in [Keys -> Nat]
  BY <1>0 DEF TypeOK
<1>1. ASSUME NEW j \in Jobs, CreateJob(j) PROVE LockInv'
  BY <1>1, KeepKeys, HeldKeysLocal DEF CreateJob
<1>2. ASSUME NEW j \in Jobs, Enqueue(j) PROVE LockInv'
  BY <1>2, KeepKeys, HeldKeysLocal DEF Enqueue
<1>3. ASSUME NEW j \in Jobs, RequestCancel(j) PROVE LockInv'
  BY <1>3, KeepKeys, HeldKeysLocal DEF RequestCancel
<1>4. ASSUME NEW j \in Jobs, GiveUp(j) PROVE LockInv'
  BY <1>4, KeepKeys, HeldKeysLocal DEF GiveUp
<1>5. ASSUME NEW j \in Jobs, Timeout(j) PROVE LockInv'
  BY <1>5, InterruptKeeps DEF Timeout
<1>6. ASSUME NEW j \in Jobs, DomainBusy(j) PROVE LockInv'
  <2>1. HeldKeys(j)' \subseteq HeldKeys(j)
    BY <1>a, <1>6 DEF DomainBusy, Goto, HeldKeys, DomainKeys, ChatKeys, VisionKeys, InDomainLock,
       InModelLock, PCs
  <2> QED
    BY <1>a, <1>6, <2>1, KeepKeys DEF DomainBusy, Goto
<1>7. ASSUME NEW j \in Jobs, Begin(j) PROVE LockInv'
  <2>1. HeldKeys(j)' \subseteq HeldKeys(j)
    BY <1>a, <1>7 DEF Begin, Goto, HeldKeys, DomainKeys, ChatKeys, VisionKeys, InDomainLock,
       InModelLock, PCs
  <2> QED
    BY <1>a, <1>7, <2>1, KeepKeys DEF Begin, Goto
<1>8. ASSUME NEW j \in Jobs, LoadTrace(j) PROVE LockInv'
  <2>1. HeldKeys(j)' \subseteq HeldKeys(j)
    BY <1>a, <1>8 DEF LoadTrace, Goto, HeldKeys, DomainKeys, ChatKeys, VisionKeys, InDomainLock,
       InModelLock, PCs
  <2> QED
    BY <1>a, <1>8, <2>1, KeepKeys DEF LoadTrace, Goto
<1>9. ASSUME NEW j \in Jobs, Setup(j) PROVE LockInv'
  <2>1. HeldKeys(j)' \subseteq HeldKeys(j)
    BY <1>a, <1>9 DEF Setup, Goto, HeldKeys, DomainKeys, ChatKeys, VisionKeys, InDomainLock,
       InModelLock, PCs
  <2> QED
    BY <1>a, <1>9, <2>1, KeepKeys DEF Setup, Goto
<1>10. ASSUME NEW j \in Jobs, ModelLockTimeout(j) PROVE LockInv'
  <2>1. HeldKeys(j)' \subseteq HeldKeys(j)
    BY <1>a, <1>10 DEF ModelLockTimeout, Goto, HeldKeys, DomainKeys, ChatKeys, VisionKeys, InDomainLock,
       InModelLock, PCs
  <2> QED
    BY <1>a, <1>10, <2>1, KeepKeys DEF ModelLockTimeout, Goto
<1>11. ASSUME NEW j \in Jobs, PollClear(j) PROVE LockInv'
  <2>1. HeldKeys(j)' \subseteq HeldKeys(j)
    BY <1>a, <1>11, AfterLoopShape DEF PollClear, Goto, HeldKeys, DomainKeys, ChatKeys, VisionKeys, InDomainLock,
       InModelLock, PCs, AfterLoop, PollsAfterWork, UsesModel
  <2> QED
    BY <1>a, <1>11, <2>1, KeepKeys DEF PollClear, Goto
<1>12. ASSUME NEW j \in Jobs, Work(j) PROVE LockInv'
  <2>1. HeldKeys(j)' \subseteq HeldKeys(j)
    BY <1>a, <1>12, AfterLoopShape DEF Work, Goto, HeldKeys, DomainKeys, ChatKeys, VisionKeys, InDomainLock,
       InModelLock, PCs, AfterLoop, PollsAfterWork, UsesModel
  <2> QED
    BY <1>a, <1>12, <2>1, KeepKeys DEF Work, Goto
<1>13. ASSUME NEW j \in Jobs, CommitData(j) PROVE LockInv'
  <2>1. HeldKeys(j)' \subseteq HeldKeys(j)
    BY <1>a, <1>13 DEF CommitData, Goto, HeldKeys, DomainKeys, ChatKeys, VisionKeys, InDomainLock,
       InModelLock, PCs
  <2> QED
    BY <1>a, <1>13, <2>1, KeepKeys DEF CommitData, Goto
<1>14. ASSUME NEW j \in Jobs, Succeed(j) PROVE LockInv'
  <2>1. HeldKeys(j)' \subseteq HeldKeys(j)
    BY <1>a, <1>14 DEF Succeed, Goto, HeldKeys, DomainKeys, ChatKeys, VisionKeys, InDomainLock,
       InModelLock, PCs
  <2> QED
    BY <1>a, <1>14, <2>1, KeepKeys DEF Succeed, Goto
<1>15. ASSUME NEW j \in Jobs, Abort(j) PROVE LockInv'
  <2>1. HeldKeys(j)' \subseteq HeldKeys(j)
    BY <1>a, <1>15 DEF Abort, Goto, HeldKeys, DomainKeys, ChatKeys, VisionKeys, InDomainLock,
       InModelLock, PCs
  <2> QED
    BY <1>a, <1>15, <2>1, KeepKeys DEF Abort, Goto
<1>16. ASSUME NEW j \in Jobs, EnterLoop(j) PROVE LockInv'
  <2>1. PICK n \in Items(j) : pc' = [pc EXCEPT ![j] = LoopStart(j, n)]
    BY <1>16 DEF EnterLoop, Goto
  <2>2. LoopStart(j, n) \in PCs \ {"idle", "start", "exit", "ocr"}
    BY LoopShape DEF PCs
  <2>3. HeldKeys(j)' \subseteq HeldKeys(j)
    BY <1>a, <1>16, <2>1, <2>2 DEF EnterLoop, HeldKeys, DomainKeys, ChatKeys, VisionKeys, InDomainLock,
       InModelLock, PCs
  <2> QED
    BY <1>a, <1>16, <2>1, <2>3, KeepKeys DEF EnterLoop
<1>17. ASSUME NEW j \in Jobs, TakeDomain(j) PROVE LockInv'
  <2>1. HeldKeys(j)' \subseteq HeldKeys(j) \cup {DomainOf[j]}
    BY <1>a, <1>17 DEF TakeDomain, Goto, HeldKeys, DomainKeys, ChatKeys, VisionKeys, InDomainLock,
       InModelLock, PCs
  <2>2. DomainOf[j] \in Keys
    BY JobsAssumption DEF Keys, Models
  <2> QED
    BY <1>0, <1>a, <1>17, <2>1, <2>2, TakeKey DEF TakeDomain, Goto
<1>18. ASSUME NEW j \in Jobs, TakeVision(j) PROVE LockInv'
  <2>1. HeldKeys(j)' \subseteq HeldKeys(j) \cup {VisionModel}
    BY <1>a, <1>18 DEF TakeVision, Goto, HeldKeys, DomainKeys, ChatKeys, VisionKeys, InDomainLock,
       InModelLock, PCs
  <2>2. VisionModel \in Keys
    BY JobsAssumption DEF Keys, Models
  <2> QED
    BY <1>0, <1>a, <1>18, <2>1, <2>2, TakeKey DEF TakeVision, Goto
<1>19. ASSUME NEW j \in Jobs, TakeModel(j) PROVE LockInv'
  <2>1. PICK n \in Items(j) : pc' = [pc EXCEPT ![j] = LoopStart(j, n)]
    BY <1>19 DEF TakeModel, Goto
  <2>2. LoopStart(j, n) \in PCs \ {"idle", "start", "exit", "ocr"}
    BY LoopShape DEF PCs
  <2>3. HeldKeys(j)' \subseteq HeldKeys(j) \cup {ChatModel}
    BY <1>a, <1>19, <2>1, <2>2 DEF TakeModel, HeldKeys, DomainKeys, ChatKeys, VisionKeys, InDomainLock,
       InModelLock, PCs
  <2>4. ChatModel \in Keys
    BY DEF Keys, Models
  <2> QED
    BY <1>0, <1>a, <1>19, <2>1, <2>3, <2>4, TakeKey DEF TakeModel
<1>20. ASSUME NEW j \in Jobs, TraceFails(j) PROVE LockInv'
  <2>1. {DomainOf[j]} \subseteq HeldKeys(j)
    BY <1>a, <1>20 DEF TraceFails, HeldKeys, DomainKeys, ChatKeys, VisionKeys, InDomainLock, PCs
  <2>2. HeldKeys(j)' \subseteq HeldKeys(j) \ ({DomainOf[j]})
    BY JobsAssumption, <1>a, <1>20 DEF TraceFails, Goto, HeldKeys, DomainKeys, ChatKeys, VisionKeys,
       InDomainLock, InModelLock, PCs, Models
  <2> QED
    BY <1>a, <1>20, <2>1, <2>2, DropKeys DEF TraceFails, Goto
<1>21. ASSUME NEW j \in Jobs, ReleaseDomain(j) PROVE LockInv'
  <2>1. {DomainOf[j]} \subseteq HeldKeys(j)
    BY <1>a, <1>21 DEF ReleaseDomain, HeldKeys, DomainKeys, ChatKeys, VisionKeys, InDomainLock, PCs
  <2>2. HeldKeys(j)' \subseteq HeldKeys(j) \ ({DomainOf[j]})
    BY JobsAssumption, <1>a, <1>21 DEF ReleaseDomain, Goto, HeldKeys, DomainKeys, ChatKeys, VisionKeys,
       InDomainLock, InModelLock, PCs, Models
  <2> QED
    BY <1>a, <1>21, <2>1, <2>2, DropKeys DEF ReleaseDomain, Goto
<1>22. ASSUME NEW j \in Jobs, Describe(j) PROVE LockInv'
  <2>1. {VisionModel} \subseteq HeldKeys(j)
    BY <1>a, <1>22 DEF Describe, HeldKeys, DomainKeys, ChatKeys, VisionKeys, InDomainLock, PCs
  <2>2. HeldKeys(j)' \subseteq HeldKeys(j) \ ({VisionModel})
    BY JobsAssumption, <1>a, <1>22 DEF Describe, Goto, HeldKeys, DomainKeys, ChatKeys, VisionKeys,
       InDomainLock, InModelLock, PCs, Models
  <2> QED
    BY <1>a, <1>22, <2>1, <2>2, DropKeys DEF Describe, Goto
<1>23. ASSUME NEW j \in Jobs, PollCancelled(j) PROVE LockInv'
  <2>1. ChatKeys(j) \subseteq HeldKeys(j)
    BY <1>a, <1>23 DEF PollCancelled, HeldKeys, DomainKeys, ChatKeys, VisionKeys, InDomainLock, PCs
  <2>2. HeldKeys(j)' \subseteq HeldKeys(j) \ (ChatKeys(j))
    BY JobsAssumption, <1>a, <1>23 DEF PollCancelled, Goto, HeldKeys, DomainKeys, ChatKeys, VisionKeys,
       InDomainLock, InModelLock, PCs, Models
  <2> QED
    BY <1>a, <1>23, <2>1, <2>2, DropKeys DEF PollCancelled, Goto
<1>24. ASSUME NEW j \in Jobs, Raise(j) PROVE LockInv'
  <2>1. ChatKeys(j) \cup VisionKeys(j) \subseteq HeldKeys(j)
    BY <1>a, <1>24 DEF Raise, HeldKeys, DomainKeys, ChatKeys, VisionKeys, InDomainLock, PCs
  <2>2. HeldKeys(j)' \subseteq HeldKeys(j) \ (ChatKeys(j) \cup VisionKeys(j))
    BY JobsAssumption, <1>a, <1>24 DEF Raise, Goto, HeldKeys, DomainKeys, ChatKeys, VisionKeys,
       InDomainLock, InModelLock, PCs, Models
  <2> QED
    BY <1>a, <1>24, <2>1, <2>2, DropKeys DEF Raise, Goto
<1>25. ASSUME NEW j \in Jobs, LeaveModel(j) PROVE LockInv'
  <2>1. ChatKeys(j) \subseteq HeldKeys(j)
    BY <1>a, <1>25 DEF LeaveModel, HeldKeys, DomainKeys, ChatKeys, VisionKeys, InDomainLock, PCs
  <2>2. HeldKeys(j)' \subseteq HeldKeys(j) \ (ChatKeys(j))
    BY JobsAssumption, <1>a, <1>25 DEF LeaveModel, Goto, HeldKeys, DomainKeys, ChatKeys, VisionKeys,
       InDomainLock, InModelLock, PCs, Models
  <2> QED
    BY <1>a, <1>25, <2>1, <2>2, DropKeys DEF LeaveModel, Goto
<1>26. ASSUME NEW j \in Jobs, FinishEntry(j) PROVE LockInv'
  <2>1. \A i \in Jobs \ {j} : \A k \in HeldKeys(i) : held'[k] /\ lockAge'[k] = lockAge[k]
    BY <1>26 DEF FinishEntry, LockInv, HolderHasKey
  <2> QED
    BY <1>26, <2>1, RunsEnd DEF FinishEntry
<1>27. ASSUME NEW j \in Jobs, NEW w \in Workers, Deliver(j, w) PROVE LockInv'
  <2>1. HeldKeys(j)' = {}
    BY <1>a, <1>27 DEF Deliver, Goto, HeldKeys, DomainKeys, ChatKeys, VisionKeys, InDomainLock,
       InModelLock
  <2>2. \A i \in Jobs \ {j} : pc'[i] = pc[i] /\ runAge'[i] = runAge[i]
    BY <1>a, <1>27 DEF Deliver, Goto
  <2>3. \A i \in Jobs \ {j} : \A k \in HeldKeys(i) : held'[k] /\ lockAge'[k] = lockAge[k]
    BY <1>27 DEF Deliver, LockInv, HolderHasKey
  <2> QED
    BY <2>1, <2>2, <2>3, OneRunStep
<1>28. ASSUME NEW w \in Workers, Startup(w) PROVE LockInv'
  <2>1. \A j \in Jobs : HeldKeys(j)' = HeldKeys(j)
    BY <1>28, HeldKeysLocal DEF Startup
  <2> QED
    BY <1>28, <2>1 DEF Startup, LockInv, HolderHasKey, AgeInv, KeyExclusion
<1>29. ASSUME NEW w \in Workers, Shutdown(w) PROVE LockInv'
  BY <1>29, InterruptKeeps DEF Shutdown, RunsOn
<1>30. ASSUME NEW w \in Workers, Crash(w) PROVE LockInv'
  <2>1. \A i \in Jobs \ RunsOn(w) : \A k \in HeldKeys(i) : held'[k] /\ lockAge'[k] = lockAge[k]
    BY <1>30 DEF Crash, LockInv, HolderHasKey
  <2> QED
    BY <1>30, <2>1, RunsEnd DEF Crash, RunsOn
<1>31. ASSUME Tick PROVE LockInv'
  <2>1. ASSUME NEW j \in Jobs, NEW k \in HeldKeys(j)
        PROVE  held'[k] /\ lockAge'[k] <= runAge'[j]
    <3>1. k \in Keys /\ held[k] /\ lockAge[k] <= runAge[j] /\ Live(j)
      BY HeldKeysShape DEF LockInv, HolderHasKey, AgeInv, Live, HeldKeys, DomainKeys, ChatKeys,
         VisionKeys, InDomainLock, InModelLock
    <3>2. runAge[j] < JobTimeout /\ runAge'[j] = runAge[j] + 1
      BY <1>31, <3>1 DEF Tick
    <3>3. lockAge[k] + 1 < TTL(k)
      BY <1>a, <3>1, <3>2, TimeoutAssumption, JobsAssumption DEF TTL
    <3>4. held'[k] = (held[k] /\ lockAge[k] + 1 < TTL(k))
      BY <1>31, <3>1 DEF Tick
    <3>5. lockAge'[k] = lockAge[k] + 1
      BY <1>31, <3>1, <3>3 DEF Tick
    <3>6. held'[k]
      BY <3>1, <3>3, <3>4
    <3> QED
      BY <1>a, <3>1, <3>2, <3>5, <3>6
  <2>2. \A j \in Jobs : HeldKeys(j)' = HeldKeys(j)
    BY <1>31, HeldKeysLocal DEF Tick
  <2> QED
    BY <2>1, <2>2 DEF LockInv, HolderHasKey, AgeInv, KeyExclusion
<1>32. CASE UNCHANGED vars
  <2>1. \A j \in Jobs : HeldKeys(j)' = HeldKeys(j)
    BY <1>32, HeldKeysLocal DEF vars
  <2> QED
    BY <1>32, <2>1 DEF vars, LockInv, HolderHasKey, AgeInv, KeyExclusion
<1> QED
  BY <1>1, <1>2, <1>3, <1>4, <1>5, <1>6, <1>7, <1>8, <1>9, <1>10, <1>11,
     <1>12, <1>13, <1>14, <1>15, <1>16, <1>17, <1>18, <1>19, <1>20, <1>21,
     <1>22, <1>23, <1>24, <1>25, <1>26, <1>27, <1>28, <1>29, <1>30, <1>31,
     <1>32 DEF Next, JobStep, RunStep

-----------------------------------------------------------------------------
(* Verdict and data *)

\* Where a run has written running, and no verdict yet.
Attempting == PCs \ {"idle", "start", "begin", "release", "exit"}

\* The run that wrote failed or cancelled has landed nothing, and a run that
\* can land finds neither of them in the row, unless a reconciliation put it
\* there.  An ingest has written by the end of its loop.
Outcome(j) ==
    /\ \/ status[j] = "cancelled"
       \/ status[j] = "failed" /\ ~reconciled[j]
       => landed[j] < tries[j]
    /\ pc[j] \in Attempting =>
          status[j] = "running" \/ (status[j] = "failed" /\ reconciled[j])
    /\ Kind[j] = "ingest" =>
          /\ pc[j] \in {"leave", "commit"} => staged[j]
          /\ pc[j] = "finish" \/ status[j] = "succeeded" => landed[j] > 0

OutcomeInv == \A j \in Jobs : Outcome(j)

\* Initially there is no row and no run.
LEMMA OutcomeInit == Init => OutcomeInv
BY DEF Init, OutcomeInv, Outcome, Attempting

\* Every step keeps OutcomeInv.
LEMMA OutcomeNext == TypeInv /\ OutcomeInv /\ [Next]_vars => OutcomeInv'
<1> SUFFICES ASSUME TypeInv, OutcomeInv, [Next]_vars PROVE OutcomeInv'
  OBVIOUS
<1>0. TypeOK /\ TriesInv
  BY DEF TypeInv
<1> USE JobsAssumption, <1>0 DEF TypeOK, OutcomeInv, Outcome, Attempting, PCs, rowVars, arqVars,
      runVars, ghostVars
<1>1. ASSUME NEW j \in Jobs, CreateJob(j) \/ Enqueue(j) \/ RequestCancel(j) \/ GiveUp(j)
      PROVE  OutcomeInv'
  BY <1>1 DEF CreateJob, Enqueue, RequestCancel, GiveUp, SetStatus, TriesInv
<1>2. ASSUME NEW j \in Jobs, \E w \in Workers : Deliver(j, w)
      PROVE  OutcomeInv'
  BY <1>2 DEF Deliver, Goto
<1>3. ASSUME NEW S, EndRuns(S), UNCHANGED <<status, reconciled, landed, tries>>
      PROVE  OutcomeInv'
  BY <1>3 DEF EndRuns
<1>4. ASSUME NEW w \in Workers, Startup(w)
      PROVE  OutcomeInv'
  BY <1>4 DEF Startup, Stuck
<1>5. ASSUME NEW j \in Jobs, DomainBusy(j) \/ Abort(j)
      PROVE  OutcomeInv'
  BY <1>5 DEF DomainBusy, Abort, SetStatus, Goto, TriesInv, Unlanded
<1>6. ASSUME NEW j \in Jobs, Begin(j)
      PROVE  OutcomeInv'
  <2>1. PICK l \in {"trace", "setup"} : pc' = [pc EXCEPT ![j] = l]
    BY <1>6 DEF Begin, Goto
  <2>2. /\ status' = [status EXCEPT ![j] = "running"]
        /\ UNCHANGED <<reconciled, landed, tries, staged>>
    BY <1>6 DEF Begin, SetStatus
  <2>3. status'[j] = "running" /\ pc'[j] \in {"trace", "setup"}
    BY <2>1, <2>2
  <2>4. \A i \in Jobs : i # j => status'[i] = status[i] /\ pc'[i] = pc[i]
    BY <2>1, <2>2
  <2>5. Outcome(j)'
    BY <2>3
  <2>6. ASSUME NEW i \in Jobs, i # j PROVE Outcome(i)'
    BY <2>2, <2>4, <2>6
  <2> QED
    BY <2>5, <2>6
<1>7. ASSUME NEW j \in Jobs,
             \/ TakeDomain(j) \/ LoadTrace(j) \/ TraceFails(j) \/ Setup(j)
             \/ TakeVision(j) \/ Describe(j) \/ ModelLockTimeout(j)
             \/ PollCancelled(j) \/ Raise(j) \/ LeaveModel(j) \/ ReleaseDomain(j)
      PROVE  OutcomeInv'
  BY <1>7 DEF TakeDomain, LoadTrace, TraceFails, Setup, TakeVision, Describe,
       ModelLockTimeout, PollCancelled, Raise, LeaveModel, ReleaseDomain, Goto
<1>8. ASSUME NEW j \in Jobs, EnterLoop(j) \/ TakeModel(j)
      PROVE  OutcomeInv'
  <2>1. PICK n \in Items(j) : pc' = [pc EXCEPT ![j] = LoopStart(j, n)]
    BY <1>8 DEF EnterLoop, TakeModel, Goto
  <2> DEFINE l == LoopStart(j, n)
  <2>2. /\ l \in {"poll", "work", "leave", "finish", "commit"}
        /\ Kind[j] = "ingest" => l = "poll"
    BY LoopShape DEF Items, LoopStart, PollsAfterWork
  <2>3. /\ pc[j] \in {"setup", "model"} /\ pc' = [pc EXCEPT ![j] = l]
        /\ \A i \in Jobs : i # j => staged'[i] = staged[i]
        /\ UNCHANGED <<status, reconciled, landed, tries>>
    BY <1>8, <2>1 DEF EnterLoop, TakeModel
  <2> HIDE DEF l
  <2> QED
    BY <2>2, <2>3
<1>9. ASSUME NEW j \in Jobs, PollClear(j)
      PROVE  OutcomeInv'
  BY <1>9, AfterLoopShape DEF PollClear, Goto, PollsAfterWork
<1>10. ASSUME NEW j \in Jobs, Work(j)
       PROVE  OutcomeInv'
  <2> DEFINE l == IF todo[j] = 1 /\ ~PollsAfterWork(j) THEN AfterLoop(j) ELSE "poll"
  <2>1. /\ l \in {"poll", "leave", "finish", "commit"}
        /\ Kind[j] = "ingest" => l \in {"poll", "leave"}
    BY AfterLoopShape DEF AfterLoop, UsesModel
  <2>2. /\ pc[j] = "work" /\ pc' = [pc EXCEPT ![j] = l]
        /\ Kind[j] = "ingest" => staged'[j]
        /\ \A i \in Jobs : i # j => staged'[i] = staged[i]
        /\ UNCHANGED <<status, reconciled, landed, tries>>
    <3>1. PICK wrote \in BOOLEAN : /\ staged' = [staged EXCEPT ![j] = @ \/ wrote]
                                   /\ Kind[j] = "ingest" => wrote
      BY <1>10 DEF Work, WritesData
    <3>2. staged'[j] = (staged[j] \/ wrote)
      BY <3>1
    <3>3. \A i \in Jobs : i # j => staged'[i] = staged[i]
      BY <3>1
    <3> QED
      BY <1>10, <3>1, <3>2, <3>3 DEF Work, Goto
  <2> HIDE DEF l
  <2> QED
    BY <2>1, <2>2
<1>11. ASSUME NEW j \in Jobs, CommitData(j) \/ Succeed(j)
       PROVE  OutcomeInv'
  BY <1>11 DEF CommitData, Succeed, SetStatus, Goto
<1>12. ASSUME Tick \/ UNCHANGED vars
       PROVE  OutcomeInv'
  BY <1>12 DEF Tick, vars
<1>13. ASSUME NEW j \in Jobs, Timeout(j) \/ FinishEntry(j)
       PROVE  OutcomeInv'
  BY <1>3, <1>13 DEF Timeout, FinishEntry, Interrupt
<1>14. ASSUME NEW w \in Workers, Shutdown(w) \/ Crash(w)
       PROVE  OutcomeInv'
  BY <1>3, <1>14 DEF Shutdown, Crash, Interrupt
<1> QED
  BY <1>1, <1>2, <1>4, <1>5, <1>6, <1>7, <1>8, <1>9, <1>10, <1>11, <1>12, <1>13,
     <1>14 DEF Next, JobStep, RunStep

-----------------------------------------------------------------------------
(* A cancel that comes first, and verdicts that change *)

\* Where a run has written nothing yet.
Before == {"idle", "start", "begin", "trace", "setup", "vision", "ocr", "model"}

\* A run that began after a cancel was requested is stopped by its first poll, which
\* comes before the work unless the kind polls after it; without an item there is no
\* poll and, but for the graph, nothing written.
Doom(j) ==
    /\ pc[j] \in Before => ~staged[j]
    /\ doomed[j] => cancelReq[j]
    /\ doomed[j] /\ pc[j] = "work" => PollsAfterWork(j)
    /\ doomed[j] /\ pc[j] \in {"leave", "commit", "finish"} =>
          /\ staged[j] => Kind[j] = "graph_rebuild"
          /\ Kind[j] \notin {"ingest", "lint"}

DoomInv == \A j \in Jobs : Doom(j)

\* The first delivery finds no verdict.
VerdictInv ==
    \A j \in Jobs : /\ tries[j] = 0 => status[j] \in {"none", "queued"} /\ pc[j] = "idle"
                    /\ tries[j] = 1 /\ pc[j] \in {"start", "begin"} => status[j] = "queued"

\* Initially nothing is written, doomed or delivered.
LEMMA DoomInit == Init => DoomInv /\ VerdictInv
BY DEF Init, DoomInv, Doom, VerdictInv, Before

\* Every step keeps DoomInv.
LEMMA DoomNext == TypeInv /\ DoomInv /\ [Next]_vars => DoomInv'
<1> SUFFICES ASSUME TypeInv, DoomInv, [Next]_vars PROVE DoomInv'
  OBVIOUS
<1>0. TypeOK
  BY DEF TypeInv
<1> USE <1>0 DEF TypeOK, DoomInv, Doom, Before, PCs, rowVars, arqVars, runVars, ghostVars
<1>1. ASSUME NEW j \in Jobs, CreateJob(j) \/ Enqueue(j) \/ RequestCancel(j) \/ GiveUp(j)
      PROVE  DoomInv'
  BY <1>1 DEF CreateJob, Enqueue, RequestCancel, GiveUp
<1>2. ASSUME NEW j \in Jobs, \E w \in Workers : Deliver(j, w)
      PROVE  DoomInv'
  <2>1. pc[j] = "idle"
    BY <1>2 DEF Deliver, TypeInv, TriesInv
  <2> QED
    BY <1>2, <2>1 DEF Deliver, Goto
<1>3. ASSUME NEW S, EndRuns(S), cancelReq' = cancelReq
      PROVE  DoomInv'
  BY <1>3 DEF EndRuns
<1>4. ASSUME NEW w \in Workers, Startup(w)
      PROVE  DoomInv'
  BY <1>4 DEF Startup
<1>5. ASSUME NEW j \in Jobs, DomainBusy(j) \/ Abort(j) \/ Succeed(j) \/ CommitData(j)
      PROVE  DoomInv'
  BY <1>5 DEF DomainBusy, Abort, Succeed, CommitData, Goto
<1>6. ASSUME NEW j \in Jobs, Begin(j)
      PROVE  DoomInv'
  <2>1. PICK l \in {"trace", "setup"} : pc' = [pc EXCEPT ![j] = l]
    BY <1>6 DEF Begin, Goto
  <2>2. /\ doomed' = [doomed EXCEPT ![j] = cancelReq[j]]
        /\ UNCHANGED <<cancelReq, staged>> /\ pc[j] = "begin"
    BY <1>6 DEF Begin
  <2> QED
    BY <2>1, <2>2
<1>7. ASSUME NEW j \in Jobs,
             \/ TakeDomain(j) \/ LoadTrace(j) \/ TraceFails(j) \/ Setup(j)
             \/ TakeVision(j) \/ Describe(j) \/ ModelLockTimeout(j)
             \/ PollCancelled(j) \/ Raise(j) \/ LeaveModel(j) \/ ReleaseDomain(j)
      PROVE  DoomInv'
  BY <1>7 DEF TakeDomain, LoadTrace, TraceFails, Setup, TakeVision, Describe,
       ModelLockTimeout, PollCancelled, Raise, LeaveModel, ReleaseDomain, Goto
<1>8. ASSUME NEW j \in Jobs, EnterLoop(j) \/ TakeModel(j)
      PROVE  DoomInv'
  <2>1. PICK n \in Items(j) : pc' = [pc EXCEPT ![j] = LoopStart(j, n)]
    BY <1>8 DEF EnterLoop, TakeModel, Goto
  <2> DEFINE l == LoopStart(j, n)
  <2>2. /\ l \in {"poll", "work", "leave", "finish", "commit"}
        /\ l = "work" => PollsAfterWork(j)
        /\ Kind[j] \in {"ingest", "lint"} => l = "poll"
    BY LoopShape, JobsAssumption DEF Items, LoopStart, AfterLoop, PollsAfterWork
  <2>3. /\ pc[j] \in {"setup", "model"} /\ pc' = [pc EXCEPT ![j] = l]
        /\ \A i \in Jobs : i # j => staged'[i] = staged[i]
        /\ UNCHANGED <<cancelReq, doomed>>
    BY <1>8, <2>1 DEF EnterLoop, TakeModel
  <2>4. staged'[j] => Kind[j] \in {"graph_rebuild", "lint"}
    BY <1>8, JobsAssumption DEF EnterLoop, TakeModel, UsesModel
  <2> HIDE DEF l
  <2> QED
    BY <2>2, <2>3, <2>4
<1>9. ASSUME NEW j \in Jobs, PollClear(j)
      PROVE  DoomInv'
  <2>1. ~doomed[j] /\ UNCHANGED <<cancelReq, doomed, staged>>
    BY <1>9 DEF PollClear
  <2>2. PICK l \in {"work", "leave", "finish", "commit"} : pc' = [pc EXCEPT ![j] = l]
    BY <1>9, AfterLoopShape DEF PollClear, Goto
  <2> QED
    BY <2>1, <2>2
<1>10. ASSUME NEW j \in Jobs, Work(j)
       PROVE  DoomInv'
  <2> DEFINE l == IF todo[j] = 1 /\ ~PollsAfterWork(j) THEN AfterLoop(j) ELSE "poll"
  <2>1. /\ l \in {"poll", "leave", "finish", "commit"}
        /\ doomed[j] => l = "poll"
    BY <1>10, AfterLoopShape DEF Work
  <2>2. /\ pc[j] = "work" /\ pc' = [pc EXCEPT ![j] = l]
        /\ \A i \in Jobs : i # j => staged'[i] = staged[i]
        /\ UNCHANGED <<cancelReq, doomed>>
    BY <1>10 DEF Work, Goto
  <2> HIDE DEF l
  <2> QED
    BY <2>1, <2>2
<1>11. ASSUME Tick \/ UNCHANGED vars
       PROVE  DoomInv'
  BY <1>11 DEF Tick, vars
<1>12. ASSUME NEW j \in Jobs, Timeout(j) \/ FinishEntry(j)
       PROVE  DoomInv'
  BY <1>3, <1>12 DEF Timeout, FinishEntry, Interrupt
<1>13. ASSUME NEW w \in Workers, Shutdown(w) \/ Crash(w)
       PROVE  DoomInv'
  BY <1>3, <1>13 DEF Shutdown, Crash, Interrupt
<1> QED
  BY <1>1, <1>2, <1>4, <1>5, <1>6, <1>7, <1>8, <1>9, <1>10, <1>11, <1>12, <1>13
     DEF Next, JobStep, RunStep

\* Every step keeps VerdictInv.
LEMMA VerdictNext == TypeInv /\ VerdictInv /\ [Next]_vars => VerdictInv'
<1> SUFFICES ASSUME TypeInv, VerdictInv, [Next]_vars PROVE VerdictInv'
  OBVIOUS
<1>0. /\ status \in [Jobs -> Statuses] /\ pc \in [Jobs -> PCs] /\ tries \in [Jobs -> Nat]
      /\ \A j \in Jobs : /\ msg[j] # "none" => status[j] # "none"
                         /\ pc[j] # "idle" => msg[j] = "taken"
  BY JobsAssumption DEF TypeInv, TypeOK, TriesInv
<1> USE <1>0 DEF VerdictInv, rowVars, arqVars, runVars, ghostVars
<1>1. ASSUME NEW j \in Jobs, CreateJob(j)
      PROVE  VerdictInv'
  BY <1>1 DEF CreateJob, SetStatus
<1>2. ASSUME NEW j \in Jobs, NEW w \in Workers, Deliver(j, w)
      PROVE  VerdictInv'
  BY <1>2 DEF Deliver, Goto
<1>3. ASSUME NEW S, EndRuns(S), UNCHANGED <<status, tries>>
      PROVE  VerdictInv'
  BY <1>3 DEF EndRuns
<1>4. ASSUME NEW w \in Workers, Startup(w)
      PROVE  VerdictInv'
  BY <1>4 DEF Startup, Stuck
<1>5. ASSUME NEW j \in Jobs, NEW l, l \notin {"idle", "start", "begin"}, pc[j] # "idle",
             pc' = [pc EXCEPT ![j] = l], tries' = tries,
             \A i \in Jobs \ {j} : status'[i] = status[i]
      PROVE  VerdictInv'
  BY <1>5
<1>6. ASSUME NEW j \in Jobs, TakeDomain(j)
      PROVE  VerdictInv'
  BY <1>6 DEF TakeDomain, Goto
<1>7. ASSUME NEW j \in Jobs, RunStep(j), ~TakeDomain(j), ~FinishEntry(j)
      PROVE  VerdictInv'
  <2>1. CASE EnterLoop(j) \/ TakeModel(j) \/ PollClear(j) \/ Work(j)
    <3>1. PICK l \in {"poll", "work", "leave", "finish", "commit"} : pc' = [pc EXCEPT ![j] = l]
      BY <2>1, LoopShape, AfterLoopShape DEF EnterLoop, TakeModel, PollClear, Work, Goto
    <3> QED
      BY <1>5, <2>1, <3>1 DEF EnterLoop, TakeModel, PollClear, Work
  <2>2. CASE DomainBusy(j) \/ Begin(j) \/ Succeed(j) \/ Abort(j)
    <3>1. PICK l \in PCs \ {"idle", "start", "begin"} : pc' = [pc EXCEPT ![j] = l]
      BY <2>2 DEF DomainBusy, Begin, Succeed, Abort, Goto, PCs
    <3> QED
      BY <1>5, <2>2, <3>1 DEF DomainBusy, Begin, Succeed, Abort, SetStatus
  <2>3. CASE \/ LoadTrace(j) \/ TraceFails(j) \/ Setup(j) \/ TakeVision(j) \/ Describe(j)
             \/ ModelLockTimeout(j) \/ PollCancelled(j) \/ Raise(j) \/ LeaveModel(j)
             \/ CommitData(j) \/ ReleaseDomain(j)
    <3>1. PICK l \in PCs \ {"idle", "start", "begin"} : pc' = [pc EXCEPT ![j] = l]
      BY <2>3 DEF LoadTrace, TraceFails, Setup, TakeVision, Describe, ModelLockTimeout,
           PollCancelled, Raise, LeaveModel, CommitData, ReleaseDomain, Goto, PCs
    <3> QED
      BY <1>5, <2>3, <3>1 DEF LoadTrace, TraceFails, Setup, TakeVision, Describe,
           ModelLockTimeout, PollCancelled, Raise, LeaveModel, CommitData, ReleaseDomain
  <2> QED
    BY <1>7, <2>1, <2>2, <2>3 DEF RunStep
<1>8. ASSUME NEW j \in Jobs, Enqueue(j) \/ RequestCancel(j) \/ GiveUp(j)
      PROVE  VerdictInv'
  BY <1>8 DEF Enqueue, RequestCancel, GiveUp
<1>9. ASSUME NEW j \in Jobs, Timeout(j) \/ FinishEntry(j)
      PROVE  VerdictInv'
  BY <1>3, <1>9 DEF Timeout, FinishEntry, Interrupt
<1>10. ASSUME NEW w \in Workers, Shutdown(w) \/ Crash(w)
       PROVE  VerdictInv'
  BY <1>3, <1>10 DEF Shutdown, Crash, Interrupt
<1>11. ASSUME Tick \/ UNCHANGED vars
       PROVE  VerdictInv'
  BY <1>11 DEF Tick, vars
<1> QED
  BY <1>1, <1>2, <1>4, <1>6, <1>7, <1>8, <1>9, <1>10, <1>11 DEF Next, JobStep

-----------------------------------------------------------------------------
(* Theorems *)

\* Every variable of a job, a key or a worker keeps its type (TypeOK).
THEOREM TypeCorrect == Spec => []TypeOK
<1>1. TypeInv => TypeOK
  BY DEF TypeInv
<1> QED
  BY <1>1, TypeInit, TypeNext, PTL DEF Spec

\* domain_lock and model_lock exclude (KeyExclusion), for any set of jobs and workers.
THEOREM LocksExclude == Spec => []KeyExclusion
<1>1. LockInv => KeyExclusion
  BY DEF LockInv
<1> QED
  BY <1>1, TypeInit, TypeNext, LockInit, LockNext, PTL DEF Spec

\* Keys outlive the runs that took them (HolderHasKey): neither EX nor the DELETE of
\* another run takes a key away from a body that is being run.
THEOREM HoldersHaveKeys == Spec => []HolderHasKey
<1>1. LockInv => HolderHasKey
  BY DEF LockInv
<1> QED
  BY <1>1, TypeInit, TypeNext, LockInit, LockNext, PTL DEF Spec

\* Partial work never lands, for any number of deliveries, crashes and
\* cancels (AbortedLandsNothing).
THEOREM PartialWorkNeverLands == Spec => []AbortedLandsNothing
<1>1. OutcomeInv => AbortedLandsNothing
  BY DEF OutcomeInv, Outcome, AbortedLandsNothing
<1> QED
  BY <1>1, TypeInit, TypeNext, OutcomeInit, OutcomeNext, PTL DEF Spec

\* An ingest that is called succeeded has committed its article
\* (SucceededLanded).
THEOREM SuccessIsLanded == Spec => []SucceededLanded
<1>1. OutcomeInv => SucceededLanded
  BY DEF OutcomeInv, Outcome, SucceededLanded
<1> QED
  BY <1>1, TypeInit, TypeNext, OutcomeInit, OutcomeNext, PTL DEF Spec

\* A cancel that was requested before the run began stops it before it commits
\* (CancelBeforeBeginStops): every handler polls before it commits an item's writes.
THEOREM CancelStopsRun == Spec => []CancelBeforeBeginStops
<1>1. DoomInv => CancelBeforeBeginStops
  BY DEF DoomInv, Doom, CancelBeforeBeginStops
<1> QED
  BY <1>1, TypeInit, TypeNext, DoomInit, DoomNext, PTL DEF Spec

\* A verdict that is written stays, unless the entry is delivered again or
\* reconcile_stuck has failed the row of a live run (VerdictChangesOnlyOnRetry).
THEOREM VerdictsChangeOnRetry == Spec => VerdictChangesOnlyOnRetry
<1>1. ASSUME TypeInv, VerdictInv, OutcomeInv, [Next]_vars, NEW j \in Jobs,
             status[j] \in Terminal, status'[j] # status[j]
      PROVE  tries[j] > 1 \/ reconciled[j]
  <2>1. status \in [Jobs -> Statuses] /\ pc \in [Jobs -> PCs] /\ tries[j] \in Nat
    <3>1. TypeOK /\ 0..MaxTries \subseteq Nat
      BY <1>1, JobsAssumption DEF TypeInv
    <3> QED
      BY <3>1 DEF TypeOK
  <2>2. \E i \in Jobs : \/ CreateJob(i) \/ DomainBusy(i) \/ Begin(i) \/ Succeed(i) \/ Abort(i)
                        \/ \E w \in Workers : Startup(w)
    <3> USE DEF rowVars, arqVars, runVars, ghostVars
    <3>1. UNCHANGED vars \/ Tick => status' = status
      BY DEF vars, Tick
    <3>2. ASSUME NEW w \in Workers, Shutdown(w) \/ Crash(w) PROVE status' = status
      BY <3>2 DEF Shutdown, Crash
    <3>3. ASSUME NEW i \in Jobs, \/ Enqueue(i) \/ RequestCancel(i) \/ GiveUp(i) \/ Timeout(i)
                                 \/ \E w \in Workers : Deliver(i, w)
          PROVE  status' = status
      BY <3>3 DEF Enqueue, RequestCancel, GiveUp, Timeout, Deliver
    <3>4. ASSUME NEW i \in Jobs, RunStep(i), ~DomainBusy(i), ~Begin(i), ~Succeed(i), ~Abort(i)
          PROVE  status' = status
      BY <3>4 DEF RunStep, TakeDomain, LoadTrace, TraceFails, EnterLoop, Setup, TakeVision,
         Describe, TakeModel, ModelLockTimeout, PollCancelled, PollClear, Work, Raise, LeaveModel,
         CommitData, ReleaseDomain, FinishEntry
    <3>5. j \in Jobs /\ status' # status
      BY <1>1
    <3> QED
      BY <1>1, <3>1, <3>2, <3>3, <3>4, <3>5 DEF Next, JobStep
  <2>3. \/ pc[j] \in {"start", "begin", "finish", "failing", "cancelling"}
        \/ status[j] \in {"none", "running"}
    BY <1>1, <2>1, <2>2
       DEF CreateJob, DomainBusy, Begin, Succeed, Abort, Startup, Stuck, SetStatus
  <2>4. CASE pc[j] \in {"finish", "failing", "cancelling"}
    BY <1>1, <2>4 DEF OutcomeInv, Outcome, Attempting, PCs, Terminal
  <2>5. CASE pc[j] \in {"start", "begin"}
    BY <1>1, <2>1, <2>5 DEF VerdictInv, Terminal
  <2> QED
    BY <1>1, <2>3, <2>4, <2>5 DEF Terminal
<1>2. TypeInv /\ VerdictInv /\ OutcomeInv /\ [Next]_vars =>
        [\A j \in Jobs : status[j] \in Terminal /\ status'[j] # status[j]
            => tries[j] > 1 \/ reconciled[j]]_vars
  BY <1>1
<1> QED
  BY <1>2, TypeInit, TypeNext, DoomInit, VerdictNext, OutcomeInit, OutcomeNext, PTL
     DEF Spec, VerdictChangesOnlyOnRetry

-----------------------------------------------------------------------------
(* Jobs implements DomainWork: a turn is the body of domain_lock, and every step of a
   handler, of arq, of a worker or of time is a step of DomainWork or leaves its
   variables alone. *)

\* A step of DomainWork, under the mapping of Promise.
PromisedStep == [Promise!AbsNext]_(Promise!absVars)

\* The program counters of a turn that may still land.
Fresh == InDomainLock \ {"finish", "release"}

\* A step that touches neither pc nor status nor landed is a stutter.
LEMMA NothingPromised ==
    ASSUME UNCHANGED <<pc, status, landed>>
    PROVE  PromisedStep
BY DEF PromisedStep, Promise!absVars

\* A run that moves on without writing a row or data goes on with its turn,
\* passes its landing with nothing to land, or leaves.
LEMMA MoveOn ==
    ASSUME TypeOK, NEW j \in Jobs, NEW l \in PCs,
           pc' = [pc EXCEPT ![j] = l],
           UNCHANGED <<status, landed>>,
           l \in InDomainLock => pc[j] \in InDomainLock,
           l \in Fresh => pc[j] \in Fresh
    PROVE  PromisedStep
<1> USE DEF TypeOK
<1>1. CASE (l \in InDomainLock <=> pc[j] \in InDomainLock) /\ (l \in Fresh <=> pc[j] \in Fresh)
  <2>1. \A i \in Jobs : /\ pc'[i] \in InDomainLock <=> pc[i] \in InDomainLock
                        /\ pc'[i] \in Fresh <=> pc[i] \in Fresh
    BY <1>1
  <2> QED
    BY <2>1 DEF PromisedStep, Promise!absVars, Fresh
<1>2. CASE l \in InDomainLock /\ l \notin Fresh /\ pc[j] \in Fresh
  <2>1. Promise!Land(j)
    <3>1. \A i \in Jobs : /\ pc'[i] \in InDomainLock <=> pc[i] \in InDomainLock
                          /\ pc'[i] \in Fresh <=> pc[i] \in Fresh /\ i # j
      BY <1>2 DEF Fresh
    <3>2. landed' = [landed EXCEPT ![j] = @ + 0]
      OBVIOUS
    <3> QED
      BY <1>2, <3>1, <3>2 DEF Promise!Land, Fresh
  <2> QED
    BY <2>1 DEF PromisedStep, Promise!AbsNext
<1>3. CASE l \notin InDomainLock
  <2>1. Promise!Leave({j})
    <3>1. \A i \in Jobs : /\ pc'[i] \in InDomainLock <=> pc[i] \in InDomainLock /\ i # j
                          /\ pc'[i] \in Fresh <=> pc[i] \in Fresh /\ i # j
      BY <1>3 DEF Fresh
    <3> QED
      BY <3>1 DEF Promise!Leave, Fresh
  <2> QED
    BY <2>1 DEF PromisedStep, Promise!AbsNext
<1> QED
  BY <1>1, <1>2, <1>3 DEF Fresh

\* Runs that end, killed or not, leave their turns.
LEMMA RunsLeave ==
    ASSUME TypeOK, NEW S \in SUBSET Jobs, EndRuns(S), UNCHANGED <<status, landed>>
    PROVE  PromisedStep
<1>1. \A i \in Jobs : /\ pc'[i] \in InDomainLock <=> pc[i] \in InDomainLock /\ i \notin S
                      /\ pc'[i] \in Fresh <=> pc[i] \in Fresh /\ i \notin S
  BY DEF EndRuns, InDomainLock, Fresh, TypeOK
<1>2. Promise!Leave(S)
  BY <1>1 DEF Promise!Leave, Fresh
<1> QED
  BY <1>2 DEF PromisedStep, Promise!AbsNext

\* A step that changes statuses only, and by calling jobs failed from outside.
LEMMA FailedFromOutside ==
    ASSUME TypeOK, NEW S \in SUBSET Jobs,
           \A i \in Jobs : /\ pc'[i] \in InDomainLock <=> pc[i] \in InDomainLock
                           /\ pc'[i] \in Fresh <=> pc[i] \in Fresh,
           status' = [i \in Jobs |-> IF i \in S THEN "failed" ELSE status[i]],
           landed' = landed
    PROVE  PromisedStep
<1>1. Promise!CallFailed(S)
  BY DEF Promise!CallFailed, Terminal, TypeOK, Fresh
<1> QED
  BY <1>1 DEF PromisedStep, Promise!AbsNext

\* TakeDomain is Enter: a job inside would hold the key that SET NX found free.
LEMMA TakeDomainEnters ==
    ASSUME TypeOK, HolderHasKey, NEW j \in Jobs, TakeDomain(j)
    PROVE  PromisedStep
<1>1. ASSUME NEW i \in Jobs, pc[i] \in InDomainLock
      PROVE  DomainOf[i] # DomainOf[j]
  BY <1>1 DEF HolderHasKey, HeldKeys, DomainKeys, TakeDomain, Acquire
<1>2. \A i \in Jobs : /\ pc'[i] \in InDomainLock <=> pc[i] \in InDomainLock \/ i = j
                      /\ pc'[i] \in Fresh <=> pc[i] \in Fresh \/ i = j
  BY DEF TypeOK, TakeDomain, Goto, InDomainLock, Fresh, PCs
<1>3. Promise!Enter(j)
  BY <1>1, <1>2 DEF Promise!Enter, TakeDomain, ghostVars, rowVars, Fresh
<1> QED
  BY <1>3 DEF PromisedStep, Promise!AbsNext

\* Begin is Reopen: it writes running over the verdict of an earlier run.
LEMMA BeginReopens ==
    ASSUME TypeOK, NEW j \in Jobs, Begin(j)
    PROVE  PromisedStep
<1>1. PICK l \in {"trace", "setup"} : pc' = [pc EXCEPT ![j] = l]
  BY DEF Begin, Goto
<1>2. \A i \in Jobs : /\ pc'[i] \in InDomainLock <=> pc[i] \in InDomainLock
                      /\ pc'[i] \in Fresh <=> pc[i] \in Fresh
  BY <1>1 DEF TypeOK, Begin, InDomainLock, Fresh, PCs
<1>3. pc[j] \in Fresh
  BY DEF Begin, InDomainLock, Fresh, PCs
<1>4. Promise!Reopen(j)
  BY <1>2, <1>3 DEF Promise!Reopen, Begin, SetStatus, TypeOK, Terminal, ghostVars, Fresh
<1> QED
  BY <1>4 DEF PromisedStep, Promise!AbsNext

\* CommitData is Land.
LEMMA CommitLands ==
    ASSUME TypeOK, NEW j \in Jobs, CommitData(j)
    PROVE  PromisedStep
<1>1. \A i \in Jobs : /\ pc'[i] \in InDomainLock <=> pc[i] \in InDomainLock
                      /\ pc'[i] \in Fresh <=> pc[i] \in Fresh /\ i # j
  BY DEF TypeOK, CommitData, Goto, InDomainLock, Fresh, PCs
<1>2. \E n \in {0, 1} : landed' = [landed EXCEPT ![j] = @ + n]
  <2>1. CASE staged[j]
    <3>1. landed' = [landed EXCEPT ![j] = @ + 1]
      BY <2>1 DEF CommitData
    <3> QED
      BY <3>1
  <2>2. CASE ~staged[j]
    <3>1. landed' = landed /\ landed[j] + 0 = landed[j]
      BY <2>2 DEF CommitData, TypeOK
    <3>2. landed' = [landed EXCEPT ![j] = @ + 0]
      BY <3>1 DEF TypeOK
    <3> QED
      BY <3>2
  <2> QED
    BY <2>1, <2>2
<1>3. pc[j] \in Fresh
  BY DEF CommitData, InDomainLock, Fresh, PCs
<1>4. Promise!Land(j)
  BY <1>1, <1>2, <1>3 DEF Promise!Land, CommitData, rowVars, Fresh
<1> QED
  BY <1>4 DEF PromisedStep, Promise!AbsNext

\* Succeed is CallSucceeded: the turn is past its landing.
LEMMA SucceedCalls ==
    ASSUME TypeOK, NEW j \in Jobs, Succeed(j)
    PROVE  PromisedStep
<1>1. \A i \in Jobs : /\ pc'[i] \in InDomainLock <=> pc[i] \in InDomainLock
                      /\ pc'[i] \in Fresh <=> pc[i] \in Fresh
  BY DEF TypeOK, Succeed, Goto, InDomainLock, Fresh, PCs
<1>2. pc[j] \in InDomainLock \ Fresh
  BY DEF Succeed, InDomainLock, Fresh, PCs
<1>3. Promise!CallSucceeded(j)
  BY <1>1, <1>2 DEF Promise!CallSucceeded, Succeed, SetStatus, TypeOK, Terminal, ghostVars,
     Fresh
<1> QED
  BY <1>3 DEF PromisedStep, Promise!AbsNext

\* Abort is CallOff: the turn has not landed, and will not.
LEMMA AbortCallsOff ==
    ASSUME TypeOK, NEW j \in Jobs, Abort(j)
    PROVE  PromisedStep
<1>1. \A i \in Jobs : /\ pc'[i] \in InDomainLock <=> pc[i] \in InDomainLock
                      /\ pc'[i] \in Fresh <=> pc[i] \in Fresh /\ i # j
  BY DEF TypeOK, Abort, Goto, InDomainLock, Fresh, PCs
<1>2. pc[j] \in Fresh
  BY DEF Abort, InDomainLock, Fresh, PCs
<1>3. PICK v \in {"failed", "cancelled"} : status' = [status EXCEPT ![j] = v]
  BY DEF Abort, SetStatus
<1>4. Promise!CallOff(j)
  BY <1>1, <1>2, <1>3 DEF Promise!CallOff, Abort, TypeOK, Terminal, ghostVars, Fresh
<1> QED
  BY <1>4 DEF PromisedStep, Promise!AbsNext

-----------------------------------------------------------------------------
\* Every step is a step of DomainWork or leaves its variables alone.
LEMMA StepImplements == TypeInv /\ LockInv /\ [Next]_vars => PromisedStep
<1> SUFFICES ASSUME TypeInv, LockInv, [Next]_vars PROVE PromisedStep
  OBVIOUS
<1>0. TypeOK /\ HolderHasKey
  BY DEF TypeInv, LockInv
<1> USE <1>0
<1>1. ASSUME NEW j \in Jobs, CreateJob(j)
      PROVE  PromisedStep
  <2>1. [i \in Jobs |-> IF status'[i] \in Terminal THEN status'[i] ELSE "open"]
          = [i \in Jobs |-> IF status[i] \in Terminal THEN status[i] ELSE "open"]
    BY <1>1 DEF CreateJob, SetStatus, TypeOK, Terminal
  <2> QED
    BY <1>1, <2>1 DEF PromisedStep, Promise!absVars, CreateJob, runVars, ghostVars
<1>2. ASSUME NEW j \in Jobs, Enqueue(j) \/ RequestCancel(j) \/ GiveUp(j)
      PROVE  PromisedStep
  BY <1>2, NothingPromised DEF Enqueue, RequestCancel, GiveUp, rowVars, runVars, ghostVars
<1>3. ASSUME NEW j \in Jobs, \E w \in Workers : Deliver(j, w)
      PROVE  PromisedStep
  BY <1>3, MoveOn DEF Deliver, Goto, rowVars, ghostVars, Fresh, InDomainLock, PCs
<1>4. ASSUME NEW j \in Jobs, Timeout(j) \/ FinishEntry(j)
      PROVE  PromisedStep
  BY <1>4, RunsLeave DEF Timeout, FinishEntry, Interrupt, rowVars, ghostVars
<1>5. ASSUME NEW w \in Workers, Shutdown(w) \/ Crash(w)
      PROVE  PromisedStep
  BY <1>5, RunsLeave DEF Shutdown, Crash, Interrupt, RunsOn, rowVars, ghostVars
<1>6. ASSUME NEW w \in Workers, Startup(w)
      PROVE  PromisedStep
  <2>1. status' = [i \in Jobs |-> IF i \in {k \in Jobs : Stuck(k)} THEN "failed" ELSE status[i]]
    BY <1>6 DEF Startup
  <2> QED
    BY <1>6, <2>1, FailedFromOutside DEF Startup, runVars
<1>7. ASSUME NEW j \in Jobs, DomainBusy(j)
      PROVE  PromisedStep
  <2>1. status' = [i \in Jobs |-> IF i \in {j} THEN "failed" ELSE status[i]]
    BY <1>7 DEF DomainBusy, SetStatus, TypeOK
  <2>2. \A i \in Jobs : /\ pc'[i] \in InDomainLock <=> pc[i] \in InDomainLock
                        /\ pc'[i] \in Fresh <=> pc[i] \in Fresh
    BY <1>7 DEF DomainBusy, Goto, TypeOK, InDomainLock, Fresh, PCs
  <2> QED
    BY <1>7, <2>1, <2>2, FailedFromOutside DEF DomainBusy, ghostVars
<1>8. ASSUME NEW j \in Jobs,
             \/ LoadTrace(j) \/ TraceFails(j) \/ Setup(j) \/ TakeVision(j) \/ Describe(j)
             \/ ModelLockTimeout(j) \/ PollCancelled(j) \/ Raise(j) \/ LeaveModel(j)
             \/ ReleaseDomain(j)
      PROVE  PromisedStep
  <2>1. PICK l \in PCs :
          /\ pc' = [pc EXCEPT ![j] = l]
          /\ l \in InDomainLock => pc[j] \in InDomainLock
          /\ l \in Fresh => pc[j] \in Fresh
    BY <1>8 DEF LoadTrace, TraceFails, Setup, TakeVision, Describe, ModelLockTimeout,
       PollCancelled, Raise, LeaveModel, ReleaseDomain, Goto, InDomainLock, Fresh, PCs
  <2>2. UNCHANGED <<status, landed>>
    BY <1>8 DEF LoadTrace, TraceFails, Setup, TakeVision, Describe, ModelLockTimeout,
       PollCancelled, Raise, LeaveModel, ReleaseDomain, rowVars, ghostVars
  <2> QED
    BY <2>1, <2>2, MoveOn
<1>9. ASSUME NEW j \in Jobs, EnterLoop(j) \/ TakeModel(j) \/ PollClear(j) \/ Work(j)
      PROVE  PromisedStep
  <2>1. PICK l \in {"poll", "work", "leave", "finish", "commit"} : pc' = [pc EXCEPT ![j] = l]
    BY <1>9, LoopShape, AfterLoopShape DEF EnterLoop, TakeModel, PollClear, Work, Goto
  <2>2. l \in PCs /\ pc[j] \in Fresh /\ pc[j] \in InDomainLock
    BY <1>9 DEF EnterLoop, TakeModel, PollClear, Work, InDomainLock, Fresh, PCs
  <2>3. UNCHANGED <<status, landed>>
    BY <1>9 DEF EnterLoop, TakeModel, PollClear, Work, rowVars, ghostVars
  <2> QED
    BY <2>1, <2>2, <2>3, MoveOn
<1>10. ASSUME NEW j \in Jobs,
              TakeDomain(j) \/ Begin(j) \/ CommitData(j) \/ Succeed(j) \/ Abort(j)
       PROVE  PromisedStep
  BY <1>10, TakeDomainEnters, BeginReopens, CommitLands, SucceedCalls, AbortCallsOff
<1>11. CASE Tick \/ UNCHANGED vars
  BY <1>11, NothingPromised DEF Tick, vars, runVars, rowVars, ghostVars
<1> QED
  BY <1>1, <1>2, <1>3, <1>4, <1>5, <1>6, <1>7, <1>8, <1>9, <1>10, <1>11
     DEF Next, JobStep, RunStep

\* No job is inside, none has landed and none has a verdict.
LEMMA InitImplements == Init => Promise!AbsInit
BY DEF Init, Promise!AbsInit, InDomainLock, Terminal

\* The handlers, the queue, the workers and the Redis locks together do what
\* DomainWork promises (ImplementsDomainWork): turns of a domain exclude, land
\* at once or not at all, and get the verdict that fits.
THEOREM JobsImplementDomainWork == Spec => ImplementsDomainWork
<1>1. TypeInv /\ LockInv /\ [Next]_vars => [Promise!AbsNext]_(Promise!absVars)
  BY StepImplements DEF PromisedStep
<1> QED
  BY <1>1, InitImplements, TypeInit, TypeNext, LockInit, LockNext, PTL
     DEF Spec, ImplementsDomainWork, Promise!AbsSpec
=============================================================================
