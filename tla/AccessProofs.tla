---------------------------- MODULE AccessProofs ----------------------------
(***************************************************************************)
(* Theorems about Accounts and Login for any number of users, requests,    *)
(* attempts and keys.                                                      *)
(*                                                                         *)
(* Accounts: a user who has begun to exist never becomes unborn again, and *)
(* there are users only once a setup has been committed (BegunInv); so two *)
(* setups can only follow each other at the settings row, whose holder is  *)
(* one (SetupInv). A row that refers to a user keeps deletions off, so the *)
(* actor of a request that has written its audit row stays to its end      *)
(* (ActorInv). And a request that no other has overtaken still sees what   *)
(* it counted: another administrator beside the one it is about to change  *)
(* (RaceInv).                                                              *)
(*                                                                         *)
(* Login: whatever a limit has let through is in the sorted set for as     *)
(* long as it is in a window (PassInv), as the key lives a window longer   *)
(* than its last hit; so a hit that is let through found all the others of *)
(* its window there (RateInv). Whoever is past its check of a key that is  *)
(* locked was so when the lock was set (GuardInv), for a check after that  *)
(* refuses.                                                                *)
(***************************************************************************)
EXTENDS Accounts, Login, FiniteSetTheorems, TLAPS

(* Accounts *)

\* What a request is where it is.
RequestOK(q) ==
    /\ q.step = "idle" => q = NoRequest
    /\ q.step \in {"insert", "settings"} => q.op = "setup"
    /\ q.step \in {"target", "count", "write"} => q.op \in {"set_role", "delete"}
    /\ q.step = "audit" => q.op \in {"create", "set_role", "delete", "issue"}
    /\ q.step = "commit" => q.op # "none"
    /\ q.op \notin {"none", "setup"} => q.actor \in Users
    /\ q.op \in {"set_role", "delete"} => q.target \in Users

\* Its actor has been an administrator, or a user, and its target has been found.
BegunOK(q) ==
    /\ q.op \notin {"none", "setup"} => configured /\ role[q.actor] # "unborn"
    /\ q.op \in {"set_role", "delete"} /\ q.step # "target" => role[q.target] # "unborn"

\* Its setup has the settings row, and has seen or made it.
Configures(q) == q.op = "setup" /\ q.step = "commit"
SetupOK(q) == Configures(q) => q.sawRow \/ ~configured

\* It has written a row that refers to u; it has deleted u.
Refers(q, u) == /\ q.actor = u
                /\ \/ q.op # "setup" /\ q.step = "commit"
                   \/ q.op = "delete" /\ q.step = "write"
Deletes(q, u) == q.target = u /\ q.op = "delete" /\ q.step = "commit" /\ u \in Present

\* Once it has counted, there is an administrator beside its target.
Demotes(q) == q.op = "delete" \/ (q.op = "set_role" /\ q.to # "admin")
RaceOK(q) == q.step \in {"write", "audit", "commit"} /\ Demotes(q) /\ q.target \in Admins
                => \E b \in Admins : b # q.target

BegunInv == /\ \A u \in Users : role[u] # "unborn" => configured
            /\ \A r \in Requests : RequestOK(req[r]) /\ BegunOK(req[r])
SetupInv == /\ \A r \in Requests : SetupOK(req[r])
            /\ \A r, s \in Requests : Configures(req[r]) /\ Configures(req[s]) => r = s
ActorInv == \A u \in Users, r \in Requests : Refers(req[r], u) =>
                u \in Present /\ \A s \in Requests : Deletes(req[s], u) => s = r
RaceInv == \A r \in Requests \ raced : RaceOK(req[r])

AccountsInv == AccountsTypeOK /\ BegunInv /\ SetupInv /\ ActorInv /\ RaceInv

-----------------------------------------------------------------------------
\* The locks, one request at a time.
LEMMA LockHolders ==
    ASSUME AccountsTypeOK, NEW u \in Users
    PROVE  /\ Referrers(u) = {r \in Requests : Refers(req[r], u)}
           /\ Deleters(u) = {r \in Requests : Deletes(req[r], u)}
           /\ Configurers = {r \in Requests : Configures(req[r])}
BY DEF Referrers, Deleters, Configurers, Busy, Refers, Deletes, Configures

\* Nobody is there and nobody has begun.
LEMMA AccountsStart == AccountsInit => AccountsInv
<1> SUFFICES ASSUME AccountsInit PROVE AccountsInv
  OBVIOUS
<1> USE DEF AccountsInit
<1>1. NoRequest \in Request
  BY DEF NoRequest, Request, Ops, Steps, Roles
<1>2. AccountsTypeOK
  BY <1>1 DEF AccountsTypeOK, UserStates, Present
<1>3. BegunInv
  BY DEF BegunInv, RequestOK, BegunOK, NoRequest
<1>4. SetupInv /\ ActorInv /\ RaceInv
  BY DEF SetupInv, SetupOK, Configures, ActorInv, Refers, RaceInv, RaceOK, NoRequest
<1> QED
  BY <1>2, <1>3, <1>4 DEF AccountsInv

\* A request goes on to q and changes nothing that is committed: it takes no lock
\* that excludes another's, and keeps what the invariant says of it.
LEMMA RequestGoesOn ==
    ASSUME AccountsInv, NEW r \in Requests, NEW q \in Request,
           req' = [req EXCEPT ![r] = q],
           UNCHANGED <<role, configured, keys>>,
           \/ q.step # "idle" /\ raced' = raced
           \/ raced' = raced \ {r},
           RequestOK(q), BegunOK(q), SetupOK(q),
           Configures(q) => \A s \in Requests \ {r} : ~Configures(req[s]),
           \A u \in Users : Refers(q, u) =>
               u \in Present /\ \A s \in Requests \ {r} : ~Deletes(req[s], u),
           \A u \in Users : Deletes(q, u) => \A s \in Requests \ {r} : ~Refers(req[s], u),
           r \in raced' \/ RaceOK(q)
    PROVE  AccountsInv'
<1>1. req \in [Requests -> Request] /\ req' \in [Requests -> Request]
  BY DEF AccountsInv, AccountsTypeOK
<1>2. \A s \in Requests : req'[s] = IF s = r THEN q ELSE req[s]
  BY <1>1
<1>3. Present' = Present /\ Admins' = Admins
  BY DEF Present, Admins
<1>4. AccountsTypeOK'
  BY <1>1, <1>2, <1>3 DEF AccountsInv, AccountsTypeOK, Busy
<1>5. BegunInv'
  BY <1>2 DEF AccountsInv, BegunInv, RequestOK, BegunOK
<1>6. SetupInv'
  BY <1>2 DEF AccountsInv, SetupInv, SetupOK, Configures
<1>7. ActorInv'
  BY <1>2, <1>3 DEF AccountsInv, ActorInv, Refers, Deletes
<1>8. RaceInv'
  BY <1>2, <1>3 DEF AccountsInv, RaceInv, RaceOK, Demotes
<1> QED
  BY <1>4, <1>5, <1>6, <1>7, <1>8 DEF AccountsInv

\* Its end without a change is such a step.
LEMMA RefusalKeeps ==
    ASSUME AccountsInv, NEW r \in Requests, Refuse(r)
    PROVE  AccountsInv'
<1>1. NoRequest \in Request
  BY DEF NoRequest, Request, Ops, Steps, Roles
<1>2. RequestOK(NoRequest) /\ BegunOK(NoRequest) /\ SetupOK(NoRequest) /\ RaceOK(NoRequest)
      /\ ~Configures(NoRequest)
  BY DEF NoRequest, RequestOK, BegunOK, SetupOK, RaceOK, Configures
<1>3. \A u \in Users : ~Refers(NoRequest, u) /\ ~Deletes(NoRequest, u)
  BY DEF NoRequest, Refers, Deletes
<1> QED
  BY <1>1, <1>2, <1>3, RequestGoesOn DEF Refuse, Over


\* A step of req alone that meets the conditions of RequestGoesOn.
GoesOnTo(r, q) ==
    /\ req' = [req EXCEPT ![r] = q]
    /\ UNCHANGED <<role, configured, keys, raced>>
    /\ q \in Request /\ q.step # "idle"
    /\ RequestOK(q) /\ BegunOK(q) /\ SetupOK(q)
    /\ Configures(q) => \A s \in Requests \ {r} : ~Configures(req[s])
    /\ \A u \in Users : Refers(q, u) =>
         u \in Present /\ \A s \in Requests \ {r} : ~Deletes(req[s], u)
    /\ \A u \in Users : Deletes(q, u) => \A s \in Requests \ {r} : ~Refers(req[s], u)
    /\ r \in raced \/ RaceOK(q)

\* What is known of a request that is under way.
LEMMA RequestKnown ==
    ASSUME AccountsInv, NEW r \in Requests
    PROVE  /\ req \in [Requests -> Request] /\ req[r] \in Request
           /\ RequestOK(req[r]) /\ BegunOK(req[r]) /\ (r \in raced \/ RaceOK(req[r]))
           /\ req[r].op \in Ops /\ req[r].to \in Roles
           /\ \A u \in Users : u \in Present <=> role[u] \in Roles
           /\ \A u \in Users : u \in Admins <=> role[u] = "admin"
           /\ \A u \in Users : role[u] \in UserStates
BY DEF AccountsInv, AccountsTypeOK, BegunInv, RaceInv, Present, Admins, Request

LEMMA StepKnown ==
    ASSUME AccountsInv, NEW r \in Requests
    PROVE  RequestOK(req[r]) /\ BegunOK(req[r])
BY DEF AccountsInv, BegunInv

\* A request begins.
LEMMA BeginsKeep ==
    ASSUME AccountsInv, NEW r \in Requests,
           \/ BeginSetup(r)
           \/ \E a \in Users : BeginIssue(r, a) \/ \E op \in Ops : BeginAs(r, a, op)
    PROVE  \E q : GoesOnTo(r, q)
<1>0. req[r].step = "idle" => req[r] = NoRequest
  BY StepKnown DEF RequestOK
<1>1. ASSUME BeginSetup(r) PROVE \E q : GoesOnTo(r, q)
  <2> DEFINE q == [req[r] EXCEPT !.op = "setup", !.step = "insert"]
  <2>1. req' = [req EXCEPT ![r] = q] /\ UNCHANGED <<role, configured, keys, raced>>
    BY <1>1, RequestKnown DEF BeginSetup
  <2>2. q \in Request
    <3>1. req[r] \in Request
      BY RequestKnown
    <3>2. QED BY <3>1 DEF Request, Ops, Steps
  <2>3. q.op = "setup" /\ q.step = "insert"
    BY RequestKnown DEF Request
  <2> HIDE DEF q
  <2> QED
    BY <2>1, <2>2, <2>3 DEF GoesOnTo, RequestOK, BegunOK, SetupOK, Configures, Refers, Deletes, RaceOK
<1>2. ASSUME NEW a \in Users, BeginIssue(r, a) PROVE \E q : GoesOnTo(r, q)
  <2> DEFINE q == [req[r] EXCEPT !.op = "issue", !.actor = a, !.step = "audit"]
  <2>1. req' = [req EXCEPT ![r] = q] /\ UNCHANGED <<role, configured, keys, raced>>
    BY <1>2, RequestKnown DEF BeginIssue
  <2>2. q \in Request
    <3>1. req[r] \in Request
      BY RequestKnown
    <3>2. QED BY <3>1 DEF Request, Ops, Steps
  <2>3. q.op = "issue" /\ q.step = "audit" /\ q.actor = a
    BY RequestKnown DEF Request
  <2>4. role[a] # "unborn" /\ configured
    BY <1>2 DEF BeginIssue, Present, Roles, AccountsInv, BegunInv
  <2> HIDE DEF q
  <2> QED
    BY <2>1, <2>2, <2>3, <2>4
       DEF GoesOnTo, RequestOK, BegunOK, SetupOK, Configures, Refers, Deletes, RaceOK, Demotes
<1>3. ASSUME NEW a \in Users, NEW op \in Ops, BeginAs(r, a, op) PROVE \E q : GoesOnTo(r, q)
  <2>0. /\ role[a] # "unborn" /\ configured /\ req[r] = NoRequest
        /\ UNCHANGED <<role, configured, keys, raced>>
    BY <1>0, <1>3 DEF BeginAs, Admins, AccountsInv, BegunInv
  <2>1. ASSUME NEW to \in Roles, op = "create",
               req' = [req EXCEPT ![r] = [@ EXCEPT !.op = op, !.actor = a, !.to = to,
                                                   !.step = "audit"]]
        PROVE  \E q : GoesOnTo(r, q)
    <3> DEFINE q == [req[r] EXCEPT !.op = op, !.actor = a, !.to = to, !.step = "audit"]
    <3>1. req' = [req EXCEPT ![r] = q]
      BY <2>1, RequestKnown
    <3>2. q \in Request
      <4>1. req[r] \in Request
        BY RequestKnown
      <4>2. QED BY <4>1 DEF Request, Ops, Steps
    <3>3. q.op = "create" /\ q.step = "audit" /\ q.actor = a
      BY <2>1, RequestKnown DEF Request
    <3> HIDE DEF q
    <3> QED
      BY <2>0, <3>1, <3>2, <3>3
         DEF GoesOnTo, RequestOK, BegunOK, SetupOK, Configures, Refers, Deletes, RaceOK, Demotes
  <2>2. ASSUME NEW t \in Users, NEW to \in Roles, op \in {"set_role", "delete"},
               req' = [req EXCEPT ![r] = [@ EXCEPT !.op = op, !.actor = a, !.target = t,
                                                   !.to = to, !.step = "target"]]
        PROVE  \E q : GoesOnTo(r, q)
    <3> DEFINE q == [req[r] EXCEPT !.op = op, !.actor = a, !.target = t, !.to = to,
                                   !.step = "target"]
    <3>1. req' = [req EXCEPT ![r] = q]
      BY <2>2, RequestKnown
    <3>2. q \in Request
      <4>1. req[r] \in Request
        BY RequestKnown
      <4>2. QED BY <4>1 DEF Request, Ops, Steps
    <3>3. q.op = op /\ q.step = "target" /\ q.actor = a /\ q.target = t
      BY RequestKnown DEF Request
    <3> HIDE DEF q
    <3> QED
      BY <2>0, <2>2, <3>1, <3>2, <3>3
         DEF GoesOnTo, RequestOK, BegunOK, SetupOK, Configures, Refers, Deletes, RaceOK, Demotes
  <2> QED
    BY <1>3, <2>1, <2>2 DEF BeginAs, Roles
<1> QED
  BY <1>1, <1>2, <1>3

\* q is r's request at another step.
LEMMA AtStep ==
    ASSUME AccountsInv, NEW r \in Requests, NEW step \in Steps,
           NEW q, q = [req[r] EXCEPT !.step = step]
    PROVE  /\ q \in Request /\ q.step = step /\ q.op = req[r].op /\ q.actor = req[r].actor
           /\ q.target = req[r].target /\ q.to = req[r].to /\ q.sawRow = req[r].sawRow
BY RequestKnown DEF Request

\* A setup inserts its administrator, and writes the settings row.
LEMMA SetupsGoOn ==
    ASSUME AccountsInv, NEW r \in Requests, InsertAdmin(r) \/ (WriteSettings(r) /\ ~Refuse(r))
    PROVE  \E q : GoesOnTo(r, q)
<1>1. ASSUME InsertAdmin(r) PROVE \E q : GoesOnTo(r, q)
  <2> DEFINE q == [req[r] EXCEPT !.step = "settings", !.sawRow = configured]
  <2>1. req' = [req EXCEPT ![r] = q] /\ UNCHANGED <<role, configured, keys, raced>>
    BY <1>1, RequestKnown DEF InsertAdmin
  <2>2. q \in Request
    BY RequestKnown DEF Request, Steps, AccountsInv, AccountsTypeOK
  <2>3. q.op = "setup" /\ q.step = "settings"
    <3>1. req[r].op = "setup"
      BY <1>1, StepKnown DEF InsertAdmin, RequestOK
    <3> QED
      BY <3>1, RequestKnown DEF Request
  <2> HIDE DEF q
  <2> QED
    BY <2>1, <2>2, <2>3 DEF GoesOnTo, RequestOK, BegunOK, SetupOK, Configures, Refers, Deletes, RaceOK
<1>2. ASSUME WriteSettings(r), ~Refuse(r) PROVE \E q : GoesOnTo(r, q)
  <2> DEFINE q == [req[r] EXCEPT !.step = "commit"]
  <2>1. /\ req' = [req EXCEPT ![r] = q] /\ UNCHANGED <<role, configured, keys, raced>>
        /\ req[r].sawRow \/ ~configured
    BY <1>2, RequestKnown DEF WriteSettings, Goto
  <2>2. req[r].op = "setup" /\ Configurers \ {r} = {}
    BY <1>2, StepKnown DEF WriteSettings, RequestOK, Free, Blockers
  <2>3. /\ q \in Request /\ q.step = "commit" /\ q.op = "setup" /\ q.sawRow = req[r].sawRow
    BY <2>2, AtStep DEF Steps
  <2>4. \A s \in Requests \ {r} : ~Configures(req[s])
    BY <2>2 DEF Configurers, Configures, Busy
  <2> HIDE DEF q
  <2> QED
    BY <2>1, <2>2, <2>3, <2>4
       DEF GoesOnTo, RequestOK, BegunOK, SetupOK, Configures, Refers, Deletes, RaceOK, Demotes
<1> QED
  BY <1>1, <1>2

\* The target is found, and counted if it may be the last administrator.
LEMMA TargetsGoOn ==
    ASSUME AccountsInv, NEW r \in Requests,
           (ReadTarget(r) \/ CountAdmins(r)) /\ ~Refuse(r)
    PROVE  \E q : GoesOnTo(r, q)
<1> DEFINE p == req[r]
<1>0. /\ p.op \in {"set_role", "delete"} /\ p.target \in Users /\ p.actor \in Users
      /\ configured /\ role[p.actor] # "unborn"
      /\ UNCHANGED <<role, configured, keys, raced>>
  <2>1. p.step \in {"target", "count"}
    BY DEF ReadTarget, CountAdmins
  <2>2. UNCHANGED <<role, configured, keys, raced>>
    BY DEF ReadTarget, CountAdmins
  <2> QED
    BY <2>1, <2>2, StepKnown DEF RequestOK, BegunOK
<1>1. PICK step \in {"count", "write", "audit"} : Goto(r, step)
  BY <1>0 DEF ReadTarget, CountAdmins, Proceeding
<1> DEFINE q == [req[r] EXCEPT !.step = step]
<1>2. req' = [req EXCEPT ![r] = q]
  BY <1>1, RequestKnown DEF Goto
<1>3. /\ q \in Request /\ q.step = step /\ q.op = p.op /\ q.actor = p.actor
      /\ q.target = p.target /\ q.to = p.to
  BY AtStep DEF Steps
<1>4. role[p.target] # "unborn"
  <2>1. CASE ReadTarget(r)
    <3>1. p.target \in Present \/ p.target = p.actor
      BY <2>1 DEF ReadTarget
    <3> QED
      BY <1>0, <3>1 DEF Present, Roles
  <2>2. CASE CountAdmins(r)
    BY <1>0, <2>2, StepKnown DEF CountAdmins, BegunOK
  <2> QED
    BY <2>1, <2>2
<1>5. /\ p.op = "delete" => step # "write"
      /\ p.step = "target" /\ step # "count" => ~(Demotes(p) /\ p.target \in Admins)
      /\ p.step = "count" => step # "count" /\ ~(Cardinality(Admins) <= 1)
      /\ p.step \in {"target", "count"}
  <2>1. req'[r].step = step
    BY <1>2, <1>3, RequestKnown
  <2>2. CASE ReadTarget(r)
    <3>1. Goto(r, IF (p.target = p.actor \/ role[p.target] = "admin")
                     /\ (p.op = "delete" \/ p.to # "admin") THEN "count" ELSE Proceeding(r))
      BY <2>2 DEF ReadTarget
    <3>2. step = IF (p.target = p.actor \/ role[p.target] = "admin")
                     /\ (p.op = "delete" \/ p.to # "admin") THEN "count" ELSE Proceeding(r)
      BY <2>1, <3>1, RequestKnown DEF Goto, Request
    <3> QED
      BY <1>0, <2>2, <3>2 DEF ReadTarget, Proceeding, Demotes, Admins
  <2>3. CASE CountAdmins(r)
    <3>1. Goto(r, Proceeding(r)) /\ ~(Cardinality(Admins) <= 1) /\ p.step = "count"
      BY <2>3 DEF CountAdmins
    <3>2. step = Proceeding(r)
      BY <2>1, <3>1, RequestKnown DEF Goto, Request
    <3> QED
      BY <3>1, <3>2 DEF Proceeding
  <2> QED
    BY <2>2, <2>3
<1>6. RaceOK(q)
  <2>1. ASSUME ~(Cardinality(Admins) <= 1) PROVE \E b \in Admins : b # p.target
    <3>1. CASE Admins \subseteq {p.target}
      <4>1. IsFiniteSet({p.target}) /\ Cardinality({p.target}) = 1
        BY FS_Singleton
      <4>2. Cardinality(Admins) <= 1
        BY <3>1, <4>1, FS_Subset
      <4> QED
        BY <2>1, <4>2
    <3> QED
      BY <3>1
  <2> QED
    BY <1>3, <1>5, <2>1 DEF RaceOK, Demotes
<1> HIDE DEF q
<1> QED
  BY <1>0, <1>2, <1>3, <1>4, <1>5, <1>6
     DEF GoesOnTo, RequestOK, BegunOK, SetupOK, Configures, Refers, Deletes

\* The target is written, and the audit row.
LEMMA WritesGoOn ==
    ASSUME AccountsInv, NEW r \in Requests, WriteTarget(r) \/ (Audit(r) /\ ~Refuse(r))
    PROVE  \E q : GoesOnTo(r, q)
<1> DEFINE p == req[r]
<1>0. /\ p.op \notin {"none", "setup"} => configured /\ role[p.actor] # "unborn"
      /\ p.op \in {"set_role", "delete"} /\ p.step # "target" => role[p.target] # "unborn"
      /\ r \in raced \/ RaceOK(p)
  BY RequestKnown, StepKnown DEF BegunOK
<1>1. ASSUME WriteTarget(r) PROVE \E q : GoesOnTo(r, q)
  <2> DEFINE step == IF p.op = "delete" THEN "commit" ELSE "audit"
             q == [req[r] EXCEPT !.step = step]
  <2>1. /\ p.step = "write" /\ p.op \in {"set_role", "delete"}
        /\ p.actor \in Users /\ p.target \in Users
    BY <1>1, StepKnown DEF WriteTarget, RequestOK
  <2>2. req' = [req EXCEPT ![r] = q] /\ UNCHANGED <<role, configured, keys, raced>>
    BY <1>1, RequestKnown DEF WriteTarget, Goto
  <2>3. /\ q \in Request /\ q.step = step /\ q.op = p.op /\ q.actor = p.actor
        /\ q.target = p.target /\ q.to = p.to
    <3>1. step \in Steps
      BY DEF Steps
    <3> QED
      BY <3>1, AtStep
  <2>4. p.op = "delete" => \A s \in Requests \ {r} : ~Refers(req[s], p.target)
    <3>1. p.op = "delete" => Referrers(p.target) \ {r} = {}
      BY <1>1 DEF WriteTarget, Free, Blockers
    <3> QED
      BY <2>1, <3>1, LockHolders DEF AccountsInv
  <2>5. p.op = "delete" => Refers(p, p.actor)
    BY <2>1 DEF Refers
  <2>6. p.op = "delete" =>
          p.actor \in Present /\ \A s \in Requests \ {r} : ~Deletes(req[s], p.actor)
    BY <2>1, <2>5 DEF AccountsInv, ActorInv
  <2>7. RaceOK(q) \/ r \in raced
    BY <1>0, <2>1, <2>3 DEF RaceOK, Demotes
  <2>8. step \in {"commit", "audit"} /\ (step = "commit" => p.op = "delete")
    BY <2>1
  <2> HIDE DEF q, step
  <2>9. RequestOK(q) /\ BegunOK(q) /\ SetupOK(q) /\ ~Configures(q) /\ q.step # "idle"
    BY <1>0, <2>1, <2>3, <2>8 DEF RequestOK, BegunOK, SetupOK, Configures
  <2>10. ASSUME NEW u \in Users, Refers(q, u)
         PROVE  u \in Present /\ \A s \in Requests \ {r} : ~Deletes(req[s], u)
    BY <2>3, <2>6, <2>8, <2>10 DEF Refers
  <2>11. ASSUME NEW u \in Users, Deletes(q, u)
         PROVE  \A s \in Requests \ {r} : ~Refers(req[s], u)
    BY <2>3, <2>4, <2>11 DEF Deletes
  <2> QED
    BY <2>2, <2>3, <2>7, <2>9, <2>10, <2>11 DEF GoesOnTo
<1>2. ASSUME Audit(r), ~Refuse(r) PROVE \E q : GoesOnTo(r, q)
  <2> DEFINE step == IF p.op = "delete" THEN "write" ELSE "commit"
             q == [req[r] EXCEPT !.step = step]
  <2>1. /\ p.step = "audit" /\ p.op \in {"create", "set_role", "delete", "issue"}
        /\ p.actor \in Users /\ (p.op \in {"set_role", "delete"} => p.target \in Users)
        /\ p.actor \in Present /\ Deleters(p.actor) \ {r} = {}
    BY <1>2, StepKnown DEF Audit, RequestOK, Free, Blockers
  <2>2. req' = [req EXCEPT ![r] = q] /\ UNCHANGED <<role, configured, keys, raced>>
    BY <1>2, RequestKnown DEF Audit, Goto
  <2>3. /\ q \in Request /\ q.step = step /\ q.op = p.op /\ q.actor = p.actor
        /\ q.target = p.target /\ q.to = p.to
    <3>1. step \in Steps
      BY DEF Steps
    <3> QED
      BY <3>1, AtStep
  <2>4. \A s \in Requests \ {r} : ~Deletes(req[s], p.actor)
    BY <2>1, LockHolders DEF AccountsInv
  <2>5. RaceOK(q) \/ r \in raced
    BY <1>0, <2>1, <2>3 DEF RaceOK, Demotes
  <2>6. step \in {"write", "commit"} /\ (step = "write" <=> p.op = "delete")
    OBVIOUS
  <2> HIDE DEF q, step
  <2>7. RequestOK(q) /\ BegunOK(q) /\ SetupOK(q) /\ ~Configures(q) /\ q.step # "idle"
    BY <1>0, <2>1, <2>3, <2>6 DEF RequestOK, BegunOK, SetupOK, Configures
  <2>8. ASSUME NEW u \in Users, Refers(q, u)
        PROVE  u \in Present /\ \A s \in Requests \ {r} : ~Deletes(req[s], u)
    BY <2>1, <2>3, <2>4, <2>8 DEF Refers
  <2>9. \A u \in Users : ~Deletes(q, u)
    BY <2>3, <2>6 DEF Deletes
  <2> QED
    BY <2>2, <2>3, <2>5, <2>7, <2>8, <2>9 DEF GoesOnTo
<1> QED
  BY <1>1, <1>2

-----------------------------------------------------------------------------
(* Commits *)

\* What a commit does to a user: nothing, a birth, or a change of its target.
LEMMA RolesChange ==
    ASSUME AccountsInv, NEW r \in Requests, CommitRequest(r)
    PROVE  /\ role' \in [Users -> UserStates]
           /\ \A u \in Users :
                \/ role'[u] = role[u]
                \/ /\ role[u] = "unborn" /\ role'[u] \in Roles
                   /\ req[r].op \in {"setup", "create"}
                \/ /\ u = req[r].target /\ u \in Present
                   /\ \/ req[r].op = "set_role" /\ role'[u] = req[r].to
                      \/ req[r].op = "delete" /\ role'[u] = "deleted"
           /\ req[r].op = "issue" => role' = role
<1> DEFINE p == req[r]
<1>0. /\ role \in [Users -> UserStates] /\ p.to \in Roles /\ role' \in NewRoles(r)
      /\ p.op \in {"set_role", "delete"} => p.target \in Users
  BY RequestKnown, StepKnown DEF AccountsInv, AccountsTypeOK, CommitRequest, RequestOK
<1>1. CASE p.op \in {"setup", "create"}
  <2>1. PICK u \in Unborn : role' = [role EXCEPT ![u] = IF p.op = "setup" THEN "admin" ELSE p.to]
    BY <1>0, <1>1 DEF NewRoles
  <2> QED
    BY <1>0, <1>1, <2>1 DEF Unborn, Roles, UserStates
<1>2. CASE p.op = "set_role" /\ p.target \in Present
  BY <1>0, <1>2 DEF NewRoles, UserStates
<1>3. CASE p.op = "delete" /\ p.target \in Present
  BY <1>0, <1>3 DEF NewRoles, UserStates
<1>4. CASE /\ p.op \notin {"setup", "create"}
           /\ ~(p.op \in {"set_role", "delete"} /\ p.target \in Present)
  BY <1>0, <1>4 DEF NewRoles
<1> QED
  BY <1>1, <1>2, <1>3, <1>4

LEMMA CommitKeeps ==
    ASSUME AccountsInv, NEW r \in Requests, CommitRequest(r)
    PROVE  AccountsInv'
<1> DEFINE p == req[r]
<1>0. /\ p.step = "commit" /\ req \in [Requests -> Request]
      /\ configured' = (configured \/ p.op = "setup")
      /\ raced' = (IF role' # role THEN Busy ELSE raced) \ {r}
      /\ keys' = (keys \cup (IF p.op = "issue" THEN {p.actor} ELSE {}))
                   \ {u \in Users : role'[u] = "deleted"}
      /\ req' = [req EXCEPT ![r] = NoRequest]
  BY RequestKnown DEF CommitRequest, Over
<1>1. /\ NoRequest \in Request /\ RequestOK(NoRequest) /\ ~Configures(NoRequest)
      /\ \A u \in Users : ~Refers(NoRequest, u)
  BY DEF NoRequest, Request, Ops, Steps, Roles, RequestOK, Configures, Refers
<1>2. \A s \in Requests : req'[s] = IF s = r THEN NoRequest ELSE req[s]
  BY <1>0
<1>3. /\ role' \in [Users -> UserStates]
      /\ \A u \in Users :
           \/ role'[u] = role[u]
           \/ role[u] = "unborn" /\ role'[u] \in Roles /\ p.op \in {"setup", "create"}
           \/ /\ u = p.target /\ u \in Present
              /\ \/ p.op = "set_role" /\ role'[u] = p.to
                 \/ p.op = "delete" /\ role'[u] = "deleted"
      /\ p.op = "issue" => role' = role
  BY RolesChange
<1>4. /\ RequestOK(p) /\ BegunOK(p) /\ p.to \in Roles
      /\ \A u \in Users : /\ u \in Present <=> role[u] \in Roles
                          /\ u \in Present' <=> role'[u] \in Roles
                          /\ role[u] \in UserStates
  BY RequestKnown, StepKnown DEF Present
<1>5. \A u \in Users : role[u] # "unborn" => role'[u] # "unborn"
  BY <1>3, <1>4 DEF Roles
\* A user who is gone stays gone, and who is referred to by others stays.
<1>6. /\ \A u \in Users : u \in Present' /\ role[u] # "unborn" => u \in Present
      /\ \A u \in Users, s \in Requests \ {r} : Refers(req[s], u) => u \in Present'
  <2>1. ASSUME NEW u \in Users, u \in Present', role[u] # "unborn" PROVE u \in Present
    BY <1>3, <1>4, <2>1 DEF Roles
  <2>2. ASSUME NEW u \in Users, NEW s \in Requests \ {r}, Refers(req[s], u) PROVE u \in Present'
    <3>1. u \in Present /\ ~Deletes(p, u)
      BY <2>2 DEF AccountsInv, ActorInv
    <3>2. ~(u = p.target /\ p.op = "delete")
      BY <1>0, <3>1 DEF Deletes
    <3> QED
      BY <1>3, <1>4, <3>1, <3>2 DEF Roles
  <2> QED
    BY <2>1, <2>2
<1>7. AccountsTypeOK'
  <2>1. keys' \subseteq Present'
    <3>1. ASSUME NEW u \in keys PROVE u \in Users /\ (role'[u] # "deleted" => u \in Present')
      <4>1. u \in Users /\ u \in Present
        BY DEF AccountsInv, AccountsTypeOK, Present
      <4> QED
        BY <1>3, <1>4, <4>1 DEF Roles
    <3>2. p.op = "issue" => p.actor \in Users /\ p.actor \in Present'
      <4>1. p.op = "issue" => p.actor \in Users /\ Refers(p, p.actor)
        BY <1>0, <1>4 DEF RequestOK, Refers
      <4>2. p.op = "issue" => p.actor \in Present
        BY <4>1 DEF AccountsInv, ActorInv
      <4> QED
        BY <1>3, <1>4, <4>1, <4>2
    <3> QED
      BY <1>0, <3>1, <3>2
  <2>2. raced' \subseteq Busy'
    BY <1>0, <1>2 DEF AccountsInv, AccountsTypeOK, Busy
  <2>3. configured' \in BOOLEAN /\ req' \in [Requests -> Request]
    BY <1>0, <1>1 DEF AccountsInv, AccountsTypeOK
  <2> QED
    BY <1>3, <2>1, <2>2, <2>3 DEF AccountsTypeOK
<1>8. BegunInv'
  <2>1. ASSUME NEW u \in Users, role'[u] # "unborn" PROVE configured'
    BY <1>0, <1>3, <1>4, <2>1 DEF AccountsInv, BegunInv, BegunOK, Present, Roles
  <2>2. ASSUME NEW s \in Requests PROVE RequestOK(req[s])' /\ BegunOK(req[s])'
    <3>1. RequestOK(req[s]) /\ BegunOK(req[s])
      BY StepKnown
    <3> QED
      BY <1>0, <1>1, <1>2, <1>5, <3>1 DEF RequestOK, BegunOK, NoRequest
  <2> QED
    BY <2>1, <2>2 DEF BegunInv
<1>9. SetupInv'
  <2>1. ASSUME NEW s \in Requests, Configures(req'[s]) PROVE req'[s].sawRow \/ ~configured'
    <3>1. s # r /\ Configures(req[s]) /\ req'[s] = req[s]
      BY <1>1, <1>2, <2>1
    <3>2. p.op # "setup"
      BY <1>0, <3>1 DEF AccountsInv, SetupInv, Configures
    <3> QED
      BY <1>0, <3>1, <3>2 DEF AccountsInv, SetupInv, SetupOK
  <2>2. \A s, t \in Requests : Configures(req'[s]) /\ Configures(req'[t]) => s = t
    BY <1>1, <1>2 DEF AccountsInv, SetupInv
  <2> QED
    BY <2>1, <2>2 DEF SetupInv, SetupOK, Configures
<1>10. ActorInv'
  <2> SUFFICES ASSUME NEW u \in Users, NEW s \in Requests, Refers(req'[s], u)
               PROVE  /\ u \in Present'
                      /\ \A t \in Requests : Deletes(req[t], u)' => t = s
    BY DEF ActorInv, Refers
  <2>1. s # r /\ Refers(req[s], u)
    BY <1>1, <1>2
  <2>2. u \in Present' /\ u \in Present
    BY <1>6, <2>1 DEF AccountsInv, ActorInv
  <2>3. ASSUME NEW t \in Requests, Deletes(req[t], u)' PROVE t = s
    <3>1. t # r
      BY <1>2, <2>3 DEF Deletes, NoRequest
    <3>2. Deletes(req[t], u)
      BY <1>2, <2>2, <2>3, <3>1 DEF Deletes
    <3> QED
      BY <2>1, <3>2 DEF AccountsInv, ActorInv
  <2> QED
    BY <2>2, <2>3
<1>11. RaceInv'
  <2> SUFFICES ASSUME NEW s \in Requests, s \notin raced' PROVE RaceOK(req[s])'
    BY DEF RaceInv
  <2>1. CASE s = r
    BY <1>2, <2>1 DEF RaceOK, NoRequest
  <2>2. CASE s # r /\ s \notin Busy
    BY <1>2, <2>2 DEF RaceOK, Busy
  <2>3. CASE s # r /\ s \in Busy
    <3>1. role' = role /\ s \notin raced
      BY <1>0, <2>3
    <3>2. Admins' = Admins /\ RaceOK(req[s])
      BY <3>1 DEF Admins, AccountsInv, RaceInv
    <3> QED
      BY <1>2, <2>3, <3>2 DEF RaceOK, Demotes
  <2> QED
    BY <2>1, <2>2, <2>3
<1> QED
  BY <1>7, <1>8, <1>9, <1>10, <1>11 DEF AccountsInv

\* Only the keys change, and they are fewer.
LEMMA RevokeKeeps ==
    ASSUME AccountsInv, NEW u \in Users, RevokeKey(u)
    PROVE  AccountsInv'
<1>1. UNCHANGED <<role, configured, req, raced>> /\ keys' \subseteq keys
  BY DEF RevokeKey
<1> QED
  BY <1>1 DEF AccountsInv, AccountsTypeOK, BegunInv, RequestOK, BegunOK, SetupInv, SetupOK, Configures,
              ActorInv, Refers, Deletes, RaceInv, RaceOK, Demotes, Present, Admins, Busy

\* What a step is: it changes no more than a request, commits, or revokes a key.
LEMMA StepKinds ==
    ASSUME AccountsInv, [AccountsNext]_accountsVars
    PROVE  \/ \E r \in Requests : Refuse(r) \/ CommitRequest(r) \/ \E q : GoesOnTo(r, q)
           \/ \E u \in Users : RevokeKey(u)
           \/ UNCHANGED accountsVars
<1>1. ASSUME NEW r \in Requests, RequestStep(r)
      PROVE  Refuse(r) \/ CommitRequest(r) \/ \E q : GoesOnTo(r, q)
  <2>1. CASE InsertAdmin(r) \/ WriteSettings(r)
    BY <2>1, SetupsGoOn
  <2>2. CASE ReadTarget(r) \/ CountAdmins(r)
    BY <2>2, TargetsGoOn
  <2>3. CASE WriteTarget(r) \/ Audit(r)
    BY <2>3, WritesGoOn
  <2>4. CASE CommitRequest(r) \/ AbortVictim(r)
    BY <2>4 DEF AbortVictim
  <2> QED
    BY <1>1, <2>1, <2>2, <2>3, <2>4 DEF RequestStep
<1> QED
  BY <1>1, BeginsKeep DEF AccountsNext

LEMMA AccountsKeep ==
    ASSUME AccountsInv, [AccountsNext]_accountsVars
    PROVE  AccountsInv'
<1>1. ASSUME NEW r \in Requests, NEW q, GoesOnTo(r, q) PROVE AccountsInv'
  BY <1>1, RequestGoesOn DEF GoesOnTo
<1>2. ASSUME UNCHANGED accountsVars PROVE AccountsInv'
  BY <1>2 DEF accountsVars, AccountsInv, AccountsTypeOK, BegunInv, RequestOK, BegunOK, SetupInv,
              SetupOK, Configures, ActorInv, Refers, Deletes, RaceInv, RaceOK, Demotes,
              Present, Admins, Busy
<1> QED
  BY <1>1, <1>2, StepKinds, RefusalKeeps, CommitKeeps, RevokeKeeps

LEMMA AccountsInvariant == AccountsSpec => []AccountsInv
<1>1. AccountsInv /\ [AccountsNext]_accountsVars => AccountsInv'
  BY AccountsKeep
<1> QED
  BY <1>1, AccountsStart, PTL DEF AccountsSpec

-----------------------------------------------------------------------------
(* Theorems *)

\* Rows, keys and requests of services/users.py, setup.py and api_keys.py keep
\* their types, and no key outlives its user, for any number of users and requests.
THEOREM AccountsTyped == AccountsSpec => []AccountsTypeOK
<1>1. AccountsInv => AccountsTypeOK
  BY DEF AccountsInv
<1> QED
  BY <1>1, AccountsInvariant, PTL

\* SetupService.complete: of any number of overlapping setups one commits; another
\* can only after it has found the settings row of the first.
THEOREM SetupsExclude == AccountsSpec => SecondSetupSawFirst
<1>1. ASSUME AccountsInv, NEW r \in Requests, Commits(r), req[r].op = "setup", Present # {}
      PROVE  req[r].sawRow
  <2>1. SetupOK(req[r]) /\ Configures(req[r])
    BY <1>1 DEF AccountsInv, SetupInv, Configures, Commits
  <2>2. configured
    BY <1>1 DEF AccountsInv, BegunInv, Present, Roles
  <2> QED
    BY <2>1, <2>2 DEF SetupOK
<1>2. AccountsInv =>
        [\A r \in Requests : Commits(r) /\ req[r].op = "setup" /\ Present # {}
            => req[r].sawRow]_accountsVars
  BY <1>1
<1> QED
  BY <1>2, AccountsInvariant, PTL DEF SecondSetupSawFirst

\* What a step does to the users, it does by a commit.
LEMMA RolesOnlyByCommit ==
    ASSUME AccountsInv, [AccountsNext]_accountsVars, role' # role
    PROVE  \E s \in Requests : CommitRequest(s)
BY StepKinds DEF Refuse, GoesOnTo, RevokeKey, accountsVars

\* The audit row of every request keeps its actor's row until the commit, unless
\* the actor deletes himself.
THEOREM ActorsStay == AccountsSpec => ActorOutlivesRequest
<1>1. ASSUME AccountsInv, [AccountsNext]_accountsVars,
             NEW r \in Requests, Commits(r), req[r].op # "setup"
      PROVE  req[r].actor \in Present' \cup {req[r].target}
  <2> DEFINE a == req[r].actor
  <2>1. a \in Users /\ Refers(req[r], a)
    BY <1>1, StepKnown DEF RequestOK, Refers, Commits
  <2>2. a \in Present /\ \A s \in Requests : Deletes(req[s], a) => s = r
    BY <1>1, <2>1 DEF AccountsInv, ActorInv
  <2>3. CASE role' = role
    BY <2>2, <2>3 DEF Present
  <2>4. CASE role' # role
    <3>1. PICK s \in Requests : CommitRequest(s)
      BY <1>1, <2>4, RolesOnlyByCommit
    <3>2. \/ role'[a] = role[a]
          \/ role[a] = "unborn" /\ role'[a] \in Roles
          \/ /\ a = req[s].target
             /\ \/ req[s].op = "set_role" /\ role'[a] = req[s].to
                \/ req[s].op = "delete"
      BY <1>1, <2>1, <3>1, RolesChange
    <3>3. CASE a = req[s].target /\ req[s].op = "delete"
      BY <2>2, <3>1, <3>3 DEF Deletes, CommitRequest
    <3>4. CASE role'[a] \in Roles
      BY <2>1, <3>4 DEF Present
    <3>5. req[s].to \in Roles /\ role[a] \in Roles
      BY <1>1, <2>1, <2>2, RequestKnown
    <3> QED
      BY <3>2, <3>3, <3>4, <3>5
  <2> QED
    BY <2>3, <2>4
<1>2. AccountsInv /\ [AccountsNext]_accountsVars =>
        [\A r \in Requests : Commits(r) /\ req[r].op # "setup"
            => req[r].actor \in Present' \cup {req[r].target}]_accountsVars
  BY <1>1
<1> QED
  BY <1>2, AccountsInvariant, PTL DEF AccountsSpec, ActorOutlivesRequest

\* UserService.set_role and delete lose the last administrator only when another
\* request's commit has come between a request's count and its own commit.
THEOREM LastAdminNeedsRace == AccountsSpec => AdminsLostOnlyByRace
<1>1. ASSUME AccountsInv, [AccountsNext]_accountsVars, Admins # {}, Admins' = {}
      PROVE  \E r \in raced : Commits(r)
  <2>1. role' # role
    BY <1>1 DEF Admins
  <2>2. PICK r \in Requests : CommitRequest(r)
    BY <1>1, <2>1, RolesOnlyByCommit
  <2>3. Commits(r)
    BY <1>1, <2>2, RequestKnown DEF CommitRequest, Over, Commits, NoRequest
  <2>4. ASSUME NEW b \in Admins
        PROVE  b = req[r].target /\ Demotes(req[r])
    <3>1. b \in Users /\ role[b] = "admin" /\ role'[b] # "admin"
      BY <1>1 DEF Admins
    <3> QED
      BY <1>1, <2>2, <3>1, RolesChange DEF Demotes
  <2>5. r \in raced \/ RaceOK(req[r])
    BY <1>1, RequestKnown
  <2>6. ~RaceOK(req[r])
    BY <1>1, <2>3, <2>4 DEF RaceOK, Commits
  <2> QED
    BY <2>3, <2>5, <2>6
<1>2. AccountsInv /\ [AccountsNext]_accountsVars =>
        [Admins # {} /\ Admins' = {} => \E r \in raced : Commits(r)]_accountsVars
  BY <1>1
<1> QED
  BY <1>2, AccountsInvariant, PTL DEF AccountsSpec, AdminsLostOnlyByRace

-----------------------------------------------------------------------------
(* Login *)

\* Whoever is past its check of a key that is locked was so when the lock was set.
GuardInv == \A k \in GuardKeys : \A a \in PastCheck(k) :
    Locked(k) /\ (k = "ip" \/ EmailOf[a] = k) => a \in inside[k]

\* The steps that follow the hit of k.
BeforeIpHit == {"new", "check_ip", "hit_ip"}
BeforeHit(k) == IF k = "ip" THEN BeforeIpHit ELSE BeforeIpHit \cup {"hit_email"}

\* The hits of k that were let through, each by another attempt, are all in the sorted set
\* as long as they are in a window, and the key is there until then.
PassInv == \A k \in GuardKeys :
    /\ IsFiniteSet(hits[k])
    /\ \A p \in passed[k] :
        /\ p.score <= p.time /\ p.time <= clock /\ p.time + Window <= hitEnd[k]
        /\ clock < p.score + Window => [by |-> p.by, score |-> p.score] \in hits[k]
        /\ attempt[p.by].step \notin BeforeHit(k)
        /\ k = "ip" \/ k = EmailOf[p.by]
    /\ \A p, q \in passed[k] : p.by = q.by => p = q

\* What was timed and taken in the window that ends at last.
PassedIn(k, last) == {p \in passed[k] : p.score + Window > last /\ p.time <= last}

RateInv == \A k \in GuardKeys, last \in Nat :
    /\ IsFiniteSet(PassedIn(k, last))
    /\ Cardinality(PassedIn(k, last)) <= Limit

LoginInv == LoginTypeOK /\ GuardInv /\ PassInv /\ RateInv

-----------------------------------------------------------------------------
\* What LoginAssumption says of each constant.
LEMMA LoginConstants ==
    /\ Limit \in Nat /\ Window \in Nat \ {0} /\ LockTime \in Nat \ {0} /\ MaxClock \in Nat
    /\ Threshold \in Nat \ {0} /\ FailWindow \in Nat \ {0}
    /\ "ip" \notin Emails /\ EmailOf \in [Attempts -> Emails]
    /\ \A a \in Attempts : EmailOf[a] \in GuardKeys
    /\ "ip" \in GuardKeys
  BY LoginAssumption DEF GuardKeys

\* An attempt moves.
LEMMA AttemptMoves ==
    ASSUME LoginTypeOK, NEW a \in Attempts, NEW r \in Attempt, attempt' = [attempt EXCEPT ![a] = r]
    PROVE  /\ attempt' \in [Attempts -> Attempt]
           /\ attempt'[a] = r
           /\ \A b \in Attempts \ {a} : attempt'[b] = attempt[b]
  BY DEF LoginTypeOK

\* A moved attempt is one.
LEMMA AttemptIs ==
    ASSUME NEW step \in LoginSteps, NEW t \in Nat
    PROVE  [step |-> step, at |-> t] \in Attempt /\ [step |-> step, at |-> t].step = step
  BY DEF Attempt

\* Move gives an attempt its next step and leaves the rest of it.
LEMMA MoveIs ==
    ASSUME LoginTypeOK, NEW a \in Attempts, NEW step \in LoginSteps, Move(a, step)
    PROVE  \E r \in Attempt : attempt' = [attempt EXCEPT ![a] = r] /\ r.step = step
<1>1. attempt[a] \in Attempt
  BY DEF LoginTypeOK
<1>2. [attempt[a] EXCEPT !.step = step] \in Attempt /\ [attempt[a] EXCEPT !.step = step].step = step
  BY <1>1 DEF Attempt
<1>3. QED BY <1>2 DEF Move

\* A hit within the limit: the window that ends at the hit's moment, or later, holds no
\* more passes than the sorted set holds hits.
LEMMA CountOfKept ==
    ASSUME LoginInv, NEW k \in GuardKeys, NEW a \in Attempts, NEW t \in 0..clock,
           \A p \in passed[k] : p.by # a, WithinLimit(k, a, t), NEW last \in Nat, last >= clock
    PROVE  LET P == [by |-> a, score |-> t, time |-> clock]
               W == {p \in passed[k] \cup {P} : p.score + Window > last /\ p.time <= last}
           IN  IsFiniteSet(W) /\ Cardinality(W) <= Limit
<1> DEFINE P == [by |-> a, score |-> t, time |-> clock]
           W == {p \in passed[k] \cup {P} : p.score + Window > last /\ p.time <= last}
           K == WithHit(k, a, t)
           f == [p \in W |-> [by |-> p.by, score |-> p.score]]
<1>1. /\ clock \in Nat /\ t \in Nat /\ t <= clock /\ hitEnd[k] \in Nat
      /\ hits[k] \subseteq Hit /\ passed[k] \subseteq Pass
  BY LoginConstants DEF LoginInv, LoginTypeOK
<1>2. P \in Pass /\ P.by = a /\ P.score = t /\ P.time = clock
  BY <1>1 DEF Pass
<1>3. IsFiniteSet(K)
  <2>1. IsFiniteSet(hits[k])
    BY DEF LoginInv, PassInv
  <2>2. IsFiniteSet(Counted(k))
    BY <2>1, FS_EmptySet DEF Counted
  <2>3. IsFiniteSet({h \in Counted(k) : h.score + Window > t})
    BY <2>2, FS_Subset
  <2>4. QED BY <2>3, FS_AddElement DEF WithHit
<1>4. ASSUME NEW p \in W
      PROVE  [by |-> p.by, score |-> p.score] \in K
  <2>1. CASE p = P
    BY <1>2, <2>1 DEF WithHit
  <2>2. CASE p \in passed[k]
    <3>1. p \in Pass /\ p.score \in Nat /\ p.time \in Nat /\ p.score + Window > last
      BY <1>1, <1>4, <2>2 DEF Pass
    <3>2. p.score <= p.time /\ p.time + Window <= hitEnd[k]
      BY <2>2 DEF LoginInv, PassInv
    <3>3. clock < p.score + Window /\ t < p.score + Window /\ clock < hitEnd[k]
      BY <1>1, <3>1, <3>2, LoginConstants
    <3>4. [by |-> p.by, score |-> p.score] \in hits[k]
      BY <2>2, <3>3 DEF LoginInv, PassInv
    <3>5. [by |-> p.by, score |-> p.score] \in Counted(k)
      BY <3>3, <3>4 DEF Counted
    <3>6. QED BY <3>3, <3>5 DEF WithHit
  <2>3. QED BY <2>1, <2>2
<1>5. ASSUME NEW p \in W, NEW q \in W, f[p] = f[q]
      PROVE  p = q
  <2>1. p.by = q.by
    BY <1>5
  <2>2. CASE p = P \/ q = P
    BY <1>2, <2>1, <2>2
  <2>3. CASE p \in passed[k] /\ q \in passed[k]
    BY <2>1, <2>3 DEF LoginInv, PassInv
  <2>4. QED BY <2>2, <2>3
<1>6. f \in Injection(W, K)
  BY <1>4, <1>5 DEF Injection, IsInjective
<1>7. IsFiniteSet(W) /\ Cardinality(W) <= Cardinality(K)
  BY <1>3, <1>6, FS_Injection
<1>8. Cardinality(W) \in Nat /\ Cardinality(K) \in Nat
  BY <1>3, <1>7, FS_CardinalityType
<1>9. Cardinality(K) <= Limit
  BY DEF WithinLimit
<1>10. QED BY <1>7, <1>8, <1>9, LoginConstants

-----------------------------------------------------------------------------
\* An attempt that is at the hit of k makes it.
LEMMA HitKeeps ==
    ASSUME LoginInv, NEW k \in GuardKeys, NEW a \in Attempts, NEW t \in 0..clock,
           HitLimit(k, a, t), k = "ip" \/ k = EmailOf[a],
           attempt[a].step = IF k = "ip" THEN "hit_ip" ELSE "hit_email",
           NEW r \in Attempt, attempt' = [attempt EXCEPT ![a] = r],
           r.step \in {"hit_email", "verify", "refused"},
           k # "ip" => r.step # "hit_email",
           UNCHANGED <<clock, accounts, guardVars, sids>>
    PROVE  LoginInv'
<1>1. /\ LoginTypeOK /\ GuardInv /\ PassInv /\ RateInv
      /\ clock \in Nat /\ t \in Nat /\ t <= clock /\ clock' = clock
      /\ hitEnd \in [GuardKeys -> Nat] /\ hits[k] \in SUBSET Hit /\ passed[k] \in SUBSET Pass
  BY LoginConstants DEF LoginInv, LoginTypeOK
<1>2. /\ attempt'[a] = r /\ attempt' \in [Attempts -> Attempt]
      /\ \A b \in Attempts \ {a} : attempt'[b] = attempt[b]
  BY <1>1, AttemptMoves
<1> DEFINE P == [by |-> a, score |-> t, time |-> clock]
<1>3. /\ P \in Pass /\ P.by = a /\ P.score = t /\ P.time = clock
      /\ [by |-> a, score |-> t] \in Hit
  BY <1>1 DEF Pass, Hit
<1>4. /\ hits'[k] = WithHit(k, a, t) /\ hitEnd'[k] = clock + Window
      /\ \A l \in GuardKeys \ {k} : hits'[l] = hits[l] /\ hitEnd'[l] = hitEnd[l] /\ passed'[l] = passed[l]
      /\ passed'[k] = passed[k] \cup (IF WithinLimit(k, a, t) THEN {P} ELSE {})
  BY <1>1 DEF HitLimit, LoginTypeOK
<1> HIDE DEF P
<1>5. WithHit(k, a, t) \subseteq Hit /\ IsFiniteSet(WithHit(k, a, t))
  <2>1. Counted(k) \subseteq Hit /\ IsFiniteSet(Counted(k))
    BY <1>1, FS_EmptySet DEF Counted, PassInv
  <2>2. IsFiniteSet({h \in Counted(k) : h.score + Window > t})
    BY <2>1, FS_Subset
  <2>3. QED BY <1>3, <2>1, <2>2, FS_AddElement DEF WithHit
<1>6. LoginTypeOK'
  <2>1. hits' \in [GuardKeys -> SUBSET Hit]
    BY <1>1, <1>5 DEF HitLimit, LoginTypeOK
  <2>2. hitEnd' \in [GuardKeys -> Nat]
    BY <1>1, LoginConstants DEF HitLimit, LoginTypeOK
  <2>3. passed' \in [GuardKeys -> SUBSET Pass]
    BY <1>1, <1>3 DEF HitLimit, LoginTypeOK, P
  <2>4. sids' \subseteq {b \in Attempts : attempt'[b].step \in {"audit"} \cup Ended}
    <3>1. a \notin sids
      BY <1>1 DEF LoginTypeOK, Ended
    <3>2. QED BY <1>1, <1>2, <3>1 DEF LoginTypeOK
  <2>5. QED BY <1>1, <1>2, <2>1, <2>2, <2>3, <2>4 DEF LoginTypeOK, guardVars
<1>7. \A p \in passed[k] : p.by # a
  <2>1. \A p \in passed[k] : attempt[p.by].step \notin BeforeHit(k)
    BY <1>1 DEF PassInv
  <2>2. attempt[a].step \in BeforeHit(k)
    BY DEF BeforeHit, BeforeIpHit
  <2>3. QED BY <2>1, <2>2
<1>8. GuardInv'
  <2>1. \A l \in GuardKeys : PastCheck(l)' \subseteq PastCheck(l)
    BY <1>2 DEF PastCheck, Under, Ended
  <2>2. \A l \in GuardKeys : Locked(l)' = Locked(l) /\ inside'[l] = inside[l]
    BY DEF Locked, guardVars
  <2>3. QED BY <1>1, <2>1, <2>2 DEF GuardInv
<1>9. PassInv'
  <2>1. ASSUME NEW l \in GuardKeys, NEW p \in passed[l]
        PROVE  attempt'[p.by].step \notin BeforeHit(l) /\ p.by \in Attempts
    <3>1. p.by \in Attempts /\ attempt[p.by].step \notin BeforeHit(l)
      <4>1. p \in Pass
        BY <1>1 DEF LoginTypeOK
      <4>2. QED BY <1>1, <4>1 DEF PassInv, Pass
    <3>2. CASE p.by # a
      BY <1>2, <3>1, <3>2
    <3>3. CASE p.by = a
      <4>1. l = "ip" /\ k # "ip"
        BY <1>7, <3>1, <3>3, <1>1 DEF BeforeHit, BeforeIpHit, PassInv
      <4>2. QED BY <1>2, <3>3, <4>1 DEF BeforeHit, BeforeIpHit
    <3>4. QED BY <3>2, <3>3
  <2>2. ASSUME NEW l \in GuardKeys, l # k
        PROVE  /\ IsFiniteSet(hits'[l])
               /\ \A p \in passed'[l] :
                   /\ p.score <= p.time /\ p.time <= clock /\ p.time + Window <= hitEnd'[l]
                   /\ clock < p.score + Window => [by |-> p.by, score |-> p.score] \in hits'[l]
                   /\ attempt'[p.by].step \notin BeforeHit(l)
                   /\ l = "ip" \/ l = EmailOf[p.by]
               /\ \A p, q \in passed'[l] : p.by = q.by => p = q
    BY <1>1, <1>4, <2>1, <2>2 DEF PassInv
  <2>3. ASSUME NEW p \in passed[k]
        PROVE  /\ p.score <= p.time /\ p.time <= clock /\ p.time + Window <= hitEnd'[k]
               /\ clock < p.score + Window => [by |-> p.by, score |-> p.score] \in hits'[k]
               /\ k = "ip" \/ k = EmailOf[p.by]
    <3>1. p.score \in Nat /\ p.time \in Nat
      BY <1>1 DEF Pass
    <3>2. p.score <= p.time /\ p.time <= clock /\ p.time + Window <= hitEnd[k]
      BY <1>1 DEF PassInv
    <3>3. p.time + Window <= hitEnd'[k]
      BY <1>1, <1>4, <3>1, <3>2, LoginConstants
    <3>4. ASSUME clock < p.score + Window
          PROVE  [by |-> p.by, score |-> p.score] \in hits'[k]
      <4>1. [by |-> p.by, score |-> p.score] \in hits[k] /\ clock < hitEnd[k] /\ p.score + Window > t
        BY <1>1, <3>1, <3>2, <3>4, LoginConstants DEF PassInv
      <4>2. QED BY <1>4, <4>1 DEF WithHit, Counted
    <3>5. QED BY <1>1, <3>2, <3>3, <3>4 DEF PassInv
  <2>4. /\ P.score <= P.time /\ P.time <= clock /\ P.time + Window <= hitEnd'[k]
        /\ [by |-> P.by, score |-> P.score] \in hits'[k]
        /\ attempt'[P.by].step \notin BeforeHit(k)
        /\ k = "ip" \/ k = EmailOf[P.by]
    <3>1. attempt'[P.by].step \notin BeforeHit(k)
      BY <1>2, <1>3 DEF BeforeHit, BeforeIpHit
    <3>2. [by |-> P.by, score |-> P.score] \in hits'[k]
      BY <1>3, <1>4 DEF WithHit
    <3>3. QED BY <1>1, <1>3, <1>4, <3>1, <3>2, LoginConstants
  <2>5. \A p, q \in passed'[k] : p.by = q.by => p = q
    BY <1>1, <1>3, <1>4, <1>7 DEF PassInv
  <2>6. ASSUME NEW p \in passed'[k]
        PROVE  /\ p.score <= p.time /\ p.time <= clock /\ p.time + Window <= hitEnd'[k]
               /\ clock < p.score + Window => [by |-> p.by, score |-> p.score] \in hits'[k]
               /\ attempt'[p.by].step \notin BeforeHit(k)
               /\ k = "ip" \/ k = EmailOf[p.by]
    <3>1. p \in passed[k] \/ p = P
      BY <1>4
    <3>2. QED BY <2>1, <2>3, <2>4, <3>1
  <2>7. IsFiniteSet(hits'[k])
    BY <1>4, <1>5
  <2>8. ASSUME NEW l \in GuardKeys
        PROVE  /\ IsFiniteSet(hits'[l])
               /\ \A p \in passed'[l] :
                   /\ p.score <= p.time /\ p.time <= clock' /\ p.time + Window <= hitEnd'[l]
                   /\ clock' < p.score + Window => [by |-> p.by, score |-> p.score] \in hits'[l]
                   /\ attempt'[p.by].step \notin BeforeHit(l)
                   /\ l = "ip" \/ l = EmailOf[p.by]
               /\ \A p, q \in passed'[l] : p.by = q.by => p = q
    <3>1. CASE l = k
      BY <1>1, <2>5, <2>6, <2>7, <3>1
    <3>2. CASE l # k
      BY <1>1, <2>2, <3>2
    <3>3. QED BY <3>1, <3>2
  <2>9. QED BY <2>8 DEF PassInv
<1>10. RateInv'
  <2>1. SUFFICES ASSUME NEW l \in GuardKeys, NEW last \in Nat
                 PROVE  IsFiniteSet(PassedIn(l, last)') /\ Cardinality(PassedIn(l, last)') <= Limit
    BY DEF RateInv
  <2>2. IsFiniteSet(PassedIn(l, last)) /\ Cardinality(PassedIn(l, last)) <= Limit
    BY <1>1 DEF RateInv
  <2>3. CASE l # k \/ ~WithinLimit(k, a, t)
    <3>1. passed'[l] = passed[l]
      BY <1>4, <2>3
    <3>2. QED BY <2>2, <3>1 DEF PassedIn
  <2>4. CASE l = k /\ WithinLimit(k, a, t) /\ last < clock
    <3>1. PassedIn(l, last)' = PassedIn(l, last)
      BY <1>1, <1>3, <1>4, <2>4 DEF PassedIn
    <3>2. QED BY <2>2, <3>1
  <2>5. CASE l = k /\ WithinLimit(k, a, t) /\ last >= clock
    <3>1. PassedIn(l, last)' = {p \in passed[k] \cup {P} : p.score + Window > last /\ p.time <= last}
      BY <1>4, <2>5 DEF PassedIn
    <3>2. QED BY <1>7, <2>5, <3>1, CountOfKept DEF P
  <2>6. QED BY <1>1, <2>3, <2>4, <2>5
<1>11. QED BY <1>6, <1>8, <1>9, <1>10 DEF LoginInv

-----------------------------------------------------------------------------
\* Time passes, and attempts move beyond their hits: what was let through stays so.
LEMMA LimitsStay ==
    ASSUME LoginInv, UNCHANGED limitVars, clock' \in {clock, clock + 1},
           \A a \in Attempts, k \in GuardKeys :
               attempt[a].step \notin BeforeHit(k) => attempt'[a].step \notin BeforeHit(k)
    PROVE  PassInv' /\ RateInv'
<1>1. PassInv'
  <2>1. SUFFICES ASSUME NEW k \in GuardKeys, NEW p \in passed[k]
                 PROVE  /\ p.score <= p.time /\ p.time <= clock'
                        /\ clock' < p.score + Window => clock < p.score + Window
                        /\ attempt'[p.by].step \notin BeforeHit(k)
    BY DEF LoginInv, PassInv, limitVars
  <2>2. p \in Pass /\ clock \in Nat
    BY LoginConstants DEF LoginInv, LoginTypeOK
  <2>3. p.by \in Attempts /\ p.score \in Nat /\ p.time \in Nat
    BY <2>2 DEF Pass
  <2>4. p.score <= p.time /\ p.time <= clock /\ attempt[p.by].step \notin BeforeHit(k)
    BY DEF LoginInv, PassInv
  <2>5. QED BY <2>2, <2>3, <2>4, LoginConstants
<1>2. RateInv'
  BY DEF LoginInv, RateInv, PassedIn, limitVars
<1>3. QED BY <1>1, <1>2

\* Nobody new is past a check of a key that is locked.
LEMMA GuardsStay ==
    ASSUME LoginInv, UNCHANGED guardVars, clock' \in {clock, clock + 1},
           \A k \in GuardKeys : \A a \in PastCheck(k)' :
               a \in PastCheck(k) \/ (Locked(k) => k # "ip" /\ EmailOf[a] # k)
    PROVE  GuardInv'
<1>1. ASSUME NEW k \in GuardKeys, Locked(k)'
      PROVE  Locked(k)
  BY <1>1, LoginConstants DEF Locked, guardVars, LoginInv, LoginTypeOK
<1>2. QED BY <1>1 DEF LoginInv, GuardInv, guardVars, PastCheck, Under

\* The lock of k is set: whoever is past its check is recorded.
LEMMA FailureKeepsLimits ==
    ASSUME LoginInv, NEW l \in GuardKeys, RecordFailure(l), clock' = clock,
           \A k \in GuardKeys : PastCheck(k)' \subseteq PastCheck(k)
    PROVE  /\ GuardInv'
           /\ {failures', failEnd', lockEnd'} \subseteq [GuardKeys -> Nat]
           /\ inside' \in [GuardKeys -> SUBSET Attempts]
<1>1. /\ clock \in Nat /\ lockEnd \in [GuardKeys -> Nat] /\ failEnd \in [GuardKeys -> Nat]
      /\ failures \in [GuardKeys -> Nat] /\ inside \in [GuardKeys -> SUBSET Attempts]
  BY LoginConstants DEF LoginInv, LoginTypeOK
<1>2. Failed(l) + 1 \in Nat
  BY <1>1 DEF Failed
<1>3. PastCheck(l) \subseteq Attempts
  BY DEF PastCheck, Under
<1>4. \/ lockEnd' = lockEnd /\ inside' = inside
      \/ /\ lockEnd' = [lockEnd EXCEPT ![l] = clock + LockTime]
         /\ inside' = [inside EXCEPT ![l] = PastCheck(l)]
  BY DEF RecordFailure
<1>5. {failures', failEnd', lockEnd'} \subseteq [GuardKeys -> Nat]
  <2>1. failures' = [failures EXCEPT ![l] = Failed(l) + 1]
    BY DEF RecordFailure
  <2>2. failEnd' \in [GuardKeys -> Nat]
    BY <1>1, LoginConstants DEF RecordFailure
  <2>3. lockEnd' \in [GuardKeys -> Nat]
    BY <1>1, <1>4, LoginConstants
  <2>4. QED BY <1>1, <1>2, <2>1, <2>2, <2>3
<1>6. inside' \in [GuardKeys -> SUBSET Attempts]
  BY <1>1, <1>3, <1>4
<1>7. ASSUME NEW k \in GuardKeys, NEW a \in PastCheck(k)', Locked(k)', k = "ip" \/ EmailOf[a] = k
      PROVE  a \in inside'[k]
  <2>1. a \in PastCheck(k)
    BY <1>7
  <2>2. CASE Locked(k) /\ inside'[k] = inside[k]
    BY <1>7, <2>1, <2>2 DEF LoginInv, GuardInv
  <2>3. CASE k = l /\ inside'[k] = PastCheck(l)
    BY <2>1, <2>3
  <2>4. QED BY <1>1, <1>4, <1>7, <2>2, <2>3 DEF Locked
<1>8. GuardInv'
  BY <1>7 DEF GuardInv
<1>9. QED BY <1>5, <1>6, <1>8

\* A reset deletes counter and lock of k: what is not locked binds nobody.
LEMMA ResetKeeps ==
    ASSUME LoginInv, NEW l \in GuardKeys, ResetGuard(l), clock' = clock,
           \A k \in GuardKeys : PastCheck(k)' \subseteq PastCheck(k)
    PROVE  /\ GuardInv'
           /\ {failures', failEnd', lockEnd'} \subseteq [GuardKeys -> Nat]
           /\ inside' \in [GuardKeys -> SUBSET Attempts]
<1>1. /\ clock \in Nat /\ lockEnd \in [GuardKeys -> Nat] /\ failEnd \in [GuardKeys -> Nat]
      /\ failures \in [GuardKeys -> Nat] /\ inside \in [GuardKeys -> SUBSET Attempts]
  BY LoginConstants DEF LoginInv, LoginTypeOK
<1>2. {failures', failEnd', lockEnd'} \subseteq [GuardKeys -> Nat] /\ UNCHANGED inside
  BY <1>1 DEF ResetGuard
<1>3. \A k \in GuardKeys : Locked(k)' => Locked(k)
  BY <1>1 DEF ResetGuard, Locked
<1>4. GuardInv'
  BY <1>2, <1>3 DEF LoginInv, GuardInv
<1>5. QED BY <1>1, <1>2, <1>4

-----------------------------------------------------------------------------
\* At first nobody has been let through and nothing is locked.
LEMMA LoginInitOK == LoginInit => LoginInv
<1> SUFFICES ASSUME LoginInit PROVE LoginInv
  OBVIOUS
<1>1. LoginTypeOK
  BY LoginConstants DEF LoginInit, LoginTypeOK, Attempt, LoginSteps
<1>2. GuardInv /\ PassInv
  BY FS_EmptySet DEF LoginInit, GuardInv, PassInv, PastCheck, Under
<1>3. RateInv
  <2>1. \A k \in GuardKeys, last \in Nat : PassedIn(k, last) = {}
    BY DEF LoginInit, PassedIn
  <2>2. QED BY <2>1, FS_EmptySet, LoginConstants DEF RateInv
<1>4. QED BY <1>1, <1>2, <1>3 DEF LoginInv

\* An attempt that has done its hits, or is refused, moves on, and neither the limits nor
\* the guard change.
LEMMA MoveKeeps ==
    ASSUME LoginInv, NEW a \in Attempts, NEW r \in Attempt, attempt' = [attempt EXCEPT ![a] = r],
           UNCHANGED limitVars, clock' = clock, UNCHANGED accounts,
           \A k \in GuardKeys : attempt[a].step \notin BeforeHit(k) => r.step \notin BeforeHit(k),
           sids' \subseteq Attempts,
           \A b \in sids' : attempt'[b].step \in {"audit"} \cup Ended,
           GuardInv',
           {failures', failEnd', lockEnd'} \subseteq [GuardKeys -> Nat],
           inside' \in [GuardKeys -> SUBSET Attempts]
    PROVE  LoginInv'
<1>1. LoginTypeOK
  BY DEF LoginInv
<1>2. /\ attempt'[a] = r /\ attempt' \in [Attempts -> Attempt]
      /\ \A b \in Attempts \ {a} : attempt'[b] = attempt[b]
  BY <1>1, AttemptMoves
<1>3. LoginTypeOK'
  BY <1>1, <1>2 DEF LoginTypeOK, limitVars
<1>4. PassInv' /\ RateInv'
  BY <1>2, LimitsStay
<1>5. QED BY <1>3, <1>4 DEF LoginInv

\* The same of a move that leaves the guard and the sessions alone.
LEMMA QuietMoveKeeps ==
    ASSUME LoginInv, NEW a \in Attempts, NEW r \in Attempt, attempt' = [attempt EXCEPT ![a] = r],
           UNCHANGED <<clock, accounts, loginRedis>>,
           \A k \in GuardKeys : attempt[a].step \notin BeforeHit(k) => r.step \notin BeforeHit(k),
           a \in sids => r.step \in {"audit"} \cup Ended,
           \A k \in GuardKeys : a \in PastCheck(k)' =>
               a \in PastCheck(k) \/ (Locked(k) => k # "ip" /\ EmailOf[a] # k)
    PROVE  LoginInv'
<1>1. LoginTypeOK
  BY DEF LoginInv
<1>2. /\ attempt'[a] = r /\ attempt' \in [Attempts -> Attempt]
      /\ \A b \in Attempts \ {a} : attempt'[b] = attempt[b]
  BY <1>1, AttemptMoves
<1>3. /\ UNCHANGED limitVars /\ UNCHANGED guardVars /\ UNCHANGED sids
      /\ UNCHANGED <<failures, failEnd, lockEnd, inside>>
  BY DEF loginRedis, guardVars
<1>4. \A k \in GuardKeys : \A b \in PastCheck(k)' :
          b \in PastCheck(k) \/ (Locked(k) => k # "ip" /\ EmailOf[b] # k)
  BY <1>2 DEF PastCheck, Under
<1>5. GuardInv'
  BY <1>3, <1>4, GuardsStay
<1>6. \A b \in sids' : b \in Attempts /\ attempt'[b].step \in {"audit"} \cup Ended
  BY <1>1, <1>2, <1>3 DEF LoginTypeOK
<1>7. {failures', failEnd', lockEnd'} \subseteq [GuardKeys -> Nat] /\ inside' \in [GuardKeys -> SUBSET Attempts]
  BY <1>1, <1>3 DEF LoginTypeOK
<1>8. QED BY <1>3, <1>5, <1>6, <1>7, MoveKeeps

\* No handler of the login form, no other session and no passing of time breaks it.
LEMMA LoginStep == LoginInv /\ [LoginNext]_loginVars => LoginInv'
<1> SUFFICES ASSUME LoginInv, [LoginNext]_loginVars PROVE LoginInv'
  OBVIOUS
<1>1. LoginTypeOK /\ GuardInv
  BY DEF LoginInv
<1>2. ASSUME NEW a \in Attempts, CheckEmail(a) PROVE LoginInv'
  <2>1. PICK r \in Attempt : /\ attempt' = [attempt EXCEPT ![a] = r]
                             /\ r.step = IF Locked(EmailOf[a]) THEN "refused" ELSE "check_ip"
    BY <1>1, <1>2, MoveIs DEF CheckEmail, LoginSteps
  <2>2. attempt'[a] = r
    BY <1>1, <2>1, AttemptMoves
  <2>3. a \notin sids /\ \A k \in GuardKeys : attempt[a].step \in BeforeHit(k)
    BY <1>1, <1>2 DEF CheckEmail, BeforeHit, BeforeIpHit, LoginTypeOK, Ended
  <2>4. \A k \in GuardKeys : a \in PastCheck(k)' =>
               a \in PastCheck(k) \/ (Locked(k) => k # "ip" /\ EmailOf[a] # k)
    BY <2>1, <2>2 DEF PastCheck, Under, Ended
  <2>5. QED BY <1>2, <2>1, <2>3, <2>4, QuietMoveKeeps DEF CheckEmail
<1>3. ASSUME NEW a \in Attempts, CheckIp(a) PROVE LoginInv'
  <2>1. clock \in Nat
    BY <1>1, LoginConstants DEF LoginTypeOK
  <2>2. PICK r \in Attempt : /\ attempt' = [attempt EXCEPT ![a] = r]
                             /\ r.step = IF Locked("ip") THEN "refused" ELSE "hit_ip"
    <3>1. CASE Locked("ip")
      BY <1>1, <1>3, <3>1, MoveIs DEF CheckIp, LoginSteps
    <3>2. CASE ~Locked("ip")
      BY <1>3, <2>1, <3>2, AttemptIs DEF CheckIp, LoginSteps
    <3>3. QED BY <3>1, <3>2
  <2>3. attempt'[a] = r
    BY <1>1, <2>2, AttemptMoves
  <2>4. a \notin sids /\ \A k \in GuardKeys : attempt[a].step \in BeforeHit(k)
    BY <1>1, <1>3 DEF CheckIp, BeforeHit, BeforeIpHit, LoginTypeOK, Ended
  <2>5. \A k \in GuardKeys : a \in PastCheck(k)' =>
               a \in PastCheck(k) \/ (Locked(k) => k # "ip" /\ EmailOf[a] # k)
    BY <1>3, <2>2, <2>3, LoginConstants DEF PastCheck, Under, Ended, CheckIp
  <2>6. QED BY <1>3, <2>2, <2>4, <2>5, QuietMoveKeeps DEF CheckIp
<1>4. ASSUME NEW a \in Attempts, HitIp(a) PROVE LoginInv'
  <2>1. PICK t \in attempt[a].at..clock :
            /\ HitLimit("ip", a, t)
            /\ attempt' = [attempt EXCEPT ![a] =
                   IF WithinLimit("ip", a, t) THEN [step |-> "hit_email", at |-> clock]
                                              ELSE [step |-> "refused", at |-> 0]]
    BY <1>4 DEF HitIp
  <2>2. clock \in Nat /\ t \in 0..clock
    BY <1>1, LoginConstants DEF LoginTypeOK, Attempt
  <2>3. PICK r \in Attempt : attempt' = [attempt EXCEPT ![a] = r] /\ r.step \in {"hit_email", "refused"}
    <3>1. CASE WithinLimit("ip", a, t)
      BY <2>1, <2>2, <3>1, AttemptIs DEF LoginSteps
    <3>2. CASE ~WithinLimit("ip", a, t)
      BY <2>1, <3>2, AttemptIs DEF LoginSteps
    <3>3. QED BY <3>1, <3>2
  <2>4. PICK k \in GuardKeys : k = "ip"
    BY LoginConstants
  <2>5. /\ HitLimit(k, a, t) /\ (k = "ip" \/ k = EmailOf[a])
        /\ attempt[a].step = (IF k = "ip" THEN "hit_ip" ELSE "hit_email")
        /\ r.step \in {"hit_email", "verify", "refused"} /\ (k # "ip" => r.step # "hit_email")
        /\ UNCHANGED <<clock, accounts, guardVars, sids>>
    BY <1>4, <2>1, <2>3, <2>4 DEF HitIp
  <2>6. QED BY <2>2, <2>3, <2>5, HitKeeps
<1>5. ASSUME NEW a \in Attempts, HitEmail(a) PROVE LoginInv'
  <2>1. PICK t \in attempt[a].at..clock :
            /\ HitLimit(EmailOf[a], a, t)
            /\ attempt' = [attempt EXCEPT ![a] =
                   [step |-> IF WithinLimit(EmailOf[a], a, t) THEN "verify" ELSE "refused", at |-> 0]]
    BY <1>5 DEF HitEmail
  <2>2. t \in 0..clock
    BY <1>1, LoginConstants DEF LoginTypeOK, Attempt
  <2>3. PICK r \in Attempt : attempt' = [attempt EXCEPT ![a] = r] /\ r.step \in {"verify", "refused"}
    <3>1. CASE WithinLimit(EmailOf[a], a, t)
      BY <2>1, <3>1, AttemptIs DEF LoginSteps
    <3>2. CASE ~WithinLimit(EmailOf[a], a, t)
      BY <2>1, <3>2, AttemptIs DEF LoginSteps
    <3>3. QED BY <3>1, <3>2
  <2>4. EmailOf[a] \in GuardKeys /\ EmailOf[a] # "ip"
    BY LoginConstants
  <2>5. /\ attempt[a].step = (IF EmailOf[a] = "ip" THEN "hit_ip" ELSE "hit_email")
        /\ UNCHANGED <<clock, accounts, guardVars, sids>>
    BY <1>5, <2>4 DEF HitEmail
  <2>6. PICK k \in GuardKeys : k = EmailOf[a] /\ k # "ip"
    BY <2>4
  <2>7. /\ HitLimit(k, a, t) /\ (k = "ip" \/ k = EmailOf[a])
        /\ attempt[a].step = (IF k = "ip" THEN "hit_ip" ELSE "hit_email")
        /\ r.step \in {"hit_email", "verify", "refused"} /\ (k # "ip" => r.step # "hit_email")
    BY <2>1, <2>3, <2>5, <2>6
  <2>8. QED BY <2>2, <2>3, <2>5, <2>7, HitKeeps
<1>6. ASSUME NEW a \in Attempts, Verify(a) \/ AuditLogin(a) \/ BreakOff(a) PROVE LoginInv'
  <2>1. /\ attempt[a].step \notin {"new"} \cup Ended
        /\ UNCHANGED <<clock, accounts, loginRedis>>
    BY <1>6 DEF Verify, AuditLogin, BreakOff, Under, Ended
  <2>2. PICK r \in Attempt : /\ attempt' = [attempt EXCEPT ![a] = r]
                             /\ r.step \in {"reset_email", "fail_email", "done", "lost"}
                             /\ attempt[a].step # "verify" => r.step \in Ended
                             /\ attempt[a].step = "check_ip" => r.step = "lost"
    BY <1>1, <1>6, MoveIs DEF Verify, AuditLogin, BreakOff, LoginSteps, Ended
  <2>3. attempt'[a] = r
    BY <1>1, <2>2, AttemptMoves
  <2>4. \A k \in GuardKeys : r.step \notin BeforeHit(k)
    BY <2>2 DEF BeforeHit, BeforeIpHit
  <2>5. \A k \in GuardKeys : a \in PastCheck(k)' => a \in PastCheck(k)
    BY <2>1, <2>2, <2>3 DEF PastCheck, Under, Ended
  <2>6. a \in sids => r.step \in {"audit"} \cup Ended
    BY <1>1, <2>2 DEF LoginTypeOK, Ended
  <2>7. QED BY <2>1, <2>2, <2>4, <2>5, <2>6, QuietMoveKeeps
<1>7. ASSUME NEW a \in Attempts, FailEmail(a) \/ FailIp(a) \/ ResetEmail(a) \/ ResetIp(a)
      PROVE  LoginInv'
  <2>1. PICK l \in GuardKeys : RecordFailure(l) \/ ResetGuard(l)
    BY <1>7, LoginConstants DEF FailEmail, FailIp, ResetEmail, ResetIp
  <2>2. /\ attempt[a].step \in {"fail_email", "fail_ip", "reset_email", "reset_ip"}
        /\ UNCHANGED <<clock, accounts, limitVars, sids>>
    BY <1>7 DEF FailEmail, FailIp, ResetEmail, ResetIp
  <2>3. PICK r \in Attempt : /\ attempt' = [attempt EXCEPT ![a] = r]
                             /\ r.step \in {"fail_ip", "unauthorized", "reset_ip", "session"}
    BY <1>1, <1>7, MoveIs DEF FailEmail, FailIp, ResetEmail, ResetIp, LoginSteps
  <2>4. /\ attempt'[a] = r
        /\ \A b \in Attempts \ {a} : attempt'[b] = attempt[b]
    BY <1>1, <2>3, AttemptMoves
  <2>5. \A k \in GuardKeys : PastCheck(k)' \subseteq PastCheck(k)
    BY <2>2, <2>3, <2>4 DEF PastCheck, Under, Ended
  <2>6. /\ GuardInv'
        /\ {failures', failEnd', lockEnd'} \subseteq [GuardKeys -> Nat]
        /\ inside' \in [GuardKeys -> SUBSET Attempts]
    BY <2>1, <2>2, <2>5, FailureKeepsLimits, ResetKeeps
  <2>7. \A b \in sids' : b \in Attempts /\ attempt'[b].step \in {"audit"} \cup Ended
    BY <1>1, <2>2, <2>4 DEF LoginTypeOK, Ended
  <2>8. \A k \in GuardKeys : r.step \notin BeforeHit(k)
    BY <2>3 DEF BeforeHit, BeforeIpHit
  <2>9. QED BY <2>2, <2>3, <2>6, <2>7, <2>8, MoveKeeps
<1>8. ASSUME NEW a \in Attempts, CreateSession(a) PROVE LoginInv'
  <2>1. PICK r \in Attempt : attempt' = [attempt EXCEPT ![a] = r] /\ r.step = "audit"
    BY <1>1, <1>8, MoveIs DEF CreateSession, LoginSteps
  <2>2. /\ attempt'[a] = r
        /\ \A b \in Attempts \ {a} : attempt'[b] = attempt[b]
    BY <1>1, <2>1, AttemptMoves
  <2>3. UNCHANGED limitVars /\ UNCHANGED guardVars /\ clock' = clock /\ UNCHANGED accounts
        /\ UNCHANGED <<failures, failEnd, lockEnd, inside>>
    BY <1>8 DEF CreateSession, guardVars
  <2>4. \A k \in GuardKeys : PastCheck(k)' \subseteq PastCheck(k)
    BY <1>8, <2>1, <2>2 DEF PastCheck, Under, Ended, CreateSession
  <2>5. GuardInv'
    BY <2>3, <2>4, GuardsStay
  <2>6. \A b \in sids' : b \in Attempts /\ attempt'[b].step \in {"audit"} \cup Ended
    BY <1>1, <1>8, <2>1, <2>2 DEF LoginTypeOK, CreateSession
  <2>7. \A k \in GuardKeys : r.step \notin BeforeHit(k)
    BY <2>1 DEF BeforeHit, BeforeIpHit
  <2>8. {failures', failEnd', lockEnd'} \subseteq [GuardKeys -> Nat] /\ inside' \in [GuardKeys -> SUBSET Attempts]
    BY <1>1, <2>3 DEF LoginTypeOK
  <2>9. QED BY <2>1, <2>3, <2>5, <2>6, <2>7, <2>8, MoveKeeps
<1>9. ASSUME UNCHANGED <<attempt, hits, hitEnd, passed, failures, failEnd, lockEnd, inside>>,
             clock' \in {clock, clock + 1}, clock' \in 0..MaxClock,
             accounts' \subseteq Emails, sids' \subseteq sids
      PROVE  LoginInv'
  <2>1. LoginTypeOK'
    BY <1>1, <1>9 DEF LoginTypeOK
  <2>2. PassInv' /\ RateInv'
    BY <1>9, LimitsStay DEF limitVars
  <2>3. GuardInv'
    BY <1>9, GuardsStay DEF guardVars, PastCheck, Under
  <2>4. QED BY <2>1, <2>2, <2>3 DEF LoginInv
<1>10. ASSUME NEW a \in Attempts, DropSession(a) PROVE LoginInv'
  BY <1>1, <1>9, <1>10 DEF DropSession, limitVars, guardVars, LoginTypeOK
<1>11. ASSUME NEW e \in Emails, DeleteAccount(e) PROVE LoginInv'
  BY <1>1, <1>9, <1>11 DEF DeleteAccount, loginRedis, limitVars, guardVars, LoginTypeOK
<1>12. CASE ClockTick
  BY <1>1, <1>9, <1>12, LoginConstants DEF ClockTick, loginRedis, limitVars, guardVars, LoginTypeOK
<1>13. CASE UNCHANGED loginVars
  BY <1>1, <1>9, <1>13 DEF loginVars, loginRedis, limitVars, guardVars, LoginTypeOK
<1>14. QED
  BY <1>2, <1>3, <1>4, <1>5, <1>6, <1>7, <1>8, <1>10, <1>11, <1>12, <1>13 DEF LoginNext, AttemptStep

\* The invariant of sign-in, for any number of attempts and keys.
LEMMA LoginHolds == LoginSpec => []LoginInv
  BY LoginInitOK, LoginStep, PTL DEF LoginSpec

\* Windows, counters, locks, sessions and attempts keep their types.
THEOREM LoginTyped == LoginSpec => []LoginTypeOK
<1>1. LoginInv => LoginTypeOK
  BY DEF LoginInv
<1>2. QED BY <1>1, LoginHolds, PTL

\* RateLimiter.hit, which timed its hit before Redis takes it, still lets no more than
\* the limit through of those it both timed and took within one window, for any
\* number of attempts that overtake each other, and however long a key is kept.
THEOREM LimitHolds == LoginSpec => []TriesWithinLimit
<1>1. LoginInv => TriesWithinLimit
  <2>1. 0..MaxClock \subseteq Nat
    BY LoginConstants
  <2>2. QED BY <2>1 DEF LoginInv, RateInv, PassedIn, TriesWithinLimit
<1>2. QED BY <1>1, LoginHolds, PTL

\* LoginGuard: a lock that is set stays until its time is over, unless an attempt that
\* had passed its check before the lock was set resets it.
THEOREM LocksEndFromInside == LoginSpec => LockEndsOnlyFromInside
<1>1. ASSUME LoginInv, [LoginNext]_loginVars, NEW k \in GuardKeys,
             Locked(k), ~Locked(k)', clock' = clock
      PROVE  \E a \in inside[k] : attempt'[a].step # attempt[a].step
  <2>1. /\ LoginTypeOK /\ GuardInv /\ clock \in Nat /\ lockEnd \in [GuardKeys -> Nat]
        /\ lockEnd'[k] # lockEnd[k]
    BY <1>1, LoginConstants DEF LoginInv, LoginTypeOK, Locked
  <2>2. ASSUME NEW l \in GuardKeys, RecordFailure(l) PROVE FALSE
    BY <1>1, <2>1, <2>2, LoginConstants DEF RecordFailure, Locked
  <2>3. PICK a \in Attempts : ResetEmail(a) \/ ResetIp(a)
    BY <1>1, <2>1, <2>2, LoginConstants
       DEF LoginNext, AttemptStep, CheckEmail, CheckIp, HitIp, HitEmail, Verify, FailEmail, FailIp,
           CreateSession, AuditLogin, BreakOff, DropSession, DeleteAccount, ClockTick,
           loginVars, loginRedis, guardVars
  <2>4. /\ k = IF ResetEmail(a) THEN EmailOf[a] ELSE "ip"
        /\ attempt[a].step \in {"reset_email", "reset_ip"}
    BY <2>1, <2>3, LoginConstants DEF ResetEmail, ResetIp, ResetGuard
  <2>5. a \in PastCheck(k)
    BY <2>4 DEF PastCheck, Under, Ended
  <2>6. a \in inside[k]
    BY <1>1, <2>1, <2>4, <2>5 DEF GuardInv
  <2>7. attempt'[a].step # attempt[a].step
    <3>1. PICK r \in Attempt : attempt' = [attempt EXCEPT ![a] = r] /\ r.step \in {"reset_ip", "session"}
             /\ (attempt[a].step = "reset_ip" => r.step = "session")
      BY <2>1, <2>3, MoveIs DEF ResetEmail, ResetIp, LoginSteps
    <3>2. attempt'[a] = r
      BY <2>1, <3>1, AttemptMoves
    <3>3. QED BY <2>4, <3>1, <3>2
  <2>8. QED BY <2>6, <2>7
<1>2. LoginInv /\ [LoginNext]_loginVars =>
        [\A k \in GuardKeys : Locked(k) /\ ~Locked(k)' /\ clock' = clock
            => \E a \in inside[k] : attempt'[a].step # attempt[a].step]_loginVars
  BY <1>1
<1>3. QED BY <1>2, LoginHolds, PTL DEF LoginSpec, LockEndsOnlyFromInside
=============================================================================
