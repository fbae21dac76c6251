--------------------------- MODULE ArticlesProofs ---------------------------
(***************************************************************************)
(* Theorems about Articles for any number of articles and writers: the     *)
(* history of every article is a chain, no writer buries a revision it has *)
(* not seen, and nobody waits for a row in a circle.                       *)
(*                                                                         *)
(* The argument: a row lock is held from the flush to the end of the       *)
(* transaction, so the rows a writer has pending are exactly the next ones *)
(* of the article (PendingInv); an object of a session is never ahead of   *)
(* the table unless its row is locked (SessionInv); so a writer that was   *)
(* overtaken numbers its revision with a number that is taken.             *)
(***************************************************************************)
EXTENDS Articles, TLAPS

\* What a writer has in hand when it is about to write.
HandInv ==
    \A w \in Writers :
        /\ phase[w] \in {"page", "write"} => item[w] \in Slugs
        /\ phase[w] = "write" =>
              /\ base[w] = mem[w][item[w]].rev
              /\ mem[w][item[w]].ref \in Writers
              /\ w \in Jobs => mem[w][item[w]].ref = w

\* Row locks are held inside a transaction; without one an object of the
\* session is at most as new as the table.
SessionInv ==
    \A w \in Writers, s \in Slugs :
        /\ lock[s] = w => /\ phase[w] \in {"loop", "write", "mark"}
                          /\ art[s].rev < mem[w][s].rev
        /\ lock[s] # w => mem[w][s].rev <= art[s].rev

\* The pending revisions of an article number on from the committed ones, up
\* to that of the session's object, whose body is that of the last one.
PendingInv ==
    \A w \in Writers :
        /\ \A p \in pend[w] :
              /\ lock[p.slug] = w
              /\ art[p.slug].rev < p.no
              /\ p.no <= mem[w][p.slug].rev
              /\ p.base + 1 = p.no
              /\ p.no = mem[w][p.slug].rev => p.ref = mem[w][p.slug].ref
              /\ w \in Jobs => p.ref = w
        /\ \A p, q \in pend[w] : p.slug = q.slug /\ p.no = q.no => p = q
        /\ \A s \in Slugs : lock[s] = w =>
              \A n \in Nat : art[s].rev < n /\ n <= mem[w][s].rev =>
                  \E p \in pend[w] : p.slug = s /\ p.no = n

\* RevisionsFormAChain, row by row.
HistoryInv ==
    /\ \A r \in revs : /\ 1 <= r.no
                       /\ r.no <= art[r.slug].rev
                       /\ r.no = art[r.slug].rev => r.ref = art[r.slug].ref
                       /\ r.base + 1 = r.no
    /\ \A r, q \in revs : r.slug = q.slug /\ r.no = q.no => r = q
    /\ \A s \in Slugs : \A n \in Nat : 1 <= n /\ n <= art[s].rev =>
          \E r \in revs : r.slug = s /\ r.no = n

ArticlesInv == TypeOK /\ HandInv /\ SessionInv /\ PendingInv /\ HistoryInv

\* A job that is under way has the turn; a request writes once, so it holds no
\* row while it waits for one.
TurnInv ==
    \A w \in Writers :
        /\ w \in Jobs /\ phase[w] \in {"loop", "write", "mark"} => turn = w
        /\ w \notin Jobs /\ phase[w] = "write" => \A s \in Slugs : lock[s] # w

-----------------------------------------------------------------------------
\* The initial state has the invariant.
LEMMA ArticlesInit == Init => ArticlesInv
<1> SUFFICES ASSUME Init PROVE ArticlesInv
  OBVIOUS
<1> USE ArticlesAssumption DEF Init, NoRow
<1>1. TypeOK
  BY DEF TypeOK, Row, Phases
<1>2. HandInv
  BY DEF HandInv
<1>3. SessionInv /\ PendingInv /\ HistoryInv
  BY DEF SessionInv, PendingInv, HistoryInv
<1> QED
  BY <1>1, <1>2, <1>3 DEF ArticlesInv

\* A step keeps the types.
LEMMA ArticlesTypes ==
    ASSUME ArticlesInv, [Next]_vars
    PROVE  TypeOK'
<1> USE ArticlesAssumption DEF ArticlesInv, TypeOK, Row, NoRow, Revision, Phases, Ended, Jobs
<1>1. ASSUME NEW w \in Writers, NEW s \in Slugs, OpenPage(w, s) PROVE TypeOK'
  BY <1>1 DEF OpenPage
<1>2. ASSUME NEW w \in Writers, NEW s \in Slugs, Create(w, s) PROVE TypeOK'
  BY <1>2 DEF Create, TakeUp
<1>3. ASSUME NEW w \in Writers, Load(w) PROVE TypeOK'
  BY <1>3 DEF Load, TakeUp, HandInv
<1>4. ASSUME NEW w \in Writers, Refuse(w) PROVE TypeOK'
  BY <1>4 DEF Refuse, Close
<1>5. ASSUME NEW w \in Writers, LoadRollback(w) PROVE TypeOK'
  BY <1>5 DEF LoadRollback, TakeUp, HandInv
<1>6. ASSUME NEW w \in Writers, BeginJob(w) PROVE TypeOK'
  BY <1>6 DEF BeginJob, Listed
<1>7. ASSUME NEW w \in Writers, NEW s \in Slugs, PickIngest(w, s) PROVE TypeOK'
  BY <1>7 DEF PickIngest, TakeUp
<1>8. ASSUME NEW w \in Writers, NEW s \in Slugs, PickFix(w, s) PROVE TypeOK'
  BY <1>8 DEF PickFix, TakeUp, Visible
<1>9. ASSUME NEW w \in Writers, NEW s \in Slugs, PickFormat(w, s) PROVE TypeOK'
  BY <1>9 DEF PickFormat, TakeUp
<1>10. ASSUME NEW w \in Writers, NEW s \in Slugs, SkipFormat(w, s) PROVE TypeOK'
  BY <1>10 DEF SkipFormat
<1>11. ASSUME NEW w \in Writers, Flush(w) PROVE TypeOK'
  <2>1. item[w] \in Slugs /\ mem[w][item[w]].ref \in Writers
    BY <1>11 DEF Flush, HandInv
  <2>2. Origin(w) \in {"ai", "user"}
    BY DEF Origin
  <2> QED
    BY <1>11, <2>1, <2>2 DEF Flush, NewRev
<1>12. ASSUME NEW w \in Writers, Conflict(w) PROVE TypeOK'
  BY <1>12 DEF Conflict, Close
<1>13. ASSUME NEW w \in Writers, Mark(w) PROVE TypeOK'
  BY <1>13 DEF Mark
<1>14. ASSUME NEW w \in Writers, Commit(w) PROVE TypeOK'
  BY <1>14 DEF Commit, Close
<1>15. ASSUME NEW w \in Writers, Fail(w) PROVE TypeOK'
  BY <1>15 DEF Fail, Close
<1>16. ASSUME UNCHANGED vars PROVE TypeOK'
  BY <1>16 DEF vars
<1> QED
  BY <1>1, <1>2, <1>3, <1>4, <1>5, <1>6, <1>7, <1>8, <1>9, <1>10, <1>11, <1>12,
     <1>13, <1>14, <1>15, <1>16 DEF Next, UserStep, WriterStep

\* A transaction that ends without a commit leaves the others as they were.
LEMMA CloseKeeps ==
    ASSUME ArticlesInv, NEW w \in Writers, NEW outcome \in Ended,
           Close(w, outcome), UNCHANGED <<art, revs>>
    PROVE  HandInv' /\ SessionInv' /\ PendingInv' /\ HistoryInv'
<1> USE ArticlesAssumption DEF ArticlesInv, TypeOK, Row, NoRow, Ended, Close
<1>1. HandInv'
  BY DEF HandInv
<1>2. SessionInv'
  BY DEF SessionInv
<1>3. PendingInv'
  BY DEF PendingInv, Revision
<1> HIDE DEF ArticlesInv, TypeOK, Row, NoRow, Ended, Close
<1>4. HistoryInv'
  <2>1. HistoryInv /\ art' = art /\ revs' = revs
    BY DEF ArticlesInv
  <2> QED
    BY ONLY <2>1 DEF HistoryInv
<1> QED
  BY <1>1, <1>2, <1>3, <1>4

\* Reading keeps the invariant: pending rows are the reader's only if it is a
\* job, and a job's bodies are its own.
LEMMA ReadKeeps ==
    ASSUME ArticlesInv, NEW w \in Writers, NEW s \in Slugs, NEW n \in Nat,
           NEW body \in Writers, TakeUp(w, s, n, body),
           lock[s] = w => w \in Jobs /\ n = mem[w][s].rev,
           lock[s] # w => n <= art[s].rev,
           w \in Jobs => body = w
    PROVE  HandInv' /\ SessionInv' /\ PendingInv' /\ HistoryInv'
<1> USE ArticlesAssumption DEF ArticlesInv, TypeOK, Row, TakeUp
<1>1. /\ mem'[w][s] = [rev |-> n, ref |-> body]
      /\ \A v \in Writers, t \in Slugs : v # w \/ t # s => mem'[v][t] = mem[v][t]
  OBVIOUS
<1>2. HandInv'
  BY <1>1 DEF HandInv
<1>3. SessionInv'
  BY <1>1 DEF SessionInv, HandInv
<1>4. PendingInv'
  BY <1>1 DEF PendingInv, Revision
<1> HIDE DEF ArticlesInv, TypeOK, Row, TakeUp
<1>5. HistoryInv'
  <2>1. HistoryInv /\ art' = art /\ revs' = revs
    BY DEF ArticlesInv, TakeUp
  <2> QED
    BY ONLY <2>1 DEF HistoryInv
<1> QED
  BY <1>2, <1>3, <1>4, <1>5

\* A flush adds the next revision: Taken rules out that the writer was
\* overtaken, because the numbers up to current_rev are all in the history.
LEMMA FlushKeeps ==
    ASSUME ArticlesInv, NEW w \in Writers, Flush(w)
    PROVE  HandInv' /\ SessionInv' /\ PendingInv' /\ HistoryInv'
<1> DEFINE s == item[w]
           n == mem[w][s].rev + 1
           row == [slug |-> s, no |-> n, ref |-> mem[w][s].ref,
                   origin |-> Origin(w), base |-> base[w]]
<1> USE ArticlesAssumption DEF ArticlesInv, TypeOK, Row
<1>1. /\ phase[w] = "write"
      /\ s \in Slugs
      /\ lock[s] \in {Nobody, w}
      /\ ~Taken(s, n)
      /\ mem' = [mem EXCEPT ![w] = [mem[w] EXCEPT ![s] = [rev |-> n, ref |-> mem[w][s].ref]]]
      /\ lock' = [lock EXCEPT ![s] = w]
      /\ pend' = [pend EXCEPT ![w] = pend[w] \cup {row}]
      /\ phase' = [phase EXCEPT ![w] = "mark"]
      /\ UNCHANGED <<art, revs, item, base>>
  BY DEF Flush, NewRev, HandInv
<1>2. /\ mem[w][s].rev \in Nat /\ art[s].rev \in Nat /\ n \in Nat
      /\ n = mem[w][s].rev + 1
      /\ base[w] = mem[w][s].rev
      /\ w \in Jobs => mem[w][s].ref = w
      /\ s = item[w]
  BY <1>1 DEF HandInv
<1> HIDE DEF s, n
<1>3. /\ art[s].rev < n
      /\ lock[s] # w => mem[w][s].rev = art[s].rev
  <2>1. CASE lock[s] = w
    BY <1>1, <1>2, <2>1 DEF SessionInv
  <2>2. CASE lock[s] # w
    <3>1. mem[w][s].rev <= art[s].rev
      BY <1>1, <2>2 DEF SessionInv
    <3>2. ASSUME NEW k \in Nat, 1 <= k, k <= art[s].rev PROVE Taken(s, k)
      BY <1>1, <3>2 DEF HistoryInv, Taken
    <3>3. 1 <= n /\ ~(n <= art[s].rev)
      BY <1>1, <1>2, <3>2
    <3> HIDE DEF ArticlesInv, TypeOK, Row
    <3>4. mem[w][s].rev = art[s].rev
      BY <1>2, <3>1, <3>3
    <3> QED
      BY <1>2, <3>3, <3>4
  <2> QED
    BY <2>1, <2>2
<1>4. HandInv'
  BY <1>1 DEF HandInv
<1>5. SessionInv'
  BY <1>1, <1>2, <1>3 DEF SessionInv
<1>6. /\ row.slug = s /\ row.no = n /\ row.base + 1 = n
      /\ row.ref = mem[w][s].ref
      /\ w \in Jobs => row.ref = w
  BY <1>2
<1>7. PendingInv'
  <2> HIDE DEF row
  <2>1. ASSUME NEW p \in pend[w], p.slug = s
        PROVE  lock[s] = w /\ p.no <= mem[w][s].rev /\ p.no \in Nat /\ p.no # n
    BY <1>2, <2>1 DEF PendingInv, Revision
  <2>2. ASSUME NEW v \in Writers, NEW p \in pend'[v]
        PROVE  /\ lock'[p.slug] = v
               /\ art'[p.slug].rev < p.no
               /\ p.no <= mem'[v][p.slug].rev
               /\ p.base + 1 = p.no
               /\ p.no = mem'[v][p.slug].rev => p.ref = mem'[v][p.slug].ref
               /\ v \in Jobs => p.ref = v
    <3>1. CASE p \in pend[v] /\ p.slug = s
      BY <1>1, <1>2, <2>1, <3>1 DEF PendingInv, Revision
    <3>2. CASE p \in pend[v] /\ p.slug # s
      BY <1>1, <3>2 DEF PendingInv, Revision
    <3>3. CASE p \notin pend[v]
      BY <1>1, <1>2, <1>3, <1>6, <3>3
    <3> QED
      BY <3>1, <3>2, <3>3
  <2>3. ASSUME NEW v \in Writers, NEW p \in pend'[v], NEW q \in pend'[v],
               p.slug = q.slug, p.no = q.no
        PROVE  p = q
    BY <1>1, <1>6, <2>1, <2>3 DEF PendingInv
  <2>4. ASSUME NEW v \in Writers, NEW t \in Slugs, lock'[t] = v, NEW m \in Nat,
               art'[t].rev < m, m <= mem'[v][t].rev
        PROVE  \E p \in pend'[v] : p.slug = t /\ p.no = m
    <3>1. CASE t = s /\ m = n
      <4>1. v = w /\ row \in pend'[v]
        BY <1>1, <2>4, <3>1
      <4> QED
        BY <1>6, <3>1, <4>1
    <3>2. CASE t = s /\ m # n
      <4>1. v = w /\ m <= mem[w][s].rev /\ art[s].rev < m
        BY <1>1, <1>2, <2>4, <3>2
      <4>2. lock[s] = w
        BY <1>1, <1>2, <1>3, <4>1
      <4>3. \E p \in pend[w] : p.slug = s /\ p.no = m
        BY <4>1, <4>2, <1>1 DEF PendingInv
      <4> QED
        BY <1>1, <3>2, <4>1, <4>3
    <3>3. CASE t # s
      BY <1>1, <2>4, <3>3 DEF PendingInv
    <3> QED
      BY <3>1, <3>2, <3>3
  <2> HIDE DEF ArticlesInv, TypeOK, Row
  <2> QED
    BY <2>2, <2>3, <2>4 DEF PendingInv
<1>8. HistoryInv'
  <2>1. HistoryInv /\ art' = art /\ revs' = revs
    BY <1>1
  <2> QED
    BY ONLY <2>1 DEF HistoryInv
<1> QED
  BY <1>4, <1>5, <1>7, <1>8

\* A commit appends a writer's pending revisions to the histories.
LEMMA CommitKeeps ==
    ASSUME ArticlesInv, NEW w \in Writers, Commit(w)
    PROVE  HandInv' /\ SessionInv' /\ PendingInv' /\ HistoryInv'
<1> USE ArticlesAssumption DEF ArticlesInv, TypeOK, Row
<1>1. HandInv'
  BY DEF HandInv, Commit, Close
<1>2. SessionInv'
  BY DEF SessionInv, Commit, Close, NoRow
<1>3. /\ pend' = [pend EXCEPT ![w] = {}]
      /\ revs' = revs \cup pend[w]
      /\ \A t \in Slugs : lock[t] # w => art'[t] = art[t] /\ lock'[t] = lock[t]
      /\ \A t \in Slugs : lock[t] = w => art'[t] = mem[w][t] /\ lock'[t] = Nobody
      /\ \A v \in Writers : v # w => mem'[v] = mem[v]
  BY DEF Commit, Close
<1>4. PendingInv'
  <2>1. ASSUME NEW v \in Writers, NEW p \in pend'[v]
        PROVE  v # w /\ p \in pend[v] /\ p.slug \in Slugs /\ lock[p.slug] = v
    BY <1>3, <2>1 DEF PendingInv, Revision
  <2>2. ASSUME NEW v \in Writers, NEW p \in pend'[v]
        PROVE  /\ lock'[p.slug] = v
               /\ art'[p.slug].rev < p.no
               /\ p.no <= mem'[v][p.slug].rev
               /\ p.base + 1 = p.no
               /\ p.no = mem'[v][p.slug].rev => p.ref = mem'[v][p.slug].ref
               /\ v \in Jobs => p.ref = v
    BY <1>3, <2>1, <2>2 DEF PendingInv
  <2>3. ASSUME NEW v \in Writers, NEW p \in pend'[v], NEW q \in pend'[v],
               p.slug = q.slug, p.no = q.no
        PROVE  p = q
    BY <2>1, <2>3 DEF PendingInv
  <2>4. ASSUME NEW v \in Writers, NEW t \in Slugs, lock'[t] = v, NEW m \in Nat,
               art'[t].rev < m, m <= mem'[v][t].rev
        PROVE  \E p \in pend'[v] : p.slug = t /\ p.no = m
    <3>1. v # w /\ lock[t] = v
      BY <1>3, <2>4
    <3> QED
      BY <1>3, <2>4, <3>1 DEF PendingInv
  <2> HIDE DEF ArticlesInv, TypeOK, Row
  <2> QED
    BY <2>2, <2>3, <2>4 DEF PendingInv
<1>5. \A r \in revs : /\ r.slug \in Slugs /\ r.no \in Nat
                       /\ r.no <= art[r.slug].rev
                       /\ art[r.slug].rev \in Nat
  BY DEF HistoryInv, Revision
<1>6. \A p \in pend[w] : /\ p.slug \in Slugs /\ p.no \in Nat /\ lock[p.slug] = w
                          /\ art'[p.slug] = mem[w][p.slug]
                          /\ art[p.slug].rev \in Nat
                          /\ art[p.slug].rev < p.no /\ p.no <= mem[w][p.slug].rev
  BY <1>3 DEF PendingInv, Revision
<1>7. ASSUME NEW r \in revs'
      PROVE  /\ 1 <= r.no
             /\ r.no <= art'[r.slug].rev
             /\ r.no = art'[r.slug].rev => r.ref = art'[r.slug].ref
             /\ r.base + 1 = r.no
  <2>1. CASE r \in revs /\ lock[r.slug] # w
    BY <1>3, <1>5, <2>1 DEF HistoryInv
  <2>2. CASE r \in revs /\ lock[r.slug] = w
    <3>1. art[r.slug].rev < mem[w][r.slug].rev /\ mem[w][r.slug].rev \in Nat
      BY <1>5, <2>2 DEF SessionInv
    <3>2. r.no < art'[r.slug].rev
      BY <1>3, <1>5, <2>2, <3>1
    <3> QED
      BY <1>3, <1>5, <2>2, <3>1, <3>2 DEF HistoryInv
  <2>3. CASE r \in pend[w]
    BY <1>6, <2>3 DEF PendingInv
  <2> QED
    BY <1>3, <2>1, <2>2, <2>3
<1>8. ASSUME NEW r \in revs', NEW q \in revs', r.slug = q.slug, r.no = q.no
      PROVE  r = q
  BY <1>3, <1>5, <1>6, <1>8 DEF HistoryInv, PendingInv
<1>9. ASSUME NEW t \in Slugs, NEW n \in Nat, 1 <= n, n <= art'[t].rev
      PROVE  \E r \in revs' : r.slug = t /\ r.no = n
  <2>1. CASE n <= art[t].rev
    BY <1>3, <1>9, <2>1 DEF HistoryInv
  <2>2. CASE ~(n <= art[t].rev)
    <3>1. lock[t] = w /\ art'[t] = mem[w][t] /\ art[t].rev < n
      BY <1>3, <1>9, <2>2
    <3> QED
      BY <1>3, <1>9, <3>1 DEF PendingInv
  <2> QED
    BY <2>1, <2>2
<1>10. HistoryInv'
  BY <1>7, <1>8, <1>9 DEF HistoryInv
<1> QED
  BY <1>1, <1>2, <1>4, <1>10

\* A page, a skipped item, the mark and the start of a job: locks, rows and
\* pending revisions stay, and only a job that had none begins with the table.
LEMMA LightKeeps ==
    ASSUME ArticlesInv, NEW w \in Writers,
           \/ \E s \in Slugs : OpenPage(w, s) \/ SkipFormat(w, s)
           \/ BeginJob(w) \/ Mark(w)
    PROVE  HandInv' /\ SessionInv' /\ PendingInv' /\ HistoryInv'
<1> USE ArticlesAssumption DEF ArticlesInv, TypeOK, Row
<1>1. CASE \E s \in Slugs : OpenPage(w, s)
  BY <1>1 DEF OpenPage, HandInv, SessionInv, PendingInv, HistoryInv
<1>2. CASE \E s \in Slugs : SkipFormat(w, s)
  BY <1>2 DEF SkipFormat, HandInv, SessionInv, PendingInv, HistoryInv
<1>3. CASE BeginJob(w)
  <2>1. HandInv' /\ HistoryInv'
    BY <1>3 DEF BeginJob, HandInv, HistoryInv
  <2>2. \A s \in Slugs : lock[s] # w
    BY <1>3 DEF BeginJob, SessionInv
  <2>3. /\ mem' = [mem EXCEPT ![w] = Listed(w)]
        /\ Listed(w) \in {art, mem[w]}
        /\ UNCHANGED <<art, lock, pend>>
        /\ phase' = [phase EXCEPT ![w] = "loop"]
    BY <1>3 DEF BeginJob, Listed
  <2>4. SessionInv'
    BY <2>2, <2>3 DEF SessionInv
  <2>5. PendingInv'
    BY <2>2, <2>3 DEF PendingInv, Revision
  <2> QED
    BY <2>1, <2>4, <2>5
<1>4. CASE Mark(w)
  BY <1>4 DEF Mark, HandInv, SessionInv, PendingInv, HistoryInv
<1> QED
  BY <1>1, <1>2, <1>3, <1>4

\* Every step keeps the invariant.
LEMMA ArticlesNext == ArticlesInv /\ [Next]_vars => ArticlesInv'
<1> SUFFICES ASSUME ArticlesInv, [Next]_vars PROVE ArticlesInv'
  OBVIOUS
<1> DEFINE Rest == HandInv' /\ SessionInv' /\ PendingInv' /\ HistoryInv'
<1>1. TypeOK'
  BY ArticlesTypes
<1>2. \A w \in Writers, s \in Slugs :
          phase[w] \in {"idle", "page"} => lock[s] # w
  BY DEF ArticlesInv, SessionInv
<1>3. ASSUME NEW w \in Writers, NEW s \in Slugs, Create(w, s) PROVE Rest
  <2>1. TakeUp(w, s, 0, w) /\ lock[s] # w /\ 0 <= art[s].rev
    BY <1>2, <1>3 DEF Create, ArticlesInv, TypeOK, Row
  <2> QED
    BY <2>1, ReadKeeps
<1>4. ASSUME NEW w \in Writers, Load(w) PROVE Rest
  <2>1. /\ item[w] \in Slugs /\ lock[item[w]] # w
        /\ TakeUp(w, item[w], art[item[w]].rev, w)
        /\ art[item[w]].rev \in Nat
    BY <1>2, <1>4 DEF Load, ArticlesInv, TypeOK, Row, HandInv
  <2> QED
    BY <2>1, ReadKeeps
<1>5. ASSUME NEW w \in Writers, LoadRollback(w) PROVE Rest
  <2>1. /\ item[w] \in Slugs /\ lock[item[w]] # w /\ w \notin Jobs
        /\ \E r \in revs : TakeUp(w, item[w], art[item[w]].rev, r.ref)
        /\ \A r \in revs : r.ref \in Writers
        /\ art[item[w]].rev \in Nat
    BY <1>2, <1>5 DEF LoadRollback, ArticlesInv, TypeOK, Row, Revision, HandInv, Jobs
  <2> QED
    BY <2>1, ReadKeeps
<1>6. ASSUME NEW w \in Writers, NEW s \in Slugs, PickIngest(w, s) PROVE Rest
  <2>1. TakeUp(w, s, art[s].rev, w) /\ art[s].rev \in Nat
    BY <1>6 DEF PickIngest, ArticlesInv, TypeOK, Row
  <2>2. lock[s] # w
    <3>1. SUFFICES ASSUME lock[s] = w PROVE FALSE
      OBVIOUS
    <3>2. pend[w] = {} /\ mem[w][s].rev \in Nat /\ art[s].rev \in Nat
      BY <1>6 DEF PickIngest, ArticlesInv, TypeOK, Row
    <3>3. art[s].rev < mem[w][s].rev
      BY <3>1 DEF ArticlesInv, SessionInv
    <3>4. \E p \in pend[w] : p.slug = s /\ p.no = mem[w][s].rev
      BY <3>1, <3>2, <3>3 DEF ArticlesInv, PendingInv
    <3> QED
      BY <3>2, <3>4
  <2> QED
    BY <2>1, <2>2, ReadKeeps
<1>7. ASSUME NEW w \in Writers, NEW s \in Slugs, PickFix(w, s) PROVE Rest
  <2>1. /\ TakeUp(w, s, Visible(w, s).rev, w) /\ w \in Jobs
        /\ Visible(w, s).rev \in Nat
        /\ lock[s] = w => Visible(w, s).rev = mem[w][s].rev
        /\ lock[s] # w => Visible(w, s).rev <= art[s].rev
    BY <1>7 DEF PickFix, Visible, Jobs, ArticlesInv, TypeOK, Row
  <2> QED
    BY <2>1, ReadKeeps
<1>8. ASSUME NEW w \in Writers, NEW s \in Slugs, PickFormat(w, s) PROVE Rest
  <2>1. /\ TakeUp(w, s, mem[w][s].rev, w) /\ w \in Jobs
        /\ mem[w][s].rev \in Nat
        /\ lock[s] # w => mem[w][s].rev <= art[s].rev
    BY <1>8 DEF PickFormat, Jobs, ArticlesInv, TypeOK, Row, SessionInv
  <2> QED
    BY <2>1, ReadKeeps
<1>9. ASSUME NEW w \in Writers, Refuse(w) \/ Conflict(w) \/ Fail(w) PROVE Rest
  <2>1. \E outcome \in Ended : Close(w, outcome) /\ UNCHANGED <<art, revs>>
    BY <1>9 DEF Refuse, Conflict, Fail, Ended
  <2> QED
    BY <2>1, CloseKeeps
<1>10. CASE UNCHANGED vars
  BY <1>10 DEF vars, ArticlesInv, TypeOK, HandInv, SessionInv, PendingInv, HistoryInv
<1>11. CASE Next
  <2>1. Rest
    BY <1>3, <1>4, <1>5, <1>6, <1>7, <1>8, <1>9, <1>11, LightKeeps, FlushKeeps, CommitKeeps
       DEF Next, UserStep, WriterStep
  <2> QED
    BY <1>1, <2>1 DEF ArticlesInv
<1> QED
  BY <1>10, <1>11

\* The invariant gives both properties.
LEMMA ArticlesImplies == ArticlesInv => RevisionsFormAChain /\ NoLostUpdate
<1> SUFFICES ASSUME ArticlesInv PROVE RevisionsFormAChain /\ NoLostUpdate
  OBVIOUS
<1> USE DEF ArticlesInv, TypeOK, Row, Revision
<1>1. ASSUME NEW s \in Slugs
      PROVE  {r.no : r \in RevsOf(s)} = 1..art[s].rev
  <2>1. ASSUME NEW n \in {r.no : r \in RevsOf(s)} PROVE n \in 1..art[s].rev
    BY <2>1 DEF HistoryInv, RevsOf
  <2>2. ASSUME NEW n \in 1..art[s].rev PROVE n \in {r.no : r \in RevsOf(s)}
    <3>1. n \in Nat /\ 1 <= n /\ n <= art[s].rev
      BY <2>2
    <3>2. PICK r \in revs : r.slug = s /\ r.no = n
      BY <3>1 DEF HistoryInv
    <3> QED
      BY <3>2 DEF RevsOf
  <2> QED
    BY <2>1, <2>2
<1>2. RevisionsFormAChain
  BY <1>1 DEF RevisionsFormAChain, RevsOf, HistoryInv
<1>3. NoLostUpdate
  BY DEF NoLostUpdate, HistoryInv
<1> QED
  BY <1>2, <1>3

\* The turn goes from job to job, and requests come to a write without a lock.
LEMMA TurnNext == ArticlesInv /\ TurnInv /\ [Next]_vars => TurnInv'
<1> SUFFICES ASSUME ArticlesInv, TurnInv, [Next]_vars PROVE TurnInv'
  OBVIOUS
<1> USE ArticlesAssumption DEF TurnInv
<1>1. /\ phase \in [Writers -> Phases] /\ lock \in [Slugs -> Writers \cup {Nobody}]
      /\ \A w \in Writers, s \in Slugs :
            phase[w] \in {"idle", "page"} => lock[s] # w
  BY DEF ArticlesInv, TypeOK, SessionInv
<1>2. ASSUME NEW w \in Writers, NEW outcome \in Ended, Close(w, outcome) PROVE TurnInv'
  BY <1>1, <1>2 DEF Close, Ended
<1>3. ASSUME NEW w \in Writers, NEW s \in Slugs, NEW n, NEW body, TakeUp(w, s, n, body),
             \/ w \in Jobs /\ phase[w] = "loop"
             \/ w \notin Jobs /\ phase[w] \in {"idle", "page"}
      PROVE  TurnInv'
  BY <1>1, <1>3 DEF TakeUp
<1>4. ASSUME NEW w \in Writers, UserStep(w) PROVE TurnInv'
  <2>1. w \notin Jobs \/ Refuse(w)
    BY <1>4 DEF UserStep, OpenPage, Create, Load, LoadRollback, Jobs
  <2>2. CASE \E s \in Slugs : OpenPage(w, s)
    BY <1>1, <2>2 DEF OpenPage
  <2>3. CASE \E s \in Slugs : Create(w, s)
    BY <1>3, <2>3 DEF Create, Jobs
  <2>4. CASE Load(w) \/ LoadRollback(w)
    <3>1. item[w] \in Slugs
      BY <2>4 DEF ArticlesInv, HandInv, Load, LoadRollback
    <3> QED
      BY <1>3, <2>4, <3>1 DEF Load, LoadRollback, Jobs
  <2>5. CASE Refuse(w)
    BY <1>2, <2>5 DEF Refuse, Ended
  <2> QED
    BY <1>4, <2>2, <2>3, <2>4, <2>5 DEF UserStep
<1>5. ASSUME NEW w \in Writers, BeginJob(w) PROVE TurnInv'
  BY <1>1, <1>5 DEF BeginJob
<1>6. ASSUME NEW w \in Writers, NEW s \in Slugs,
             PickIngest(w, s) \/ PickFix(w, s) \/ PickFormat(w, s)
      PROVE  TurnInv'
  BY <1>3, <1>6 DEF PickIngest, PickFix, PickFormat, Jobs
<1>7. ASSUME NEW w \in Writers, NEW s \in Slugs, SkipFormat(w, s) PROVE TurnInv'
  BY <1>1, <1>7 DEF SkipFormat
<1>8. ASSUME NEW w \in Writers, Flush(w) PROVE TurnInv'
  <2>1. item[w] \in Slugs
    BY <1>8 DEF ArticlesInv, HandInv, Flush
  <2> QED
    BY <1>1, <1>8, <2>1 DEF Flush
<1>9. ASSUME NEW w \in Writers, Mark(w) PROVE TurnInv'
  BY <1>1, <1>9 DEF Mark
<1>10. ASSUME NEW w \in Writers, Conflict(w) \/ Commit(w) \/ Fail(w) PROVE TurnInv'
  BY <1>2, <1>10 DEF Conflict, Commit, Fail, Ended
<1>11. CASE UNCHANGED vars
  BY <1>11 DEF vars
<1> QED
  BY <1>4, <1>5, <1>6, <1>7, <1>8, <1>9, <1>10, <1>11 DEF Next, WriterStep

-----------------------------------------------------------------------------
\* The history of every article is a chain of revisions 1 to current_rev
\* without gaps or forks, whatever requests and jobs write at the same time.
THEOREM HistoryIsAChain == Spec => []RevisionsFormAChain
<1>1. Spec => []ArticlesInv
  BY ArticlesInit, ArticlesNext, PTL DEF Spec
<1> QED
  BY <1>1, ArticlesImplies, PTL

\* No writer's text replaces a revision that the writer had not read.
THEOREM NothingIsLost == Spec => []NoLostUpdate
<1>1. Spec => []ArticlesInv
  BY ArticlesInit, ArticlesNext, PTL DEF Spec
<1> QED
  BY <1>1, ArticlesImplies, PTL

\* Nobody waits for a row lock in a circle.
THEOREM NoRowDeadlock == Spec => []NoCircularWait
<1>1. Spec => []ArticlesInv
  BY ArticlesInit, ArticlesNext, PTL DEF Spec
<1>2. Init => TurnInv
  BY ArticlesAssumption DEF Init, TurnInv
<1>3. TurnInv => NoCircularWait
  <2> SUFFICES ASSUME TurnInv, NEW v \in Writers, NEW w \in Writers,
                      HoldsRow(v), WaitsForRow(v), HoldsRow(w), WaitsForRow(w)
               PROVE  v = w
    BY DEF NoCircularWait
  <2>1. v \in Jobs /\ w \in Jobs
    BY DEF TurnInv, HoldsRow, WaitsForRow
  <2> QED
    BY <2>1 DEF TurnInv, WaitsForRow
<1> QED
  BY <1>1, <1>2, <1>3, TurnNext, PTL DEF Spec

\* The rows, the sessions' objects and the row locks keep their types.
THEOREM ArticlesTyped == Spec => []TypeOK
<1>1. Spec => []ArticlesInv
  BY ArticlesInit, ArticlesNext, PTL DEF Spec
<1>2. ArticlesInv => TypeOK
  BY DEF ArticlesInv
<1> QED
  BY <1>1, <1>2, PTL

\* A writer that is refused for a conflict was overtaken: the number it would have
\* used is in the history, and numbers there go up to current_rev only.
THEOREM ConflictsWereOvertaken == Spec => ConflictMeansOvertaken
<1>1. Spec => []ArticlesInv
  BY ArticlesInit, ArticlesNext, PTL DEF Spec
<1>2. ASSUME ArticlesInv, [Next]_vars, NEW w \in Writers,
             phase[w] # "conflict", phase'[w] = "conflict"
      PROVE  art[item[w]].rev > mem[w][item[w]].rev
  <2>1. Conflict(w)
    <3> USE <1>2 DEF ArticlesInv, TypeOK
    <3>1. ASSUME NEW v \in Writers, UserStep(v) \/ BeginJob(v) \/ WriterStep(v) \/ Fail(v)
          PROVE  \/ Conflict(v)
                 \/ \E step \in Phases \ {"conflict"} :
                       phase' \in {phase, [phase EXCEPT ![v] = step]}
      BY <3>1 DEF UserStep, WriterStep, OpenPage, Create, Load, Refuse, LoadRollback, TakeUp,
         Close, BeginJob, PickIngest, PickFix, PickFormat, SkipFormat, Flush, Mark, Commit,
         Fail, Phases, Ended
    <3>2. ASSUME NEW v \in Writers, Conflict(v) PROVE v = w
      BY <3>2 DEF Conflict, Close
    <3> QED
      BY <3>1, <3>2 DEF Next, vars
  <2>2. item[w] \in Slugs /\ art[item[w]].rev \in Nat /\ mem[w][item[w]].rev \in Nat
    BY <1>2, <2>1 DEF Conflict, ArticlesInv, TypeOK, HandInv, Row
  <2>3. CASE art[item[w]].rev # 0 /\ mem[w][item[w]].rev + 1 = 1
    BY <2>2, <2>3
  <2>4. ASSUME NEW r \in revs, r.slug = item[w], r.no = mem[w][item[w]].rev + 1
        PROVE  art[item[w]].rev > mem[w][item[w]].rev
    <3>1. r.no <= art[item[w]].rev
      BY <1>2, <2>4 DEF ArticlesInv, HistoryInv
    <3> QED
      BY <2>2, <2>4, <3>1
  <2> QED
    BY <2>1, <2>3, <2>4 DEF Conflict, Taken, NewRev
<1>3. ArticlesInv /\ [Next]_vars =>
        [\A w \in Writers : phase[w] # "conflict" /\ phase'[w] = "conflict" =>
              art[item[w]].rev > mem[w][item[w]].rev]_vars
  BY <1>2
<1> QED
  BY <1>1, <1>3, PTL DEF Spec, ConflictMeansOvertaken
=============================================================================
