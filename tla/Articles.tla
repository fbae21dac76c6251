------------------------------ MODULE Articles ------------------------------
(***************************************************************************)
(* The articles of one domain and their revisions, written by concurrent   *)
(* PostgreSQL transactions: the requests of ArticleService (create, update *)
(* with an expected revision, rollback) and the jobs that end in           *)
(* upsert_article (ingest, fix, format).                                   *)
(*                                                                         *)
(* A writer works on objects of its own session: mem is the session's      *)
(* identity map, which a later SELECT does not refresh.  A flush writes    *)
(* the article's row first and so takes its row lock; then it inserts the  *)
(* revision, which the unique (article_id, rev_no) accepts or refuses.     *)
(* Isolation is READ COMMITTED.  The jobs of a domain take turns, as Jobs  *)
(* shows of domain_lock; requests do not.                                  *)
(*                                                                         *)
(* A body is named for the writer that wrote it.  Titles, summaries, links *)
(* and the AGE projection are left out: they ride in the same transaction. *)
(***************************************************************************)
EXTENDS Naturals, FiniteSets

CONSTANTS
    Slugs,    \* the slugs of the domain's articles
    Writers,  \* requests and deliveries of jobs
    Kind,     \* [Writers -> Kinds]
    MaxFixes  \* bound: most issues one fix job works on

Kinds == {"create", "update", "rollback", "ingest", "fix", "format"}

\* No writer: who holds a row, or the turn, that nobody holds.
Nobody == "nobody"

ASSUME ArticlesAssumption ==
    /\ Kind \in [Writers -> Kinds]
    /\ Nobody \notin Writers
    /\ MaxFixes \in Nat

VARIABLES
    art,    \* [Slugs -> Row]         the committed rows of articles
    revs,   \* SUBSET Revision        the committed rows of article_revisions
    lock,   \* [Slugs -> Writers \cup {Nobody}]  who holds the article's row
    turn,   \* Writers \cup {Nobody}  the job inside the domain's lock
    phase,  \* [Writers -> Phases]
    mem,    \* [Writers -> [Slugs -> Row]]       identity map of the session
    pend,   \* [Writers -> SUBSET Revision]      flushed, not committed
    item,   \* [Writers -> Slugs \cup {NoSlug}]  the article in hand
    base,   \* [Writers -> Nat]       revision the body in hand comes after
    left    \* [Writers -> SUBSET Slugs]         articles a format has to do

vars == <<art, revs, lock, turn, phase, mem, pend, item, base, left>>

-----------------------------------------------------------------------------
NoSlug == "no_slug"
NoBody == "no_body"

Jobs == {w \in Writers : Kind[w] \in {"ingest", "fix", "format"}}

\* current_rev and storage_ref; rev 0 says that there is no such article.
Row == [rev : Nat, ref : Writers \cup {NoBody}]
NoRow == [rev |-> 0, ref |-> NoBody]

\* base is not stored: it says which revision the writer had before it: the
\* one its text was made from (update, fix, format), or the one its own
\* transaction read (rollback, ingest).
Revision == [slug : Slugs, no : Nat, ref : Writers, origin : {"ai", "user"}, base : Nat]

Origin(w) == IF w \in Jobs THEN "ai" ELSE "user"

Ended == {"saved", "refused", "conflict", "failed"}
Phases == {"idle", "page", "loop", "write", "mark"} \cup Ended

\* An article as writer w's next SELECT of it gives it: its own flushed row,
\* or the committed one.
Visible(w, s) == IF lock[s] = w THEN mem[w][s] ELSE art[s]

\* The transaction and its session end; what was not committed is gone.
Close(w, outcome) ==
    /\ phase' = [phase EXCEPT ![w] = outcome]
    /\ lock' = [s \in Slugs |-> IF lock[s] = w THEN Nobody ELSE lock[s]]
    /\ turn' = IF turn = w THEN Nobody ELSE turn
    /\ pend' = [pend EXCEPT ![w] = {}]
    /\ left' = [left EXCEPT ![w] = {}]
    /\ mem' = [mem EXCEPT ![w] = [s \in Slugs |-> NoRow]]
    /\ item' = [item EXCEPT ![w] = NoSlug]
    /\ base' = [base EXCEPT ![w] = 0]

-----------------------------------------------------------------------------
(* Reading *)

\* The user has the article's page open: its current_rev comes back with the
\* form as expected_rev (update), its history offers the revisions (rollback).
OpenPage(w, s) ==
    /\ phase[w] = "idle"
    /\ Kind[w] \in {"update", "rollback"}
    /\ art[s].rev > 0
    /\ phase' = [phase EXCEPT ![w] = "page"]
    /\ item' = [item EXCEPT ![w] = s]
    /\ base' = [base EXCEPT ![w] = art[s].rev]
    /\ UNCHANGED <<art, revs, lock, turn, mem, pend, left>>

\* Article s is in w's hands at revision n, with a body to write.
TakeUp(w, s, n, body) ==
    /\ mem' = [mem EXCEPT ![w][s] = [rev |-> n, ref |-> body]]
    /\ base' = [base EXCEPT ![w] = n]
    /\ item' = [item EXCEPT ![w] = s]
    /\ phase' = [phase EXCEPT ![w] = "write"]
    /\ UNCHANGED <<art, revs, lock, turn, pend>>

\* Fault: expected_rev is not looked at.
LoadUnchecked(w) ==
    LET s == item[w] IN
    /\ phase[w] = "page"
    /\ Kind[w] = "update"
    /\ mem' = [mem EXCEPT ![w][s] = [rev |-> art[s].rev, ref |-> w]]
    /\ phase' = [phase EXCEPT ![w] = "write"]
    /\ UNCHANGED <<art, revs, lock, turn, pend, item, base, left>>

\* update: the article is read and expected_rev compared with it.
Load(w) ==
    LET s == item[w] IN
    /\ phase[w] = "page"
    /\ Kind[w] = "update"
    /\ art[s].rev = base[w]
    /\ TakeUp(w, s, art[s].rev, w)
    /\ UNCHANGED left

\* update: 409, stale revision.
Refuse(w) ==
    /\ phase[w] = "page"
    /\ Kind[w] = "update"
    /\ art[item[w]].rev # base[w]
    /\ Close(w, "refused")
    /\ UNCHANGED <<art, revs>>

\* rollback: no expected revision; the body is that of an older revision.
LoadRollback(w) ==
    LET s == item[w] IN
    /\ phase[w] = "page"
    /\ Kind[w] = "rollback"
    /\ \E r \in revs : /\ r.slug = s
                       /\ r.no <= base[w]
                       /\ TakeUp(w, s, art[s].rev, r.ref)
    /\ UNCHANGED left

\* create reads nothing: it is going to insert revision 1.
Create(w, s) ==
    /\ phase[w] = "idle"
    /\ Kind[w] = "create"
    /\ TakeUp(w, s, 0, w)
    /\ UNCHANGED left

\* The articles a job loads before its loop: only a format does.
Listed(w) == IF Kind[w] = "format" THEN art ELSE mem[w]

\* Fault: a job does not wait for the domain's lock.
BeginJobAnyway(w) ==
    /\ phase[w] = "idle"
    /\ w \in Jobs
    /\ turn' = w
    /\ phase' = [phase EXCEPT ![w] = "loop"]
    /\ mem' = [mem EXCEPT ![w] = Listed(w)]
    /\ left' = [left EXCEPT ![w] = {s \in Slugs : Listed(w)[s].rev > 0}]
    /\ UNCHANGED <<art, revs, lock, pend, item, base>>

\* A job's turn begins.  format_articles lists the articles here, before its
\* first model call, and keeps the objects.
BeginJob(w) ==
    /\ phase[w] = "idle"
    /\ w \in Jobs
    /\ turn = Nobody
    /\ turn' = w
    /\ phase' = [phase EXCEPT ![w] = "loop"]
    /\ mem' = [mem EXCEPT ![w] = Listed(w)]
    /\ left' = [left EXCEPT ![w] = {s \in Slugs : Listed(w)[s].rev > 0}]
    /\ UNCHANGED <<art, revs, lock, pend, item, base>>

\* Fault: the article is written before its body is stored.
PickIngestUnstored(w, s) ==
    /\ phase[w] = "loop"
    /\ Kind[w] = "ingest"
    /\ pend[w] = {}
    /\ TakeUp(w, s, art[s].rev, art[s].ref)
    /\ UNCHANGED left

\* ingest: the drafted slug is looked up; it may be new.  The draft replaces
\* the body unread.
PickIngest(w, s) ==
    /\ phase[w] = "loop"
    /\ Kind[w] = "ingest"
    /\ pend[w] = {}
    /\ TakeUp(w, s, art[s].rev, w)
    /\ UNCHANGED left

\* fix: the issue's article is read and sent to the model.
PickFix(w, s) ==
    /\ phase[w] = "loop"
    /\ Kind[w] = "fix"
    /\ Cardinality(pend[w]) < MaxFixes
    /\ Visible(w, s).rev > 0
    /\ TakeUp(w, s, Visible(w, s).rev, w)
    /\ UNCHANGED left

\* Fault: upsert_article refreshes the object it finds, so the revision is
\* numbered after one the model never saw.
PickFormatRefreshed(w, s) ==
    /\ phase[w] = "loop"
    /\ Kind[w] = "format"
    /\ s \in left[w]
    /\ left' = [left EXCEPT ![w] = @ \ {s}]
    /\ mem' = [mem EXCEPT ![w][s] = [rev |-> art[s].rev, ref |-> w]]
    /\ base' = [base EXCEPT ![w] = mem[w][s].rev]
    /\ item' = [item EXCEPT ![w] = s]
    /\ phase' = [phase EXCEPT ![w] = "write"]
    /\ UNCHANGED <<art, revs, lock, turn, pend>>

\* format: the body comes from the object listed at the beginning, and the
\* SELECT of upsert_article returns that same object unrefreshed.
PickFormat(w, s) ==
    /\ phase[w] = "loop"
    /\ Kind[w] = "format"
    /\ s \in left[w]
    /\ left' = [left EXCEPT ![w] = @ \ {s}]
    /\ TakeUp(w, s, mem[w][s].rev, w)

\* check_format_invariant refuses the model's text: the article stays.
SkipFormat(w, s) ==
    /\ phase[w] = "loop"
    /\ Kind[w] = "format"
    /\ s \in left[w]
    /\ left' = [left EXCEPT ![w] = @ \ {s}]
    /\ UNCHANGED <<art, revs, lock, turn, phase, mem, pend, item, base>>

-----------------------------------------------------------------------------
(* Writing *)

\* Fault: no unique constraint on the revision's number.
TakenNever(s, n) == FALSE

\* The unique constraints refuse revision n of s: (article_id, rev_no), or
\* (domain_id, slug) when the writer takes the article for a new one.
Taken(s, n) ==
    \/ n = 1 /\ art[s].rev # 0
    \/ \E r \in revs : r.slug = s /\ r.no = n

\* Fault: the new revision has the current one's number.
NewRevSame(w) == mem[w][item[w]].rev

NewRev(w) == mem[w][item[w]].rev + 1

\* UPDATE (or INSERT) of the article, then INSERT of its revision.  Whoever
\* holds the row is waited for.
Flush(w) ==
    LET s == item[w]
        n == NewRev(w)
    IN  /\ phase[w] = "write"
        /\ lock[s] \in {Nobody, w}
        /\ ~Taken(s, n)
        /\ lock' = [lock EXCEPT ![s] = w]
        /\ mem' = [mem EXCEPT ![w][s] = [rev |-> n, ref |-> mem[w][s].ref]]
        /\ pend' = [pend EXCEPT ![w] = @ \cup
                      {[slug |-> s, no |-> n, ref |-> mem[w][s].ref,
                        origin |-> Origin(w), base |-> base[w]]}]
        /\ phase' = [phase EXCEPT ![w] = "mark"]
        /\ UNCHANGED <<art, revs, turn, item, base, left>>

\* IntegrityError: the transaction is rolled back (409, or the job fails).
Conflict(w) ==
    /\ phase[w] = "write"
    /\ lock[item[w]] \in {Nobody, w}
    /\ Taken(item[w], NewRev(w))
    /\ Close(w, "conflict")
    /\ UNCHANGED <<art, revs>>

\* mark_cache_stale, of the jobs only.
Mark(w) ==
    /\ phase[w] = "mark"
    /\ w \in Jobs
    /\ phase' = [phase EXCEPT ![w] = "loop"]
    /\ UNCHANGED <<art, revs, lock, turn, mem, pend, item, base, left>>

Finished(w) ==
    \/ phase[w] = "mark" /\ w \notin Jobs
    \/ phase[w] = "loop" /\ \/ Kind[w] = "ingest" /\ pend[w] # {}
                            \/ Kind[w] = "fix"
                            \/ Kind[w] = "format" /\ left[w] = {}

\* The one commit of the request or of the job.
Commit(w) ==
    /\ Finished(w)
    /\ revs' = revs \cup pend[w]
    /\ art' = [s \in Slugs |-> IF lock[s] = w THEN mem[w][s] ELSE art[s]]
    /\ Close(w, "saved")

\* Any other end: an exception, a cancel, a timeout, a crash, a closed page.
Fail(w) ==
    /\ phase[w] \notin {"idle"} \cup Ended
    /\ Close(w, "failed")
    /\ UNCHANGED <<art, revs>>

-----------------------------------------------------------------------------
Init ==
    /\ art = [s \in Slugs |-> NoRow]
    /\ revs = {}
    /\ lock = [s \in Slugs |-> Nobody]
    /\ turn = Nobody
    /\ phase = [w \in Writers |-> "idle"]
    /\ mem = [w \in Writers |-> [s \in Slugs |-> NoRow]]
    /\ pend = [w \in Writers |-> {}]
    /\ item = [w \in Writers |-> NoSlug]
    /\ base = [w \in Writers |-> 0]
    /\ left = [w \in Writers |-> {}]

\* What a user may or may not do next.
UserStep(w) ==
    \/ \E s \in Slugs : OpenPage(w, s) \/ Create(w, s)
    \/ Load(w) \/ Refuse(w) \/ LoadRollback(w)

\* What a request or a job does of itself once it is under way.
WriterStep(w) ==
    \/ \E s \in Slugs : \/ PickIngest(w, s) \/ PickFix(w, s)
                        \/ PickFormat(w, s) \/ SkipFormat(w, s)
    \/ Flush(w) \/ Conflict(w) \/ Mark(w) \/ Commit(w)

Next == \E w \in Writers : UserStep(w) \/ BeginJob(w) \/ WriterStep(w) \/ Fail(w)

Spec == Init /\ [][Next]_vars

-----------------------------------------------------------------------------
(* Properties *)

\* The columns, the sessions' objects and the row locks have their types.
TypeOK ==
    /\ art \in [Slugs -> Row]
    /\ revs \in SUBSET Revision
    /\ lock \in [Slugs -> Writers \cup {Nobody}]
    /\ turn \in Jobs \cup {Nobody}
    /\ phase \in [Writers -> Phases]
    /\ mem \in [Writers -> [Slugs -> Row]]
    /\ pend \in [Writers -> SUBSET Revision]
    /\ item \in [Writers -> Slugs \cup {NoSlug}]
    /\ base \in [Writers -> Nat]
    /\ left \in [Writers -> SUBSET Slugs]

RevsOf(s) == {r \in revs : r.slug = s}

\* An article's history is a chain without gaps, forks or orphans: revisions
\* 1 to current_rev, one each, and the article shows the last one's body.
RevisionsFormAChain ==
    \A s \in Slugs :
        /\ {r.no : r \in RevsOf(s)} = 1..art[s].rev
        /\ \A r, q \in RevsOf(s) : r.no = q.no => r = q
        /\ \A r \in RevsOf(s) : r.no = art[s].rev => r.ref = art[s].ref

\* Nothing is overwritten unseen: the text of an update, a fix or a format
\* was made from the revision right before it, though expected_rev is compared
\* long before the write and a format keeps its objects for the whole job; a
\* rollback or an ingest follows the revision that its transaction had read.
NoLostUpdate == \A r \in revs : r.base + 1 = r.no

\* A conflict is never a writer's own doing: the article it is refused for
\* has been written by somebody else since it read it.
ConflictMeansOvertaken ==
    [][\A w \in Writers : phase[w] # "conflict" /\ phase'[w] = "conflict" =>
          art[item[w]].rev > mem[w][item[w]].rev]_vars

\* Waits for another writer's row lock.
WaitsForRow(w) == phase[w] = "write" /\ lock[item[w]] \notin {Nobody, w}

HoldsRow(w) == \E s \in Slugs : lock[s] = w

\* Row locks are never waited for in a circle: everybody in a circle would hold
\* one row and wait for another, and at most one writer does so at a time, the
\* job whose turn it is.  Nothing else orders the rows: a fix takes them in the
\* order of its issues, a format in the order of its list.
NoCircularWait ==
    \A v, w \in Writers :
        /\ HoldsRow(v) /\ WaitsForRow(v)
        /\ HoldsRow(w) /\ WaitsForRow(w)
        => v = w
=============================================================================
