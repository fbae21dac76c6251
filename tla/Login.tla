------------------------------- MODULE Login --------------------------------
(***************************************************************************)
(* Sign-in: the lock after failed passwords, the sliding-window limit, and *)
(* the sessions, all in Redis, with the users' rows in PostgreSQL.         *)
(*                                                                         *)
(* An attempt is one request of POST /auth/login.  Each of its Redis calls *)
(* is atomic (a Lua script, a MULTI pipeline, a DEL), and anything may     *)
(* happen between two of them.  All attempts come from one address, the    *)
(* key "ip"; the other keys are the e-mail addresses.                      *)
(*                                                                         *)
(* Time is a clock that ticks; a key of Redis with a time to live is there *)
(* until its end has come.  A limit is a sorted set of hits, each with the *)
(* time t at which its client read the clock, some moment before the call; *)
(* a hit drops what left the window that ends at t, and counts the rest.   *)
(***************************************************************************)
EXTENDS Naturals, FiniteSets

CONSTANTS
    Emails,     \* e-mail addresses, one user each
    Attempts,   \* requests to sign in
    EmailOf,    \* [Attempts -> Emails]
    Limit,      \* login_rate_limit
    Window,     \* login_rate_window_seconds
    Threshold,  \* login_lockout_threshold
    FailWindow, \* fail_window_seconds
    LockTime,   \* login_lockout_seconds
    MaxClock    \* bound: the last tick

ASSUME LoginAssumption ==
    /\ "ip" \notin Emails
    /\ EmailOf \in [Attempts -> Emails]
    /\ {Limit, Window, Threshold, FailWindow, LockTime} \subseteq Nat \ {0}
    /\ MaxClock \in Nat

VARIABLES
    clock,      \* 0..MaxClock
    accounts,   \* SUBSET Emails   users that have a row
    attempt,    \* [Attempts -> Attempt]
    hits,       \* [GuardKeys -> SUBSET Hit]  the sorted set of each limit
    hitEnd,     \* [GuardKeys -> Nat]         when it expires
    failures,   \* [GuardKeys -> Nat]         loginfail:<key>
    failEnd,    \* [GuardKeys -> Nat]         when it expires
    lockEnd,    \* [GuardKeys -> Nat]         when loginlock:<key> expires
    sids,       \* SUBSET Attempts  sessions, named by the attempt that made them
    inside,     \* [GuardKeys -> SUBSET Attempts]  history: the attempts that were
                \* past the check when the lock was set
    passed      \* [GuardKeys -> SUBSET Pass]  history: the hits within the limit

limitVars == <<hits, hitEnd, passed>>
guardVars == <<failures, failEnd, lockEnd, inside>>
loginRedis == <<limitVars, guardVars, sids>>
loginVars == <<clock, accounts, attempt, loginRedis>>

-----------------------------------------------------------------------------
GuardKeys == Emails \cup {"ip"}

LoginSteps == {"new", "check_ip", "hit_ip", "hit_email", "verify", "fail_email", "fail_ip",
               "reset_email", "reset_ip", "session", "audit",
               "done", "refused", "unauthorized", "lost"}
Ended == {"done", "refused", "unauthorized", "lost"}

\* at is a moment not later than the next reading of the clock.
Attempt == [step : LoginSteps, at : Nat]

\* score is the client's time, time that of Redis when it took the hit.
Hit == [by : Attempts, score : Nat]
Pass == [by : Attempts, score : Nat, time : Nat]

\* A key with a time to live is there until its end.
Failed(k) == IF clock < failEnd[k] THEN failures[k] ELSE 0
Locked(k) == clock < lockEnd[k]
Counted(k) == IF clock < hitEnd[k] THEN hits[k] ELSE {}

Under == {a \in Attempts : attempt[a].step \notin {"new"} \cup Ended}
PastCheck(k) == {a \in Under : k = "ip" => attempt[a].step # "check_ip"}

Move(a, step) == attempt' = [attempt EXCEPT ![a].step = step]

-----------------------------------------------------------------------------
\* Fault: the lock of the address is not looked at.
CheckNothing(a) ==
    /\ attempt[a].step = "check_ip"
    /\ attempt' = [attempt EXCEPT ![a] = [step |-> "hit_ip", at |-> clock]]
    /\ UNCHANGED <<clock, accounts, loginRedis>>

\* is_locked for the e-mail.
CheckEmail(a) ==
    /\ attempt[a].step = "new"
    /\ Move(a, IF Locked(EmailOf[a]) THEN "refused" ELSE "check_ip")
    /\ UNCHANGED <<clock, accounts, loginRedis>>

\* is_locked for the address; then the clock may be read.
CheckIp(a) ==
    /\ attempt[a].step = "check_ip"
    /\ IF Locked("ip")
       THEN Move(a, "refused")
       ELSE attempt' = [attempt EXCEPT ![a] = [step |-> "hit_ip", at |-> clock]]
    /\ UNCHANGED <<clock, accounts, loginRedis>>

\* What is left of the window that ends at t, with the hit of a.
WithHit(k, a, t) == {h \in Counted(k) : h.score + Window > t} \cup {[by |-> a, score |-> t]}

\* Fault: the count is taken before the hit is added.
WithinWithout(k, a, t) == Cardinality(WithHit(k, a, t)) - 1 <= Limit

WithinLimit(k, a, t) == Cardinality(WithHit(k, a, t)) <= Limit

\* RateLimiter.hit for k, in one pipeline: drop, add, count, and let the key expire a
\* window later.  A hit over the limit stays and counts against later ones.
HitLimit(k, a, t) ==
    /\ hits' = [hits EXCEPT ![k] = WithHit(k, a, t)]
    /\ hitEnd' = [hitEnd EXCEPT ![k] = clock + Window]
    /\ passed' = [passed EXCEPT ![k] =
           @ \cup {p \in {[by |-> a, score |-> t, time |-> clock]} : WithinLimit(k, a, t)}]

HitIp(a) ==
    /\ attempt[a].step = "hit_ip"
    /\ \E t \in attempt[a].at..clock :
        /\ HitLimit("ip", a, t)
        /\ attempt' = [attempt EXCEPT ![a] =
               IF WithinLimit("ip", a, t) THEN [step |-> "hit_email", at |-> clock]
                                          ELSE [step |-> "refused", at |-> 0]]
    /\ UNCHANGED <<clock, accounts, guardVars, sids>>

HitEmail(a) ==
    /\ attempt[a].step = "hit_email"
    /\ \E t \in attempt[a].at..clock :
        /\ HitLimit(EmailOf[a], a, t)
        /\ attempt' = [attempt EXCEPT ![a] =
               [step |-> IF WithinLimit(EmailOf[a], a, t) THEN "verify" ELSE "refused",
                at |-> 0]]
    /\ UNCHANGED <<clock, accounts, guardVars, sids>>

\* get_by_email and verify_password; a dummy hash where there is no user.
Verify(a) ==
    /\ attempt[a].step = "verify"
    /\ \/ EmailOf[a] \in accounts /\ Move(a, "reset_email")
       \/ Move(a, "fail_email")
    /\ UNCHANGED <<clock, accounts, loginRedis>>

\* The script of record_failure: the window of the count starts with its first
\* failure, and a count at the threshold sets the lock (anew).
RecordFailure(k) ==
    LET n == Failed(k) + 1 IN
    /\ failures' = [failures EXCEPT ![k] = n]
    /\ failEnd' = [failEnd EXCEPT ![k] = IF n = 1 THEN clock + FailWindow ELSE @]
    /\ IF n >= Threshold
       THEN /\ lockEnd' = [lockEnd EXCEPT ![k] = clock + LockTime]
            /\ inside' = [inside EXCEPT ![k] = PastCheck(k)]
       ELSE UNCHANGED <<lockEnd, inside>>

FailEmail(a) ==
    /\ attempt[a].step = "fail_email"
    /\ RecordFailure(EmailOf[a])
    /\ Move(a, "fail_ip")
    /\ UNCHANGED <<clock, accounts, limitVars, sids>>

FailIp(a) ==
    /\ attempt[a].step = "fail_ip"
    /\ RecordFailure("ip")
    /\ Move(a, "unauthorized")
    /\ UNCHANGED <<clock, accounts, limitVars, sids>>

\* reset: DEL of the count and of the lock.
ResetGuard(k) ==
    /\ failures' = [failures EXCEPT ![k] = 0]
    /\ failEnd' = [failEnd EXCEPT ![k] = 0]
    /\ lockEnd' = [lockEnd EXCEPT ![k] = 0]
    /\ UNCHANGED inside

ResetEmail(a) ==
    /\ attempt[a].step = "reset_email"
    /\ ResetGuard(EmailOf[a])
    /\ Move(a, "reset_ip")
    /\ UNCHANGED <<clock, accounts, limitVars, sids>>

ResetIp(a) ==
    /\ attempt[a].step = "reset_ip"
    /\ ResetGuard("ip")
    /\ Move(a, "session")
    /\ UNCHANGED <<clock, accounts, limitVars, sids>>

\* SessionStore.create, before anything is committed in PostgreSQL.
CreateSession(a) ==
    /\ attempt[a].step = "session"
    /\ sids' = sids \cup {a}
    /\ Move(a, "audit")
    /\ UNCHANGED <<clock, accounts, limitVars, guardVars>>

\* The audit row refers to the user: if the user is gone by now the response is
\* an error, and the session stays behind.
AuditLogin(a) ==
    /\ attempt[a].step = "audit"
    /\ Move(a, IF EmailOf[a] \in accounts THEN "done" ELSE "lost")
    /\ UNCHANGED <<clock, accounts, loginRedis>>

\* Redis or PostgreSQL fails, or the process dies: what was done stays done.
BreakOff(a) ==
    /\ a \in Under
    /\ Move(a, "lost")
    /\ UNCHANGED <<clock, accounts, loginRedis>>

-----------------------------------------------------------------------------
(* Sessions *)

\* A session ends by logout or by its time to live, or because a page of the web
\* interface finds that its user is gone.
DropSession(a) ==
    /\ a \in sids
    /\ attempt[a].step \in Ended
    /\ sids' = sids \ {a}
    /\ UNCHANGED <<clock, accounts, attempt, limitVars, guardVars>>

DeleteAccount(e) ==
    /\ e \in accounts
    /\ accounts' = accounts \ {e}
    /\ UNCHANGED <<clock, attempt, loginRedis>>

ClockTick ==
    /\ clock < MaxClock
    /\ clock' = clock + 1
    /\ UNCHANGED <<accounts, attempt, loginRedis>>

-----------------------------------------------------------------------------
LoginInit ==
    /\ clock = 0
    /\ accounts = Emails
    /\ attempt = [a \in Attempts |-> [step |-> "new", at |-> 0]]
    /\ hits = [k \in GuardKeys |-> {}]
    /\ hitEnd = [k \in GuardKeys |-> 0]
    /\ failures = [k \in GuardKeys |-> 0]
    /\ failEnd = [k \in GuardKeys |-> 0]
    /\ lockEnd = [k \in GuardKeys |-> 0]
    /\ sids = {}
    /\ inside = [k \in GuardKeys |-> {}]
    /\ passed = [k \in GuardKeys |-> {}]

AttemptStep(a) ==
    \/ CheckIp(a) \/ HitIp(a) \/ HitEmail(a) \/ Verify(a) \/ FailEmail(a) \/ FailIp(a)
    \/ ResetEmail(a) \/ ResetIp(a) \/ CreateSession(a) \/ AuditLogin(a)

LoginNext ==
    \/ \E a \in Attempts :
        \/ CheckEmail(a) \/ AttemptStep(a) \/ BreakOff(a) \/ DropSession(a)
    \/ \E e \in Emails : DeleteAccount(e)
    \/ ClockTick

LoginSpec == LoginInit /\ [][LoginNext]_loginVars

-----------------------------------------------------------------------------
(* Properties *)

LoginTypeOK ==
    /\ clock \in 0..MaxClock
    /\ accounts \subseteq Emails
    /\ attempt \in [Attempts -> Attempt]
    /\ hits \in [GuardKeys -> SUBSET Hit]
    /\ {hitEnd, failures, failEnd, lockEnd} \subseteq [GuardKeys -> Nat]
    /\ sids \subseteq {a \in Attempts : attempt[a].step \in {"audit"} \cup Ended}
    /\ inside \in [GuardKeys -> SUBSET Attempts]
    /\ passed \in [GuardKeys -> SUBSET Pass]

\* RateLimiter: of the hits that were timed and taken within one window, no more than
\* the limit are let through, for a user or from an address, whatever runs at the same
\* time.  One that Redis takes after the window it was timed in may be one too many:
\* others of that window may be dropped or expired by then.
TriesWithinLimit ==
    \A k \in GuardKeys, last \in 0..MaxClock :
        Cardinality({p \in passed[k] : p.score + Window > last /\ p.time <= last}) <= Limit

\* LoginGuard: a lock ends before its time only by the success of an attempt that
\* was past the check when the lock was set.
LockEndsOnlyFromInside ==
    [][\A k \in GuardKeys : Locked(k) /\ ~Locked(k)' /\ clock' = clock
            => \E a \in inside[k] : attempt'[a].step # attempt[a].step]_loginVars
=============================================================================
