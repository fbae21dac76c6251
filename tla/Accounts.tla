------------------------------ MODULE Accounts ------------------------------
(***************************************************************************)
(* Users, their roles and API keys, and the first setup, under concurrent  *)
(* requests.                                                               *)
(*                                                                         *)
(* A request is one PostgreSQL transaction at READ COMMITTED, from         *)
(* current_user to commit: each of its SELECTs sees what is committed at   *)
(* that moment, and what it writes is visible at its commit.  Row locks,   *)
(* held to the end of the transaction:                                     *)
(*   - an UPDATE of a user's role excludes another UPDATE and a DELETE;    *)
(*   - a DELETE excludes everything;                                       *)
(*   - a row that refers to a user (audit_log, api_keys) locks the user's  *)
(*     row against a DELETE, and cannot be inserted once it is gone.       *)
(* The server aborts one transaction of a cycle of waits.                  *)
(*                                                                         *)
(* "viewer" stands for both roles without administration.  Passwords,      *)
(* addresses and the contents of the settings row are left out; a user who *)
(* was deleted never comes back (a new row has a new id).  Sessions are in *)
(* Login.                                                                  *)
(***************************************************************************)
EXTENDS Naturals, FiniteSets

CONSTANTS
    Users,      \* ids of rows of users
    Requests    \* requests that run at a time

ASSUME AccountsAssumption == IsFiniteSet(Users)

VARIABLES
    role,       \* [Users -> UserStates]  committed rows of users
    configured, \* BOOLEAN                the row of app_settings is committed
    keys,       \* SUBSET Users           users with an API key that is not revoked
    req,        \* [Requests -> Request]
    raced       \* SUBSET Requests  history: requests during which another one
                \* committed a change of users

accountsVars == <<role, configured, keys, req, raced>>

-----------------------------------------------------------------------------
Roles == {"admin", "viewer"}
UserStates == Roles \cup {"unborn", "deleted"}
Ops == {"none", "setup", "create", "set_role", "delete", "issue"}

\* What a request does next.
Steps == {"idle", "insert", "settings", "target", "count", "write", "audit", "commit"}

\* to is the role to give; sawRow, that the SELECT of app_settings found its row.
Request == [op : Ops, step : Steps, actor : Users \cup {"nobody"},
            target : Users \cup {"nobody"}, to : Roles, sawRow : BOOLEAN]

NoRequest == [op |-> "none", step |-> "idle", actor |-> "nobody", target |-> "nobody",
              to |-> "viewer", sawRow |-> FALSE]

Present == {u \in Users : role[u] \in Roles}
Admins == {u \in Users : role[u] = "admin"}
Busy == {r \in Requests : req[r].step # "idle"}

\* Bound: the ids that are left for the rows under way and one more.
Unborn == {u \in Users : role[u] = "unborn"}
IdLeft == Cardinality({r \in Requests : req[r].op \in {"setup", "create"}})
            < Cardinality(Unborn)

Goto(r, step) == req' = [req EXCEPT ![r].step = step]

\* The request is over, committed or not.
Over(r) == req' = [req EXCEPT ![r] = NoRequest]

\* The transaction ends without a change: an early error response, or an
\* exception that closes the session.
Refuse(r) ==
    /\ Over(r)
    /\ raced' = raced \ {r}
    /\ UNCHANGED <<role, configured, keys>>

-----------------------------------------------------------------------------
(* Locks *)

\* Who has written a row that refers to u; who has updated the row of u; who has
\* deleted it; who has written the row of app_settings.
Referrers(u) == {r \in Busy : /\ req[r].actor = u
                              /\ \/ req[r].op # "setup" /\ req[r].step = "commit"
                                 \/ req[r].op = "delete" /\ req[r].step = "write"}
Updaters(u) == {r \in Busy : /\ req[r].target = u
                             /\ req[r].op = "set_role"
                             /\ req[r].step \in {"audit", "commit"}
                             /\ u \in Present}
Deleters(u) == {r \in Busy : /\ req[r].target = u
                             /\ req[r].op = "delete"
                             /\ req[r].step = "commit"
                             /\ u \in Present}
Configurers == {r \in Busy : req[r].op = "setup" /\ req[r].step = "commit"}

\* The transactions that r waits for.
Blockers(r) ==
    (IF req[r].step = "audit" THEN Deleters(req[r].actor)
     ELSE IF req[r].step = "write" /\ req[r].op = "set_role"
     THEN Updaters(req[r].target) \cup Deleters(req[r].target)
     ELSE IF req[r].step = "write" /\ req[r].op = "delete"
     THEN Updaters(req[r].target) \cup Deleters(req[r].target) \cup Referrers(req[r].target)
     ELSE IF req[r].step = "settings" THEN Configurers
     ELSE {}) \ {r}

Free(r) == Blockers(r) = {}

\* r is in a cycle of waits.
InCycle(r) ==
    \E s \in Blockers(r) : \/ r \in Blockers(s)
                           \/ \E t \in Blockers(s) : r \in Blockers(t)

-----------------------------------------------------------------------------
(* Setup *)

\* needs_setup finds no user (else 409).
BeginSetup(r) ==
    /\ req[r].step = "idle"
    /\ Present = {}
    /\ IdLeft
    /\ req' = [req EXCEPT ![r].op = "setup", ![r].step = "insert"]
    /\ UNCHANGED <<role, configured, keys, raced>>

\* The administrator's row is inserted, then upsert looks for the settings row.
InsertAdmin(r) ==
    /\ req[r].step = "insert"
    /\ req' = [req EXCEPT ![r].step = "settings", ![r].sawRow = configured]
    /\ UNCHANGED <<role, configured, keys, raced>>

\* Fault: INSERT ... ON CONFLICT DO UPDATE.
UpsertSettings(r) ==
    /\ req[r].step = "settings"
    /\ Free(r)
    /\ Goto(r, "commit")
    /\ UNCHANGED <<role, configured, keys, raced>>

\* The row is inserted or updated, whichever was decided; an INSERT of a second
\* row violates the primary key.
WriteSettings(r) ==
    /\ req[r].step = "settings"
    /\ Free(r)
    /\ IF configured /\ ~req[r].sawRow
       THEN Refuse(r)
       ELSE Goto(r, "commit") /\ UNCHANGED <<role, configured, keys, raced>>

-----------------------------------------------------------------------------
(* Administration *)

\* require_role("admin") of the actor; create has nothing to look up.
BeginAs(r, a, op) ==
    /\ req[r].step = "idle"
    /\ a \in Admins
    /\ \/ /\ op = "create"
          /\ IdLeft
          /\ \E to \in Roles :
              req' = [req EXCEPT ![r] = [@ EXCEPT !.op = op, !.actor = a, !.to = to,
                                                  !.step = "audit"]]
       \/ /\ op \in {"set_role", "delete"}
          /\ \E t \in Users, to \in IF op = "delete" THEN {"viewer"} ELSE Roles :
              req' = [req EXCEPT ![r] = [@ EXCEPT !.op = op, !.actor = a, !.target = t,
                                                  !.to = to, !.step = "target"]]
    /\ UNCHANGED <<role, configured, keys, raced>>

\* A key is issued to any user.
BeginIssue(r, a) ==
    /\ req[r].step = "idle"
    /\ a \in Present
    /\ req' = [req EXCEPT ![r].op = "issue", ![r].actor = a, ![r].step = "audit"]
    /\ UNCHANGED <<role, configured, keys, raced>>

\* The step after the target is known and may be changed.
Proceeding(r) == IF req[r].op = "delete" THEN "audit" ELSE "write"

\* session.get of the target: the row the session already has for the actor, else
\* a SELECT; 404 if there is none.
ReadTarget(r) ==
    LET q == req[r]
        admin == q.target = q.actor \/ role[q.target] = "admin"
        counts == admin /\ (q.op = "delete" \/ q.to # "admin")
    IN /\ q.step = "target"
       /\ IF q.target \notin Present /\ q.target # q.actor
          THEN Refuse(r)
          ELSE /\ Goto(r, IF counts THEN "count" ELSE Proceeding(r))
               /\ UNCHANGED <<role, configured, keys, raced>>

\* Fault: no count of the administrators.
CountNothing(r) ==
    /\ req[r].step = "count"
    /\ Goto(r, Proceeding(r))
    /\ UNCHANGED <<role, configured, keys, raced>>

\* count_admins, for a target that was an administrator: 409 for the last one.
CountAdmins(r) ==
    /\ req[r].step = "count"
    /\ IF Cardinality(Admins) <= 1
       THEN Refuse(r)
       ELSE Goto(r, Proceeding(r)) /\ UNCHANGED <<role, configured, keys, raced>>

\* UPDATE or DELETE of the target, which may wait; a row that is gone by now is
\* no error.
WriteTarget(r) ==
    /\ req[r].step = "write"
    /\ Free(r)
    /\ Goto(r, IF req[r].op = "delete" THEN "commit" ELSE "audit")
    /\ UNCHANGED <<role, configured, keys, raced>>

\* Fault: the audit row does not refer to the actor.
AuditUnchecked(r) ==
    /\ req[r].step = "audit"
    /\ Goto(r, IF req[r].op = "delete" THEN "write" ELSE "commit")
    /\ UNCHANGED <<role, configured, keys, raced>>

\* INSERT of the audit row (of the key, too), which refers to the actor.
Audit(r) ==
    /\ req[r].step = "audit"
    /\ Free(r)
    /\ IF req[r].actor \in Present
       THEN /\ Goto(r, IF req[r].op = "delete" THEN "write" ELSE "commit")
            /\ UNCHANGED <<role, configured, keys, raced>>
       ELSE Refuse(r)

\* The committed rows of users after r.
NewRoles(r) ==
    LET q == req[r] IN
    CASE q.op \in {"setup", "create"} ->
            {[role EXCEPT ![u] = IF q.op = "setup" THEN "admin" ELSE q.to] : u \in Unborn}
      [] q.op = "set_role" /\ q.target \in Present -> {[role EXCEPT ![q.target] = q.to]}
      [] q.op = "delete" /\ q.target \in Present -> {[role EXCEPT ![q.target] = "deleted"]}
      [] OTHER -> {role}

\* COMMIT; the keys of a deleted user go with it.
CommitRequest(r) ==
    /\ req[r].step = "commit"
    /\ role' \in NewRoles(r)
    /\ keys' = (keys \cup (IF req[r].op = "issue" THEN {req[r].actor} ELSE {}))
                \ {u \in Users : role'[u] = "deleted"}
    /\ configured' = (configured \/ req[r].op = "setup")
    /\ raced' = (IF role' # role THEN Busy ELSE raced) \ {r}
    /\ Over(r)

\* One UPDATE of the user's own key.
RevokeKey(u) ==
    /\ u \in keys
    /\ Deleters(u) = {}
    /\ keys' = keys \ {u}
    /\ UNCHANGED <<role, configured, req, raced>>

\* The server's answer to a cycle of waits.
AbortVictim(r) == InCycle(r) /\ Refuse(r)

-----------------------------------------------------------------------------
AccountsInit ==
    /\ role = [u \in Users |-> "unborn"]
    /\ configured = FALSE
    /\ keys = {}
    /\ req = [r \in Requests |-> NoRequest]
    /\ raced = {}

\* What a request does of itself once it is under way.
RequestStep(r) ==
    \/ InsertAdmin(r) \/ WriteSettings(r) \/ ReadTarget(r) \/ CountAdmins(r)
    \/ WriteTarget(r) \/ Audit(r) \/ CommitRequest(r) \/ AbortVictim(r)

AccountsNext ==
    \/ \E r \in Requests :
        \/ BeginSetup(r) \/ RequestStep(r)
        \/ \E a \in Users : \/ BeginIssue(r, a)
                            \/ \E op \in Ops : BeginAs(r, a, op)
    \/ \E u \in Users : RevokeKey(u)

AccountsSpec == AccountsInit /\ [][AccountsNext]_accountsVars

-----------------------------------------------------------------------------
(* Properties *)

\* Rows and requests have their types, and a key belongs to a user.
AccountsTypeOK ==
    /\ role \in [Users -> UserStates]
    /\ configured \in BOOLEAN
    /\ keys \subseteq Present
    /\ req \in [Requests -> Request]
    /\ raced \subseteq Busy

Commits(r) == req[r].step = "commit" /\ req'[r].step = "idle"

\* UserService.set_role, delete: the last administrator can go only by a request
\* that another one's commit overtook; requests one after the other keep one.
AdminsLostOnlyByRace ==
    [][Admins # {} /\ Admins' = {} => \E r \in raced : Commits(r)]_accountsVars

\* SetupService.complete: a setup is committed beside users only if it looked for
\* the settings row after another setup had committed it; else the primary key of
\* the settings row refuses it, however the two overlap.
SecondSetupSawFirst ==
    [][\A r \in Requests : Commits(r) /\ req[r].op = "setup" /\ Present # {}
            => req[r].sawRow]_accountsVars

\* No user is changed and no key issued in the name of a user who is gone, though
\* the actor was looked up at the start of the request: the audit row refers to
\* the actor.
ActorOutlivesRequest ==
    [][\A r \in Requests : Commits(r) /\ req[r].op # "setup"
            => req[r].actor \in Present' \cup {req[r].target}]_accountsVars
=============================================================================
