----------------------------- MODULE DomainWork -----------------------------
(***************************************************************************)
(* What the jobs of paw promise, without queue, processes, locks or time:  *)
(* the jobs of a domain take turns, a turn lands its writes in one step or *)
(* not at all, a job is called succeeded only by a turn that is past its   *)
(* landing, and called failed or cancelled by its own turn only when that  *)
(* turn landed nothing and never will.  Anyone may call a job failed       *)
(* from outside (the domain is busy, or the heartbeat is stale).           *)
(***************************************************************************)
EXTENDS Naturals

CONSTANTS Jobs, Domains, DomainOf

VARIABLES
    inside,    \* the jobs whose turn it is: at most one in each domain
    fresh,     \* those of them that may still land
    landings,  \* [Jobs -> Nat] the landings with writes
    verdict    \* [Jobs -> Verdicts]

absVars == <<inside, fresh, landings, verdict>>

Verdicts == {"open", "succeeded", "failed", "cancelled"}

AbsInit ==
    /\ inside = {}
    /\ fresh = {}
    /\ landings = [j \in Jobs |-> 0]
    /\ verdict = [j \in Jobs |-> "open"]

Enter(j) ==
    /\ \A i \in inside : DomainOf[i] # DomainOf[j]
    /\ inside' = inside \cup {j}
    /\ fresh' = fresh \cup {j}
    /\ UNCHANGED <<landings, verdict>>

Reopen(j) ==
    /\ j \in fresh
    /\ verdict' = [verdict EXCEPT ![j] = "open"]
    /\ UNCHANGED <<inside, fresh, landings>>

Land(j) ==
    /\ j \in fresh
    /\ fresh' = fresh \ {j}
    /\ \E n \in {0, 1} : landings' = [landings EXCEPT ![j] = @ + n]
    /\ UNCHANGED <<inside, verdict>>

CallSucceeded(j) ==
    /\ j \in inside \ fresh
    /\ verdict' = [verdict EXCEPT ![j] = "succeeded"]
    /\ UNCHANGED <<inside, fresh, landings>>

CallOff(j) ==
    /\ j \in fresh
    /\ fresh' = fresh \ {j}
    /\ \E v \in {"failed", "cancelled"} : verdict' = [verdict EXCEPT ![j] = v]
    /\ UNCHANGED <<inside, landings>>

\* A turn ends, or a process takes several with it when it dies.
Leave(S) ==
    /\ inside' = inside \ S
    /\ fresh' = fresh \ S
    /\ UNCHANGED <<landings, verdict>>

CallFailed(S) ==
    /\ verdict' = [j \in Jobs |-> IF j \in S THEN "failed" ELSE verdict[j]]
    /\ UNCHANGED <<inside, fresh, landings>>

AbsNext ==
    \/ \E j \in Jobs : \/ Enter(j) \/ Reopen(j) \/ Land(j)
                       \/ CallSucceeded(j) \/ CallOff(j)
    \/ \E S \in SUBSET Jobs : Leave(S) \/ CallFailed(S)

AbsSpec == AbsInit /\ [][AbsNext]_absVars
=============================================================================
