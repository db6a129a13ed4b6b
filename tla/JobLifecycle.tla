---------------------------- MODULE JobLifecycle ----------------------------
(***************************************************************************)
(* What the job queue promises, without workers, leases or clocks: a job   *)
(* waits, is granted under a fence that was never used for it before, and  *)
(* then either is settled under that very fence or has the grant revoked,  *)
(* which uses the fence up.  Outcomes are final.                           *)
(***************************************************************************)
EXTENDS Integers

CONSTANT Jobs

VARIABLES state,  \* the state of each job
          fence   \* the fence of its latest grant or revocation

lifecycleVars == <<state, fence>>

Init ==
    /\ state = [j \in Jobs |-> "absent"]
    /\ fence = [j \in Jobs |-> 0]

Submit(j) ==
    /\ state[j] = "absent"
    /\ state' = [state EXCEPT ![j] = "queued"]
    /\ UNCHANGED fence

Grant(j) ==
    /\ state[j] \in {"queued", "retrying"}
    /\ state' = [state EXCEPT ![j] = "running"]
    /\ fence'[j] > fence[j]
    /\ fence' = [fence EXCEPT ![j] = fence'[j]]

Settle(j) ==
    /\ state[j] = "running"
    /\ \E s \in {"succeeded", "failed", "retrying"} :
          state' = [state EXCEPT ![j] = s]
    /\ UNCHANGED fence

Revoke(S) ==
    /\ \A j \in S : state[j] = "running"
    /\ state' = [j \in Jobs |-> IF j \in S THEN "retrying" ELSE state[j]]
    /\ fence' = [j \in Jobs |-> IF j \in S THEN fence[j] + 1 ELSE fence[j]]

Cancel(j) ==
    /\ state[j] \in {"queued", "failed"}
    /\ state' = [state EXCEPT ![j] = "cancelled"]
    /\ UNCHANGED fence

Next ==
    \/ \E j \in Jobs : Submit(j) \/ Grant(j) \/ Settle(j) \/ Cancel(j)
    \/ \E S \in SUBSET Jobs : Revoke(S)

Spec == Init /\ [][Next]_lifecycleVars
=============================================================================
