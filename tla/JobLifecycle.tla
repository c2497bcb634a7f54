---------------------------- MODULE JobLifecycle ----------------------------
(***************************************************************************)
(* What the durable queue promises about a job, whatever its callers,      *)
(* workers, failures and restarts do: jobs are accepted one after another  *)
(* while fewer than MaxQueueSize are unfinished, started in that order,    *)
(* and each moves once along PENDING -> RUNNING -> a terminal state.       *)
(***************************************************************************)
EXTENDS Naturals, FiniteSets

CONSTANTS MaxJobs, MaxQueueSize

VARIABLE state

Ids == 1..MaxJobs
Unfinished == {j \in Ids : state[j] \in {"PENDING", "RUNNING"}}

Init == state = [j \in Ids |-> "ABSENT"]

Accept(j) ==
    /\ state[j] = "ABSENT"
    /\ \A i \in Ids : i < j => state[i] # "ABSENT"
    /\ Cardinality(Unfinished) < MaxQueueSize
    /\ state' = [state EXCEPT ![j] = "PENDING"]

Start(j) ==
    /\ state[j] = "PENDING"
    /\ \A i \in Ids : i < j => state[i] # "PENDING"
    /\ state' = [state EXCEPT ![j] = "RUNNING"]

Finish(j) ==
    /\ state[j] = "RUNNING"
    /\ \E result \in {"COMPLETED", "FAILED"} :
          state' = [state EXCEPT ![j] = result]

Cancel(j) ==
    /\ j \in Unfinished
    /\ state' = [state EXCEPT ![j] = "CANCELLED"]

Next == \E j \in Ids : Accept(j) \/ Start(j) \/ Finish(j) \/ Cancel(j)

Spec == Init /\ [][Next]_state
=============================================================================
