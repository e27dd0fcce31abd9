----------------------------- MODULE JobPromise -----------------------------
(***************************************************************************)
(* What the control plane and its Runners promise about a job, whatever    *)
(* streams break, leases run out and processes die: its commands are begun *)
(* at most once, and it counts as succeeded only after they ran to the end *)
(* without an error.                                                       *)
(***************************************************************************)
EXTENDS Naturals

CONSTANT Jobs

VARIABLES
  begun,    \* how often the commands of a job were begun
  ran,      \* jobs whose commands ran to the end without an error
  verdict   \* what the job is recorded as, or "open"

promised == <<begun, ran, verdict>>

PromiseInit ==
  /\ begun = [j \in Jobs |-> 0]
  /\ ran = {}
  /\ verdict = [j \in Jobs |-> "open"]

Begin(j) ==
  /\ begun[j] = 0
  /\ begun' = [begun EXCEPT ![j] = 1]
  /\ UNCHANGED <<ran, verdict>>

RunToEnd(j) ==
  /\ begun[j] = 1
  /\ ran' = ran \cup {j}
  /\ UNCHANGED <<begun, verdict>>

Conclude(j, v) ==
  /\ verdict[j] = "open"
  /\ v = "succeeded" => j \in ran
  /\ verdict' = [verdict EXCEPT ![j] = v]
  /\ UNCHANGED <<begun, ran>>

\* Cancellation of a run and the loss of a Runner conclude several jobs at once.
ConcludeAll(S, v) ==
  /\ \A j \in S : verdict[j] = "open"
  /\ v # "succeeded"
  /\ verdict' = [j \in Jobs |-> IF j \in S THEN v ELSE verdict[j]]
  /\ UNCHANGED <<begun, ran>>

PromiseNext ==
  \/ \E j \in Jobs : Begin(j) \/ RunToEnd(j)
  \/ \E j \in Jobs, v \in {"succeeded", "failed", "canceled"} : Conclude(j, v)
  \/ \E S \in SUBSET Jobs, v \in {"failed", "canceled"} : ConcludeAll(S, v)

PromiseSpec == PromiseInit /\ [][PromiseNext]_promised
=============================================================================
