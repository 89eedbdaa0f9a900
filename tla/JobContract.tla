---------------------------- MODULE JobContract ----------------------------
(***************************************************************************)
(* What a generation job promises whoever asked for it, whatever workers,  *)
(* messages and crashes bring it about: the states it may report, what a   *)
(* granted cancel means, and that its credit hold moves once, at the end,  *)
(* the way its final state calls for.  It has no leases, queue or sweep.   *)
(***************************************************************************)
EXTENDS Naturals

CONSTANT Jobs

VARIABLES
  sync,     \* the jobs of a kind whose submit is the whole provider call
  state,    \* the state the job reports
  asked,    \* its cancel was accepted
  charges,  \* settlements of its hold as a charge ...
  refunds   \* ... and as a refund

vars == << sync, state, asked, charges, refunds >>

Final == {"succeeded", "failed", "blocked", "cancelled"}

\* The states a job may report next.  Storing means the provider has produced
\* and billed the output, so from there it is delivered or it fails.  A sync
\* job runs for the length of its provider call, and a call that created
\* nothing puts it back.
Successors(j, s) ==
  IF j \in sync
    THEN CASE s = "pending" -> {"running", "failed", "cancelled"}
           [] s = "running" -> {"pending", "succeeded", "failed", "blocked"}
           [] OTHER -> {}
    ELSE CASE s = "pending" -> {"running", "failed", "cancelled"}
           [] s = "running" -> {"storing", "failed", "blocked", "cancelled"}
           [] s = "storing" -> {"succeeded", "failed"}
           [] OTHER -> {}

Init ==
  /\ sync \in SUBSET Jobs
  /\ state = [j \in Jobs |-> "pending"]
  /\ asked = [j \in Jobs |-> FALSE]
  /\ charges = [j \in Jobs |-> 0]
  /\ refunds = [j \in Jobs |-> 0]

\* A job is only cancelled because that was asked for, and a sync job whose
\* cancel was accepted does not reach the provider any more.
Move(j) ==
  \E s \in Successors(j, state[j]) :
    /\ s = "cancelled" => asked[j]
    /\ j \in sync /\ asked[j] => s # "running"
    /\ state' = [state EXCEPT ![j] = s]
    /\ UNCHANGED << asked, charges, refunds >>

\* A cancel is accepted while it can still save something.
AcceptCancel(j) ==
  /\ state[j] = "pending" \/ (state[j] = "running" /\ j \notin sync)
  /\ asked' = [asked EXCEPT ![j] = TRUE]
  /\ UNCHANGED << state, charges, refunds >>

Charge(j) ==
  /\ state[j] \in {"succeeded", "blocked"}
  /\ charges[j] + refunds[j] = 0
  /\ charges' = [charges EXCEPT ![j] = 1]
  /\ UNCHANGED << state, asked, refunds >>

Refund(j) ==
  /\ state[j] \in {"failed", "blocked", "cancelled"}
  /\ charges[j] + refunds[j] = 0
  /\ refunds' = [refunds EXCEPT ![j] = 1]
  /\ UNCHANGED << state, asked, charges >>

Next ==
  /\ \E j \in Jobs : Move(j) \/ AcceptCancel(j) \/ Charge(j) \/ Refund(j)
  /\ UNCHANGED sync

Spec == Init /\ [][Next]_vars
=============================================================================
