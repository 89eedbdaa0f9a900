--------------------------- MODULE GenerationJobs ---------------------------
(***************************************************************************)
(* The generation-job engine (b4m-core/services generationJobs/engine.ts): *)
(* queue workers advance a stored job one step per message, under a lease, *)
(* while requests create and cancel it and a sweep re-enqueues what looks  *)
(* stalled.  Every await of a step on the database, the queue or the       *)
(* provider is an action of its own, so any other process may run between  *)
(* two of them, and a process may stop for good at any of them.            *)
(*                                                                         *)
(* Two kinds of process run: a worker, and for each job the request that   *)
(* created it, which enqueues the first message and, if that fails, fails  *)
(* the job itself.  The request of job j is the process named j.           *)
(***************************************************************************)
EXTENDS GenerationJobRepository

CONSTANTS
  Jobs,       \* the jobs, each persisted with its credits held
  Kinds,      \* what they may be: a sync submit is the whole provider call, and
              \* not every async provider has a cancel
  HardKill,   \* a step is killed before its lease expires (true on Lambda)
  MaxQueue,   \* bound: messages kept per job; further ones are absorbed
  MaxFaults   \* bound: crashes, failed sends and lost messages

ASSUME JobsAssumption ==
  /\ Kinds \subseteq JobKinds
  /\ Jobs \cap Workers = {}
  /\ None \notin Jobs
ASSUME BoundsAssumption ==
  HardKill \in BOOLEAN /\ MaxQueue \in Nat \ {0} /\ MaxFaults \in Nat

VARIABLES
  job,      \* the job documents
  queue,    \* the queue: how many messages each job has waiting
  run,      \* what each process is doing
  prov,     \* the provider's side of a job: is a generation running there
  gens,     \* how many generations the provider ever started for the job
  charges,  \* how many times the job's hold was settled as a charge
  refunds,  \* how many times it was given back whole
  alarmed,  \* generation_job_terminal_handling_stuck was logged for the job
  leaked,   \* the provider's cancel could not be called, or failed, for the job
  faults    \* faults so far

vars == << job, queue, run, prov, gens, charges, refunds, alarmed, leaked, faults >>
provider == << prov, gens, leaked >>
credits == << charges, refunds >>

Procs == Workers \cup Jobs

\* What a step asks commit to write; the last four are the engine's own.
Results == {"running", "storing", "poll_again", "retry", "succeeded", "failed",
            "blocked", "billed_block", "orphaned",
            "exhausted", "cancelled", "timeout", "release"}
PCs == {"idle", "enqueue", "unqueued", "step", "access", "mark", "submit",
        "submitted", "poll", "store", "stop", "commit", "send",
        "claim", "settle", "record", "finish", "release"}

Task(l, j) ==
  [pc |-> l, job |-> j, doc |-> NewJob("async"), result |-> "release", leased |-> FALSE]
Rest == Task("idle", None)

Run == [pc : PCs, job : Jobs \cup {None}, doc : JobDoc, result : Results,
        leased : BOOLEAN]

TypeOK ==
  /\ job \in [Jobs -> JobDoc]
  /\ queue \in [Jobs -> 0 .. MaxQueue]
  /\ run \in [Procs -> Run]
  /\ prov \in [Jobs -> {"none", "active", "stopped"}]
  /\ gens \in [Jobs -> Nat]
  /\ charges \in [Jobs -> Nat]
  /\ refunds \in [Jobs -> Nat]
  /\ alarmed \in [Jobs -> BOOLEAN]
  /\ leaked \in [Jobs -> BOOLEAN]
  /\ faults \in 0 .. MaxFaults

Init ==
  /\ job \in [Jobs -> {NewJob(k) : k \in Kinds}]
  /\ queue = [j \in Jobs |-> 0]
  /\ run = [p \in Procs |-> IF p \in Jobs THEN Task("enqueue", p) ELSE Rest]
  /\ prov = [j \in Jobs |-> "none"]
  /\ gens = [j \in Jobs |-> 0]
  /\ charges = [j \in Jobs |-> 0]
  /\ refunds = [j \in Jobs |-> 0]
  /\ alarmed = [j \in Jobs |-> FALSE]
  /\ leaked = [j \in Jobs |-> FALSE]
  /\ faults = 0

-----------------------------------------------------------------------------
At(p, l) == run[p].pc = l
GoTo(p, l) == run' = [run EXCEPT ![p].pc = l]
End(p) == run' = [run EXCEPT ![p] = Rest]
Write(j, d) == job' = [job EXCEPT ![j] = d]
Fault == faults < MaxFaults /\ faults' = faults + 1

\* A queue length after one more message.
OneMore(n) == IF n < MaxQueue THEN n + 1 ELSE n
Enqueue(j) == queue' = [queue EXCEPT ![j] = OneMore(@)]
\* A send that reports an error may have landed.
MaybeEnqueue(j) == Enqueue(j) \/ UNCHANGED queue

IsSync(j) == job[j].kind = "sync"

-----------------------------------------------------------------------------
(* The request that created the job (persistAndEnqueueJob, from its first   *)
(* send on).                                                                *)

EnqueueFirst(j) ==
  /\ At(j, "enqueue")
  /\ Enqueue(j)
  /\ End(j)
  /\ UNCHANGED << job, provider, credits, alarmed, faults >>

EnqueueFirstFails(j) ==
  /\ At(j, "enqueue")
  /\ Fault
  /\ MaybeEnqueue(j)
  /\ GoTo(j, "unqueued")
  /\ UNCHANGED << job, provider, credits, alarmed >>

\* failBeforeStart: the commit under the unstarted guard, then finishTerminal.
FailBeforeStart(j) ==
  /\ At(j, "unqueued")
  /\ LET failed == [Released(job[j]) EXCEPT !.state = "failed", !.nextPoll = "none"]
     IN IF UnstartedGuard(job[j])
          THEN /\ Write(j, failed)
               /\ run' = [run EXCEPT ![j].pc = "claim", ![j].doc = failed]
          ELSE /\ End(j)
               /\ UNCHANGED job
  /\ UNCHANGED << queue, provider, credits, alarmed, faults >>

-----------------------------------------------------------------------------
(* step: delivery, the lease, and the branches in the order of the code.    *)

\* At-least-once delivery: a received message may be delivered again, because
\* the queue duplicated it or because this step will throw or die.
Delivered(j) == queue[j] > 0 /\ queue' \in {queue, [queue EXCEPT ![j] = @ - 1]}

Acquire(w, j) ==
  /\ At(w, "idle")
  /\ Delivered(j)
  /\ Leasable(job[j])
  /\ Write(j, Leased(job[j], w))
  /\ run' = [run EXCEPT ![w] = [pc |-> "step", job |-> j, doc |-> Leased(job[j], w),
                                result |-> "release", leased |-> TRUE]]
  /\ UNCHANGED << provider, credits, alarmed, faults >>

\* acquireLease found nothing to lease: the message is done with.
SkipDelivery(w, j) ==
  /\ At(w, "idle")
  /\ Delivered(j)
  /\ ~Leasable(job[j])
  /\ UNCHANGED << job, run, provider, credits, alarmed, faults >>

\* A submit was attempted and its outcome never recorded.
\* Mutant: only the sync case.
OrphanedSyncOnly(d, sync) == d.submitAttempted /\ d.state = "running" /\ sync
Orphaned(d, sync) ==
  /\ d.submitAttempted
  /\ d.state = "pending" \/ (d.state = "running" /\ sync)

\* Mutant: a cancel is obeyed in every state.
BranchCancelFirst(d, sync) ==
  IF d.state \in Terminal THEN "terminal"
  ELSE IF Orphaned(d, sync) THEN "orphaned"
  ELSE IF d.cancelRequested THEN "cancelled"
  ELSE IF d.nextPoll = "later" THEN "early"
  ELSE IF d.state # "storing" /\ d.late THEN "timeout"
  ELSE d.state

\* The branch step takes on the document it leased.
Branch(d, sync) ==
  IF d.state \in Terminal THEN "terminal"
  ELSE IF Orphaned(d, sync) THEN "orphaned"
  ELSE IF d.cancelRequested /\ d.state # "storing" THEN "cancelled"
  ELSE IF d.nextPoll = "later" THEN "early"
  ELSE IF d.state # "storing" /\ d.late THEN "timeout"
  ELSE d.state

\* Results that end a running job and therefore first stop its generation.
\* Mutant: giving up after the last attempt skips the cancel.
StopsProviderUnlessExhausted == {"orphaned", "failed", "cancelled", "timeout"}
StopsProvider == {"orphaned", "failed", "exhausted", "cancelled", "timeout"}

\* Mutant: one attempt too many.
ConcludeOneMore(w, r) ==
  LET d == run[w].doc
      outcome == IF r = "retry" /\ d.attempts >= MaxStepAttempts
                   THEN "exhausted" ELSE r
  IN run' = [run EXCEPT
       ![w].result = outcome,
       ![w].pc = IF d.state = "running" /\ outcome \in StopsProvider
                   THEN "stop" ELSE "commit"]

\* Carries a result to commit; a running job we give up on is stopped first.
Conclude(w, r) ==
  LET d == run[w].doc
      outcome == IF r = "retry" /\ d.attempts + 1 >= MaxStepAttempts
                   THEN "exhausted" ELSE r
  IN run' = [run EXCEPT
       ![w].result = outcome,
       ![w].pc = IF d.state = "running" /\ outcome \in StopsProvider
                   THEN "stop" ELSE "commit"]

\* step's dispatch on the leased document.
Step(w) ==
  /\ At(w, "step")
  /\ LET b == Branch(run[w].doc, IsSync(run[w].job))
     IN \/ b = "terminal" /\ GoTo(w, "claim")
        \/ b \in {"orphaned", "cancelled", "timeout"} /\ Conclude(w, b)
        \/ b = "early" /\ Conclude(w, "release")
        \/ b = "pending" /\ GoTo(w, "access")
        \/ b = "running" /\ GoTo(w, "poll")
        \/ b = "storing" /\ GoTo(w, "store")
  /\ UNCHANGED << job, queue, provider, credits, alarmed, faults >>

-----------------------------------------------------------------------------
(* submit, poll and store.                                                  *)

\* aiAccessDenial: an account blocked since creation never reaches the provider.
CheckAccess(w) ==
  /\ At(w, "access")
  /\ Conclude(w, "failed") \/ GoTo(w, "mark")
  /\ UNCHANGED << job, queue, provider, credits, alarmed, faults >>

\* markSubmitAttempted; refused, the cancel landed first and nothing is billed.
MarkSubmit(w) ==
  LET j == run[w].job IN
  /\ At(w, "mark")
  /\ IF CanMarkSubmit(job[j])
       THEN /\ Write(j, SubmitMarked(job[j], IsSync(j)))
            /\ GoTo(w, "submit")
       ELSE /\ Conclude(w, "cancelled")
            /\ UNCHANGED job
  /\ UNCHANGED << queue, provider, credits, alarmed, faults >>

\* The provider starts a generation for the submit it received.
ProviderAccepts(w) ==
  LET j == run[w].job IN
  /\ At(w, "submit")
  /\ gens' = [gens EXCEPT ![j] = @ + 1]
  /\ prov' = [prov EXCEPT ![j] = "active"]
  /\ GoTo(w, "submitted")
  /\ UNCHANGED << job, queue, leaked, credits, alarmed, faults >>

\* The submit ends before a generation started: a local failure, a definitive
\* rejection, or a throw, which callSubmit takes for an unknown outcome.
SubmitRejected(w) ==
  /\ At(w, "submit")
  /\ \E r \in {"retry", "failed", "orphaned"} : Conclude(w, r)
  /\ UNCHANGED << job, queue, provider, credits, alarmed, faults >>

\* The submit ends after one started.  An async kind gets its handle; a sync
\* kind gets the outcome.  Either may still throw.
SubmitReturns(w) ==
  LET j == run[w].job IN
  /\ At(w, "submitted")
  /\ IF IsSync(j)
       THEN /\ \E r \in {"succeeded", "failed", "blocked", "billed_block", "orphaned"} :
                 Conclude(w, r)
            /\ prov' = [prov EXCEPT ![j] = "stopped"]
       ELSE /\ \E r \in {"running", "orphaned"} : Conclude(w, r)
            /\ UNCHANGED prov
  /\ UNCHANGED << job, queue, gens, leaked, credits, alarmed, faults >>

\* poll: the generation still runs, or has ended one way or another, now or
\* before a poll whose answer was lost, or the poll itself failed for good or
\* for now.
Poll(w) ==
  LET j == run[w].job
      Ends == prov' = [prov EXCEPT ![j] = "stopped"]
  IN
  /\ At(w, "poll")
  /\ \/ /\ prov[j] = "active"
        /\ Conclude(w, "poll_again")
        /\ UNCHANGED prov
     \/ /\ \E r \in {"storing", "blocked", "billed_block"} : Conclude(w, r)
        /\ Ends
     \/ /\ \E r \in {"retry", "failed"} : Conclude(w, r)
        /\ UNCHANGED prov \/ Ends
  /\ UNCHANGED << job, queue, gens, leaked, credits, alarmed, faults >>

Store(w) ==
  /\ At(w, "store")
  /\ \E r \in {"succeeded", "failed", "retry"} : Conclude(w, r)
  /\ UNCHANGED << job, queue, provider, credits, alarmed, faults >>

\* bestEffortCancel: needs the provider's handle and a provider that has a
\* cancel.  A missing API key skips the call, and its failure is only logged.
StopProvider(w) ==
  LET j == run[w].job
      stops == run[w].doc.handle /\ job[j].kind = "async" /\ prov[j] = "active"
  IN
  /\ At(w, "stop")
  /\ GoTo(w, "commit")
  /\ \/ /\ prov' = IF stops THEN [prov EXCEPT ![j] = "stopped"] ELSE prov
        /\ UNCHANGED leaked
     \/ /\ stops
        /\ leaked' = [leaked EXCEPT ![j] = TRUE]
        /\ UNCHANGED prov
  /\ UNCHANGED << job, queue, gens, credits, alarmed, faults >>

-----------------------------------------------------------------------------
(* apply and commitStep, then what follows a commit that was accepted.      *)

FailedResults == {"orphaned", "failed", "exhausted", "timeout"}
BlockedResults == {"blocked", "billed_block"}
TerminalResults == FailedResults \cup BlockedResults \cup {"succeeded", "cancelled"}
TerminalOf(r) ==
  IF r \in FailedResults THEN "failed" ELSE IF r \in BlockedResults THEN "blocked" ELSE r

\* A retry from pending is a rejection that created nothing: submit again.
Resubmits(read, r) == r = "retry" /\ read.state = "pending"

StateAfter(d, read, r) ==
  IF r \in {"running", "storing"} THEN r
  ELSE IF r \in TerminalResults THEN TerminalOf(r)
  ELSE IF Resubmits(read, r) THEN "pending"
  ELSE d.state

AttemptsAfter(d, read, r) ==
  IF r \in {"running", "storing", "poll_again"} THEN 0
  ELSE IF r = "retry" THEN read.attempts + 1
  ELSE d.attempts

\* Mutant: storing, whose next message is sent at once, sets no next poll.
NextPollUnlessStoring(d, r) ==
  IF r \in {"running", "poll_again", "retry"} THEN "later"
  ELSE IF r \in TerminalResults \cup {"storing"} THEN "none"
  ELSE d.nextPoll
NextPollAfter(d, r) ==
  IF r \in {"running", "poll_again", "retry"} THEN "later"
  ELSE IF r = "storing" THEN "due"
  ELSE IF r \in TerminalResults THEN "none"
  ELSE d.nextPoll

\* The update a step commits: `read` is the job as leased, `d` as stored.
Applied(d, read, r) ==
  [d EXCEPT !.state = StateAfter(d, read, r),
            !.attempts = AttemptsAfter(d, read, r),
            !.nextPoll = NextPollAfter(d, r),
            !.submitAttempted = IF Resubmits(read, r) THEN FALSE ELSE @,
            !.handle = IF r = "running" THEN TRUE ELSE @,
            !.billedBlock = IF r = "billed_block" THEN TRUE ELSE @]

Commit(w) ==
  LET j == run[w].job
      r == run[w].result
      committed == Released(Applied(job[j], run[w].doc, r))
  IN
  /\ At(w, "commit")
  /\ IF LeaseGuard(job[j], w)
       THEN /\ Write(j, committed)
            /\ IF r = "release"
                 THEN End(w)
                 ELSE run' = [run EXCEPT
                        ![w] = [@ EXCEPT !.doc = committed, !.leased = FALSE,
                                         !.pc = IF r \in TerminalResults
                                                  THEN "claim" ELSE "send"]]
       ELSE End(w) /\ UNCHANGED job
  /\ UNCHANGED << queue, provider, credits, alarmed, faults >>

\* advance's enqueue; one that fails throws, and the message comes back.
Send(w) ==
  /\ At(w, "send")
  /\ Enqueue(run[w].job)
  /\ End(w)
  /\ UNCHANGED << job, provider, credits, alarmed, faults >>

SendFails(w) ==
  /\ At(w, "send")
  /\ Fault
  /\ MaybeEnqueue(run[w].job)
  /\ End(w)
  /\ UNCHANGED << job, provider, credits, alarmed >>

-----------------------------------------------------------------------------
(* finishTerminal, by a worker or by the request that failed its job.       *)

\* What follows handling: release the lease the step still holds, if any.
Leave(p) == IF run[p].leased THEN GoTo(p, "release") ELSE End(p)

\* Mutant: any claim that is already taken is reported stuck.
ClaimAlarmsAtOnce(p) ==
  LET j == run[p].job IN
  /\ At(p, "claim")
  /\ IF Claimable(job[j])
       THEN /\ Write(j, [job[j] EXCEPT !.claim = "fresh"])
            /\ GoTo(p, "settle")
            /\ UNCHANGED alarmed
       ELSE /\ alarmed' = [alarmed EXCEPT ![j] = TRUE]
            /\ Leave(p)
            /\ UNCHANGED job
  /\ UNCHANGED << queue, provider, credits, faults >>

Claim(p) ==
  LET j == run[p].job IN
  /\ At(p, "claim")
  /\ IF Claimable(job[j])
       THEN /\ Write(j, [job[j] EXCEPT !.claim = "fresh"])
            /\ GoTo(p, "settle")
            /\ UNCHANGED alarmed
       ELSE \* reportUnclaimable: the claim on the leased document, its age now
            /\ alarmed' = [alarmed EXCEPT
                 ![j] = @ \/ (run[p].doc.claim # "none" /\ job[j].claim = "old")]
            /\ Leave(p)
            /\ UNCHANGED job
  /\ UNCHANGED << queue, provider, credits, faults >>

\* onTerminal of both kinds charges a delivered output and a billed block.
Charged(d) == d.state = "succeeded" \/ (d.state = "blocked" /\ d.billedBlock)

\* Mutant: only a failed job gets its hold back.
SettleForgetsCancelled(p) ==
  LET j == run[p].job IN
  /\ At(p, "settle")
  /\ charges' = [charges EXCEPT ![j] = @ + IF Charged(run[p].doc) THEN 1 ELSE 0]
  /\ refunds' = [refunds EXCEPT ![j] = @ + IF run[p].doc.state = "failed" THEN 1 ELSE 0]
  /\ GoTo(p, "record")
  /\ UNCHANGED << job, queue, provider, alarmed, faults >>

Settle(p) ==
  LET j == run[p].job IN
  /\ At(p, "settle")
  /\ IF Charged(run[p].doc)
       THEN charges' = [charges EXCEPT ![j] = @ + 1] /\ UNCHANGED refunds
       ELSE refunds' = [refunds EXCEPT ![j] = @ + 1] /\ UNCHANGED charges
  /\ GoTo(p, "record")
  /\ UNCHANGED << job, queue, provider, alarmed, faults >>

RecordSettlement(p) ==
  LET j == run[p].job IN
  /\ At(p, "record")
  /\ Write(j, [job[j] EXCEPT !.settled = IF Charged(run[p].doc)
                                           THEN "charged" ELSE "zero"])
  /\ GoTo(p, "finish")
  /\ UNCHANGED << queue, provider, credits, alarmed, faults >>

MarkHandled(p) ==
  LET j == run[p].job IN
  /\ At(p, "finish")
  /\ Write(j, [job[j] EXCEPT !.handled = TRUE])
  /\ Leave(p)
  /\ UNCHANGED << queue, provider, credits, alarmed, faults >>

\* The empty commit that gives the lease back.
Release(w) ==
  LET j == run[w].job IN
  /\ At(w, "release")
  /\ IF LeaseGuard(job[j], w) THEN Write(j, Released(job[j])) ELSE UNCHANGED job
  /\ End(w)
  /\ UNCHANGED << queue, provider, credits, alarmed, faults >>

\* The process stops: a crash, a kill at the timeout, or an error thrown out
\* of step.  Its message was kept or not when it was delivered.
Crash(p) ==
  /\ ~At(p, "idle")
  /\ Fault
  /\ End(p)
  /\ UNCHANGED << job, queue, provider, credits, alarmed >>

-----------------------------------------------------------------------------
(* The other actors: the owner's cancel, the sweep, the queue and the clock. *)

\* requestCancel, and the send that hurries the job along, which may fail.
RequestCancel(j) ==
  /\ Cancellable(job[j], IsSync(j))
  /\ Write(j, [job[j] EXCEPT !.cancelRequested = TRUE])
  /\ MaybeEnqueue(j)
  /\ UNCHANGED << run, provider, credits, alarmed, faults >>

Sweep(j) ==
  /\ Stalled(job[j])
  /\ Enqueue(j)
  /\ UNCHANGED << job, run, provider, credits, alarmed, faults >>

\* A message is lost or, after too many receives, set aside in the DLQ.
LoseMessage(j) ==
  /\ queue[j] > 0
  /\ Fault
  /\ queue' = [queue EXCEPT ![j] = @ - 1]
  /\ UNCHANGED << job, run, provider, credits, alarmed >>

BecomesDue(j) ==
  /\ job[j].nextPoll = "later"
  /\ Write(j, [job[j] EXCEPT !.nextPoll = "due"])
  /\ UNCHANGED << queue, run, provider, credits, alarmed, faults >>

DeadlinePasses(j) ==
  /\ ~job[j].late
  /\ Write(j, [job[j] EXCEPT !.late = TRUE])
  /\ UNCHANGED << queue, run, provider, credits, alarmed, faults >>

\* With a hard kill the step that took a lease, and the run that took a
\* terminal claim, are over before the lease time has passed.
LeaseExpires(j) ==
  /\ job[j].lease # None /\ ~job[j].expired
  /\ HardKill => ~(run[job[j].lease].leased /\ run[job[j].lease].job = j)
  /\ Write(j, [job[j] EXCEPT !.expired = TRUE])
  /\ UNCHANGED << queue, run, provider, credits, alarmed, faults >>

Handling(p, j) == run[p].job = j /\ run[p].pc \in {"settle", "record", "finish"}

ClaimAges(j) ==
  /\ job[j].claim = "fresh"
  /\ HardKill => \A p \in Procs : ~Handling(p, j)
  /\ Write(j, [job[j] EXCEPT !.claim = "old"])
  /\ UNCHANGED << queue, run, provider, credits, alarmed, faults >>

-----------------------------------------------------------------------------
Create(j) == EnqueueFirst(j) \/ EnqueueFirstFails(j) \/ FailBeforeStart(j)

Work(w) ==
  \/ \E j \in Jobs : Acquire(w, j) \/ SkipDelivery(w, j)
  \/ Step(w) \/ CheckAccess(w) \/ MarkSubmit(w)
  \/ ProviderAccepts(w) \/ SubmitRejected(w) \/ SubmitReturns(w)
  \/ Poll(w) \/ Store(w) \/ StopProvider(w)
  \/ Commit(w) \/ Send(w) \/ SendFails(w) \/ Release(w)

Finish(p) == Claim(p) \/ Settle(p) \/ RecordSettlement(p) \/ MarkHandled(p)

Clock(j) == BecomesDue(j) \/ DeadlinePasses(j) \/ LeaseExpires(j) \/ ClaimAges(j)

Next ==
  \/ \E j \in Jobs : Create(j) \/ RequestCancel(j) \/ Sweep(j) \/ LoseMessage(j)
  \/ \E w \in Workers : Work(w)
  \/ \E p \in Procs : Finish(p) \/ Crash(p)
  \/ \E j \in Jobs : Clock(j)

Spec == Init /\ [][Next]_vars

\* What the deployment keeps doing: requests and invocations run on, the queue
\* delivers, time passes, and the sweep comes round.  Nobody has to cancel.
Fairness ==
  /\ \A j \in Jobs : WF_vars(Create(j)) /\ WF_vars(Sweep(j))
  /\ \A w \in Workers : WF_vars(Work(w))
  /\ \A p \in Procs : WF_vars(Finish(p))
  /\ \A j \in Jobs : /\ WF_vars(BecomesDue(j)) /\ WF_vars(DeadlinePasses(j))
                     /\ WF_vars(LeaseExpires(j)) /\ WF_vars(ClaimAges(j))

FairSpec == Spec /\ Fairness

-----------------------------------------------------------------------------
(* What the engine must keep.                                               *)

\* A worker between its lease and the commit that gives it up.
Holds(w, j) == run[w].job = j /\ run[w].leased

\* One worker at a time steps a job: a lease is granted only when the previous
\* holder has given it up or can no longer act (acquireLease, engine.ts:48-51).
OneHolder ==
  \A j \in Jobs : \A v, w \in Workers : Holds(v, j) /\ Holds(w, j) => v = w

\* However messages, crashes, cancels and retries fall, the provider is never
\* made to generate (and bill) twice for one job (callSubmit, engine.ts:207).
AtMostOneGeneration == \A j \in Jobs : gens[j] <= 1

\* The submit attempt is recorded before the provider is called, and the record
\* is only ever cleared when that call created nothing: a job that looks
\* unsubmitted, which a cancel, a retry or failBeforeStart may act on, is.
WriteAheadSubmit == \A j \in Jobs : gens[j] > 0 => job[j].submitAttempted

\* A cancel accepted for a sync job is a promise that nothing was or will be
\* billed: the cancel and the submit cannot both win (requestCancel with
\* beforeSubmitOnly against markSubmitAttempted).
CancelPromise ==
  \A j \in Jobs :
    IsSync(j) /\ job[j].cancelRequested => gens[j] = 0 /\ charges[j] = 0

\* The hold of a job moves at most once, by whichever run handles it, however
\* many steps, sweeps and requests reach its terminal handling.
SettledAtMostOnce == \A j \in Jobs : charges[j] + refunds[j] <= 1

\* A handled job was settled, in the way its final state calls for, and its
\* settledCredits say so: nothing later makes the refund or charge wrong.
HandledMatchesState ==
  \A j \in Jobs : job[j].handled =>
    LET paid == Charged(job[j]) IN
    /\ charges[j] = IF paid THEN 1 ELSE 0
    /\ refunds[j] = IF paid THEN 0 ELSE 1
    /\ job[j].settled = IF paid THEN "charged" ELSE "zero"

\* A job we refund does not keep generating at a provider that can be told to
\* stop, unless it was told and the call came to nothing (cancelIfRunning): no
\* way of giving a running job up skips the cancel.  Without a handle, or at a
\* provider without a cancel, there is nothing to call.
RefundedIsStopped ==
  \A j \in Jobs :
    refunds[j] > 0 /\ job[j].handle /\ job[j].kind = "async" /\ ~leaked[j]
      => prov[j] # "active"

\* No job in flight is out of the sweep's reach: findStalled only sees a job
\* whose nextPollAt is set, so every write must leave one on a live job.
NeverStranded ==
  \A j \in Jobs : job[j].state \in NonTerminal => job[j].nextPoll # "none"

\* The stuck alarm asks a person to settle the job by hand.  From then on the
\* engine leaves its hold and its records alone, so the two never both settle it:
\* no run still in its handling is taken for one that died (reportUnclaimable).
AlarmedIsLeft ==
  [][\A j \in Jobs : alarmed[j] =>
       /\ << charges'[j], refunds'[j] >> = << charges[j], refunds[j] >>
       /\ job'[j].settled = job[j].settled /\ job'[j].handled = job[j].handled]_vars

\* No step takes a job out of a terminal state, whose credits may have moved:
\* a worker that lost its lease cannot overwrite what its successor wrote.
TerminalIsFinal ==
  [][\A j \in Jobs : job[j].state \in Terminal => job'[j].state = job[j].state]_vars

\* The job of every request is brought to its end: settled and handled, or
\* alarmed because its settlement died half way, which is never retried.
EventuallyHandled == \A j \in Jobs : <>(job[j].handled \/ alarmed[j])

-----------------------------------------------------------------------------
\* Seen from outside, every behaviour of the engine is one of the contract's:
\* each step is one of its moves, an accepted cancel, a settlement, or nothing.
Contract == INSTANCE JobContract WITH
  sync <- {j \in Jobs : IsSync(j)},
  state <- [j \in Jobs |-> job[j].state],
  asked <- [j \in Jobs |-> job[j].cancelRequested]
KeepsContract == Contract!Spec
=============================================================================
