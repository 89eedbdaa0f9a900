------------------------ MODULE GenerationJobsProofs ------------------------
(***************************************************************************)
(* Proofs about the generation-job engine for every set of jobs and        *)
(* workers, every attempt limit and every bound.                           *)
(***************************************************************************)
EXTENDS GenerationJobs, TLAPS

-----------------------------------------------------------------------------
(* The repository's writes keep a document a document, and none of them      *)
(* takes back a terminal claim.                                              *)

LEMMA NewJobType == \A k \in JobKinds : NewJob(k) \in JobDoc
BY AttemptsAssumption DEF NewJob, JobDoc, States, NonTerminal

LEMMA LeasedType ==
  ASSUME NEW d \in JobDoc, NEW w \in Workers
  PROVE  Leased(d, w) \in JobDoc /\ Leased(d, w).claim = d.claim
BY DEF Leased, JobDoc

LEMMA ReleasedType ==
  ASSUME NEW d \in JobDoc
  PROVE  Released(d) \in JobDoc /\ Released(d).claim = d.claim
BY DEF Released, JobDoc

LEMMA SubmitMarkedType ==
  ASSUME NEW d \in JobDoc, NEW b \in BOOLEAN
  PROVE  SubmitMarked(d, b) \in JobDoc /\ SubmitMarked(d, b).claim = d.claim
BY DEF SubmitMarked, JobDoc, States, NonTerminal

LEMMA AppliedType ==
  ASSUME NEW d \in JobDoc, NEW read \in JobDoc, NEW r \in Results,
         r = "retry" => read.attempts + 1 < MaxStepAttempts
  PROVE  Applied(d, read, r) \in JobDoc /\ Applied(d, read, r).claim = d.claim
<1>1. StateAfter(d, read, r) \in States
  BY DEF StateAfter, TerminalOf, Resubmits, Results, JobDoc, States, Terminal, NonTerminal,
         TerminalResults, FailedResults, BlockedResults
<1>2. AttemptsAfter(d, read, r) \in 0 .. MaxStepAttempts - 1
  BY AttemptsAssumption DEF AttemptsAfter, JobDoc
<1>3. NextPollAfter(d, r) \in {"none", "later", "due"}
  BY DEF NextPollAfter, JobDoc
<1> DEFINE s == StateAfter(d, read, r)
           a == AttemptsAfter(d, read, r)
           n == NextPollAfter(d, r)
           x == IF Resubmits(read, r) THEN FALSE ELSE d.submitAttempted
           y == IF r = "running" THEN TRUE ELSE d.handle
           z == IF r = "billed_block" THEN TRUE ELSE d.billedBlock
<1>4. x \in BOOLEAN /\ y \in BOOLEAN /\ z \in BOOLEAN
  BY DEF JobDoc
<1>5. Applied(d, read, r) \in JobDoc
  <2>1. Applied(d, read, r) =
          [d EXCEPT !.state = s, !.attempts = a, !.nextPoll = n,
                    !.submitAttempted = x, !.handle = y, !.billedBlock = z]
    BY DEF Applied
  <2>2. s \in States /\ a \in 0 .. MaxStepAttempts - 1 /\ n \in {"none", "later", "due"}
    BY <1>1, <1>2, <1>3
  <2> HIDE DEF s, a, n, x, y, z
  <2> DEFINE d1 == [d EXCEPT !.state = s, !.attempts = a, !.nextPoll = n]
  <2>3. d1 \in JobDoc
    BY <2>2 DEF JobDoc
  <2>4. [d1 EXCEPT !.submitAttempted = x, !.handle = y, !.billedBlock = z] \in JobDoc
    <3> HIDE DEF d1
    <3> QED BY <1>4, <2>3 DEF JobDoc
  <2>5. QED BY <2>1, <2>4
<1>6. Applied(d, read, r).claim = d.claim
  BY DEF Applied, JobDoc
<1>7. QED BY <1>5, <1>6

-----------------------------------------------------------------------------
(* Type correctness.  TypeOK alone is not inductive: that a write concerns a *)
(* job, and that attempts stay below the limit, depends on where the process *)
(* that makes it is.                                                         *)

RequestPCs == {"idle", "enqueue", "unqueued", "claim", "settle", "record", "finish"}

\* A running process has a job; a request only creates and finishes its own,
\* without a lease; a retry that reaches commit has an attempt left.
ProcFine(p) ==
  /\ run[p].pc # "idle" => run[p].job \in Jobs
  /\ p \in Jobs => run[p].pc \in RequestPCs /\ ~run[p].leased
  /\ p \in Workers => run[p].pc \notin {"enqueue", "unqueued"}
  /\ run[p].pc \in {"stop", "commit"} /\ run[p].result = "retry" =>
       run[p].doc.attempts + 1 < MaxStepAttempts
ProcOK == \A p \in Procs : ProcFine(p)

TypeInv == TypeOK /\ ProcOK

LEMMA InitType == Init => TypeInv
<1> SUFFICES ASSUME Init PROVE TypeInv
  OBVIOUS
<1>1. \A p \in Procs : run[p] = IF p \in Jobs THEN Task("enqueue", p) ELSE Rest
  BY DEF Init
<1>2. run \in [Procs -> Run]
  <2>1. \A j \in Jobs \cup {None} : Task("enqueue", j) \in Run /\ Task("idle", j) \in Run
    BY NewJobType DEF Task, Run, PCs, Results, JobKinds
  <2>2. QED BY <2>1 DEF Init, Rest, Procs
<1>3. TypeOK
  <2>1. job \in [Jobs -> JobDoc]
    BY NewJobType, JobsAssumption DEF Init
  <2>2. queue \in [Jobs -> 0 .. MaxQueue] /\ faults \in 0 .. MaxFaults
    BY BoundsAssumption DEF Init
  <2>3. /\ prov \in [Jobs -> {"none", "active", "stopped"}]
        /\ gens \in [Jobs -> Nat] /\ charges \in [Jobs -> Nat] /\ refunds \in [Jobs -> Nat]
        /\ alarmed \in [Jobs -> BOOLEAN] /\ leaked \in [Jobs -> BOOLEAN]
    BY DEF Init
  <2>4. QED BY <1>2, <2>1, <2>2, <2>3 DEF TypeOK
<1>4. ProcOK
  <2>1. ASSUME NEW j \in Jobs
        PROVE  run[j].pc = "enqueue" /\ run[j].job = j /\ run[j].leased = FALSE
    <3>1. run[j] = Task("enqueue", j)
      BY <1>1 DEF Procs
    <3>2. QED BY <3>1 DEF Task
  <2>2. ASSUME NEW w \in Workers PROVE run[w].pc = "idle"
    <3>1. run[w] = Rest
      BY <1>1, JobsAssumption DEF Procs
    <3>2. QED BY <3>1 DEF Rest, Task
  <2>3. QED BY <2>1, <2>2, JobsAssumption DEF ProcOK, ProcFine, Procs, RequestPCs
<1>5. QED BY <1>3, <1>4 DEF TypeInv

\* The three ways a process's own state changes, field by field.
LEMMA GoToFields ==
  ASSUME TypeOK, NEW p \in Procs, NEW l \in PCs, GoTo(p, l)
  PROVE  /\ run' \in [Procs -> Run]
         /\ run'[p].pc = l
         /\ run'[p].job = run[p].job
         /\ run'[p].doc = run[p].doc
         /\ run'[p].result = run[p].result
         /\ run'[p].leased = run[p].leased
         /\ \A q \in Procs : q # p => run'[q] = run[q]
BY DEF TypeOK, GoTo, Run

LEMMA EndFields ==
  ASSUME TypeOK, NEW p \in Procs, End(p)
  PROVE  /\ run' \in [Procs -> Run]
         /\ run'[p].pc = "idle"
         /\ run'[p].leased = FALSE
         /\ \A q \in Procs : q # p => run'[q] = run[q]
<1>1. Rest \in Run
  BY NewJobType DEF Rest, Task, Run, PCs, Results, JobKinds
<1>2. run' \in [Procs -> Run] /\ run'[p] = Rest /\ \A q \in Procs : q # p => run'[q] = run[q]
  BY <1>1 DEF TypeOK, End
<1>3. QED BY <1>2 DEF Rest, Task

LEMMA ConcludeFields ==
  ASSUME TypeOK, NEW p \in Procs, NEW r \in Results, Conclude(p, r)
  PROVE  /\ run' \in [Procs -> Run]
         /\ run'[p].pc \in {"stop", "commit"}
         /\ run'[p].job = run[p].job
         /\ run'[p].doc = run[p].doc
         /\ run'[p].result = "retry" => run[p].doc.attempts + 1 < MaxStepAttempts
         /\ run'[p].leased = run[p].leased
         /\ \A q \in Procs : q # p => run'[q] = run[q]
<1> DEFINE d == run[p].doc
           outcome == IF r = "retry" /\ d.attempts + 1 >= MaxStepAttempts
                        THEN "exhausted" ELSE r
           l == IF d.state = "running" /\ outcome \in StopsProvider THEN "stop" ELSE "commit"
<1>1. outcome \in Results /\ l \in PCs /\ l \in {"stop", "commit"}
  BY DEF Results, PCs
<1>2. outcome = "retry" => d.attempts + 1 < MaxStepAttempts
  BY AttemptsAssumption DEF TypeOK, Run, JobDoc
<1>3. run' = [run EXCEPT ![p].result = outcome, ![p].pc = l]
  BY DEF Conclude
<1> HIDE DEF outcome, l
<1>4. QED BY <1>1, <1>2, <1>3 DEF TypeOK, Run

LEMMA OneProc ==
  ASSUME ProcOK, NEW p \in Procs, \A q \in Procs : q # p => run'[q] = run[q], ProcFine(p)'
  PROVE  ProcOK'
BY DEF ProcOK, ProcFine

\* A process that ends, or goes on to where its kind may be, stays fine.
LEMMA EndFine ==
  ASSUME TypeInv, NEW p \in Procs, End(p)
  PROVE  run' \in [Procs -> Run] /\ ProcOK'
BY EndFields, OneProc DEF TypeInv, ProcFine, RequestPCs

LEMMA GoToFine ==
  ASSUME TypeInv, NEW p \in Procs, NEW l \in PCs \ {"stop", "commit", "enqueue"}, GoTo(p, l),
         ~At(p, "idle"), p \in Jobs => l \in RequestPCs, p \in Workers => l # "unqueued"
  PROVE  run' \in [Procs -> Run] /\ ProcOK'
BY GoToFields, OneProc DEF TypeInv, ProcOK, ProcFine, At

LEMMA ConcludeFine ==
  ASSUME TypeInv, NEW w \in Workers, NEW r \in Results, Conclude(w, r), ~At(w, "idle")
  PROVE  run' \in [Procs -> Run] /\ ProcOK'
<1>1. w \in Procs /\ w \notin Jobs
  BY JobsAssumption DEF Procs
<1>2. QED BY <1>1, ConcludeFields, OneProc DEF TypeInv, ProcOK, ProcFine, At

LEMMA LeaveFine ==
  ASSUME TypeInv, NEW p \in Procs, Leave(p), ~At(p, "idle")
  PROVE  run' \in [Procs -> Run] /\ ProcOK'
<1>1. CASE run[p].leased
  <2>1. GoTo(p, "release") /\ p \notin Jobs
    BY <1>1 DEF Leave, TypeInv, ProcOK, ProcFine
  <2>2. QED BY <2>1, GoToFine DEF PCs
<1>2. CASE ~run[p].leased
  BY <1>2, EndFine DEF Leave
<1>3. QED BY <1>1, <1>2

LEMMA EnqueueType ==
  ASSUME TypeOK, NEW j \in Jobs, MaybeEnqueue(j)
  PROVE  queue' \in [Jobs -> 0 .. MaxQueue]
BY BoundsAssumption DEF TypeOK, MaybeEnqueue, Enqueue, OneMore

LEMMA WriteType ==
  ASSUME TypeOK, NEW j \in Jobs, NEW d \in JobDoc, Write(j, d)
  PROVE  job' \in [Jobs -> JobDoc]
BY DEF TypeOK, Write

LEMMA GoToDocFields ==
  ASSUME TypeOK, NEW p \in Procs, NEW l \in PCs, NEW d \in JobDoc,
         run' = [run EXCEPT ![p].pc = l, ![p].doc = d]
  PROVE  /\ run' \in [Procs -> Run]
         /\ run'[p].pc = l
         /\ run'[p].job = run[p].job
         /\ run'[p].leased = run[p].leased
         /\ \A q \in Procs : q # p => run'[q] = run[q]
BY DEF TypeOK, Run

LEMMA FieldType ==
  ASSUME NEW d \in JobDoc, NEW v \in {"none", "zero", "charged"}
  PROVE  /\ [d EXCEPT !.cancelRequested = TRUE] \in JobDoc
         /\ [d EXCEPT !.state = "failed", !.nextPoll = "none"] \in JobDoc
         /\ [d EXCEPT !.late = TRUE] \in JobDoc
         /\ [d EXCEPT !.expired = TRUE] \in JobDoc
         /\ [d EXCEPT !.nextPoll = "due"] \in JobDoc
         /\ [d EXCEPT !.claim = "fresh"] \in JobDoc
         /\ [d EXCEPT !.claim = "old"] \in JobDoc
         /\ [d EXCEPT !.settled = v] \in JobDoc
         /\ [d EXCEPT !.handled = TRUE] \in JobDoc
<1>1. /\ [d EXCEPT !.cancelRequested = TRUE] \in JobDoc
      /\ [d EXCEPT !.state = "failed", !.nextPoll = "none"] \in JobDoc
      /\ [d EXCEPT !.late = TRUE] \in JobDoc
      /\ [d EXCEPT !.expired = TRUE] \in JobDoc
  BY DEF JobDoc, States, Terminal
<1>2. /\ [d EXCEPT !.nextPoll = "due"] \in JobDoc
      /\ [d EXCEPT !.claim = "fresh"] \in JobDoc
      /\ [d EXCEPT !.claim = "old"] \in JobDoc
  BY DEF JobDoc
<1>3. [d EXCEPT !.settled = v] \in JobDoc /\ [d EXCEPT !.handled = TRUE] \in JobDoc
  BY DEF JobDoc
<1>4. QED BY <1>1, <1>2, <1>3

LEMMA FaultType ==
  ASSUME TypeOK, Fault
  PROVE  faults' \in 0 .. MaxFaults
BY BoundsAssumption DEF TypeOK, Fault

-----------------------------------------------------------------------------
(* One lemma per action: it keeps TypeInv.                                   *)

LEMMA EnqueueFirstType ==
  ASSUME TypeInv, NEW j \in Jobs, EnqueueFirst(j)
  PROVE  TypeInv'
<1>1. run' \in [Procs -> Run] /\ ProcOK'
  BY EndFine DEF EnqueueFirst, Procs, At, PCs, RequestPCs, Results
<1>2. queue' \in [Jobs -> 0 .. MaxQueue]
  BY EnqueueType DEF EnqueueFirst, MaybeEnqueue, TypeInv
<1>3. QED BY <1>1, <1>2 DEF EnqueueFirst, TypeInv, TypeOK, provider, credits

LEMMA EnqueueFirstFailsType ==
  ASSUME TypeInv, NEW j \in Jobs, EnqueueFirstFails(j)
  PROVE  TypeInv'
<1>1. run' \in [Procs -> Run] /\ ProcOK'
  BY GoToFine, JobsAssumption DEF EnqueueFirstFails, Procs, At, PCs, RequestPCs, Results
<1>2. queue' \in [Jobs -> 0 .. MaxQueue]
  BY EnqueueType DEF EnqueueFirstFails, MaybeEnqueue, TypeInv
<1>3. faults' \in 0 .. MaxFaults
  BY FaultType DEF EnqueueFirstFails, TypeInv
<1>4. QED BY <1>1, <1>2, <1>3 DEF EnqueueFirstFails, TypeInv, TypeOK, provider, credits

LEMMA FailBeforeStartType ==
  ASSUME TypeInv, NEW j \in Jobs, FailBeforeStart(j)
  PROVE  TypeInv'
<1> DEFINE failed == [Released(job[j]) EXCEPT !.state = "failed", !.nextPoll = "none"]
<1>1. failed \in JobDoc
  BY ReleasedType, FieldType DEF TypeInv, TypeOK
<1>2. CASE UnstartedGuard(job[j])
  <2>1. job' \in [Jobs -> JobDoc]
    BY <1>1, <1>2, WriteType DEF FailBeforeStart, TypeInv
  <2>2. run' = [run EXCEPT ![j].pc = "claim", ![j].doc = failed]
    BY <1>2 DEF FailBeforeStart
  <2> HIDE DEF failed
  <2>3. /\ run' \in [Procs -> Run] /\ run'[j].pc = "claim"
        /\ run'[j].job = run[j].job /\ run'[j].leased = run[j].leased
        /\ \A q \in Procs : q # j => run'[q] = run[q]
    BY <1>1, <2>2, GoToDocFields DEF TypeInv, Procs, PCs
  <2>4. ProcOK'
    BY <2>3, OneProc, JobsAssumption
    DEF FailBeforeStart, At, TypeInv, ProcOK, ProcFine, Procs, RequestPCs
  <2>5. QED BY <2>1, <2>3, <2>4 DEF FailBeforeStart, TypeInv, TypeOK, provider, credits
<1>3. CASE ~UnstartedGuard(job[j])
  <2>1. run' \in [Procs -> Run] /\ ProcOK'
    BY <1>3, EndFine DEF FailBeforeStart, Procs
  <2>2. QED BY <1>3, <2>1 DEF FailBeforeStart, TypeInv, TypeOK, provider, credits
<1>4. QED BY <1>2, <1>3

LEMMA AcquireType ==
  ASSUME TypeInv, NEW w \in Workers, NEW j \in Jobs, Acquire(w, j)
  PROVE  TypeInv'
<1> DEFINE d == Leased(job[j], w)
<1>1. d \in JobDoc
  BY LeasedType DEF TypeInv, TypeOK
<1>2. run' = [run EXCEPT ![w] = [pc |-> "step", job |-> j, doc |-> d,
                                 result |-> "release", leased |-> TRUE]]
  BY DEF Acquire
<1>3. job' \in [Jobs -> JobDoc]
  BY <1>1, WriteType DEF Acquire, TypeInv
<1>4. queue' \in [Jobs -> 0 .. MaxQueue]
  BY BoundsAssumption DEF Acquire, Delivered, TypeInv, TypeOK
<1> HIDE DEF d
<1>5. [pc |-> "step", job |-> j, doc |-> d, result |-> "release", leased |-> TRUE] \in Run
  BY <1>1 DEF Run, PCs, Results
<1>6. run' \in [Procs -> Run] /\ run'[w].pc = "step" /\ run'[w].job = j
      /\ \A q \in Procs : q # w => run'[q] = run[q]
  BY <1>2, <1>5 DEF TypeInv, TypeOK, Procs
<1>7. ProcOK'
  BY <1>6, OneProc, JobsAssumption DEF TypeInv, ProcFine, Procs
<1>8. QED BY <1>3, <1>4, <1>6, <1>7 DEF Acquire, TypeInv, TypeOK, provider, credits

LEMMA SkipDeliveryType ==
  ASSUME TypeInv, NEW w \in Workers, NEW j \in Jobs, SkipDelivery(w, j)
  PROVE  TypeInv'
<1>1. queue' \in [Jobs -> 0 .. MaxQueue]
  BY BoundsAssumption DEF SkipDelivery, Delivered, TypeInv, TypeOK
<1>2. ProcOK'
  BY DEF SkipDelivery, TypeInv, ProcOK, ProcFine
<1>3. QED BY <1>1, <1>2 DEF SkipDelivery, TypeInv, TypeOK, provider, credits

LEMMA StepType ==
  ASSUME TypeInv, NEW w \in Workers, Step(w)
  PROVE  TypeInv'
<1>1. run' \in [Procs -> Run] /\ ProcOK'
  BY GoToFine, ConcludeFine, JobsAssumption DEF Step, Procs, At, PCs, RequestPCs, Results
<1>2. QED BY <1>1 DEF Step, TypeInv, TypeOK, provider, credits

LEMMA CheckAccessType ==
  ASSUME TypeInv, NEW w \in Workers, CheckAccess(w)
  PROVE  TypeInv'
<1>1. run' \in [Procs -> Run] /\ ProcOK'
  BY GoToFine, ConcludeFine, JobsAssumption DEF CheckAccess, Procs, At, PCs, RequestPCs, Results
<1>2. QED BY <1>1 DEF CheckAccess, TypeInv, TypeOK, provider, credits

LEMMA MarkSubmitType ==
  ASSUME TypeInv, NEW w \in Workers, MarkSubmit(w)
  PROVE  TypeInv'
<1>1. run' \in [Procs -> Run] /\ ProcOK'
  BY GoToFine, ConcludeFine, JobsAssumption DEF MarkSubmit, Procs, At, PCs, RequestPCs, Results
<1>2. run[w].job \in Jobs
  BY DEF MarkSubmit, At, TypeInv, ProcOK, ProcFine, Procs
<1>3. SubmitMarked(job[run[w].job], IsSync(run[w].job)) \in JobDoc
  <2>1. IsSync(run[w].job) \in BOOLEAN
    BY DEF IsSync
  <2>2. QED BY <1>2, <2>1, SubmitMarkedType DEF TypeInv, TypeOK
<1>4. job' \in [Jobs -> JobDoc]
  BY <1>2, <1>3, WriteType DEF MarkSubmit, TypeInv, TypeOK
<1>5. QED BY <1>1, <1>2, <1>3, <1>4 DEF MarkSubmit, TypeInv, TypeOK, provider, credits

LEMMA ProviderAcceptsType ==
  ASSUME TypeInv, NEW w \in Workers, ProviderAccepts(w)
  PROVE  TypeInv'
<1>1. run' \in [Procs -> Run] /\ ProcOK'
  BY GoToFine, JobsAssumption DEF ProviderAccepts, Procs, At, PCs, RequestPCs, Results
<1>2. run[w].job \in Jobs
  BY DEF ProviderAccepts, At, TypeInv, ProcOK, ProcFine, Procs
<1>3. gens' \in [Jobs -> Nat] /\ prov' \in [Jobs -> {"none", "active", "stopped"}]
  BY <1>2 DEF ProviderAccepts, TypeInv, TypeOK
<1>4. QED BY <1>1, <1>2, <1>3 DEF ProviderAccepts, TypeInv, TypeOK, provider, credits

LEMMA SubmitRejectedType ==
  ASSUME TypeInv, NEW w \in Workers, SubmitRejected(w)
  PROVE  TypeInv'
<1>1. run' \in [Procs -> Run] /\ ProcOK'
  BY ConcludeFine DEF SubmitRejected, Procs, At, PCs, RequestPCs, Results
<1>2. QED BY <1>1 DEF SubmitRejected, TypeInv, TypeOK, provider, credits

LEMMA SubmitReturnsType ==
  ASSUME TypeInv, NEW w \in Workers, SubmitReturns(w)
  PROVE  TypeInv'
<1>1. run' \in [Procs -> Run] /\ ProcOK'
  BY ConcludeFine DEF SubmitReturns, Procs, At, PCs, RequestPCs, Results
<1>2. QED BY <1>1 DEF SubmitReturns, TypeInv, TypeOK, provider, credits

LEMMA PollType ==
  ASSUME TypeInv, NEW w \in Workers, Poll(w)
  PROVE  TypeInv'
<1>1. run' \in [Procs -> Run] /\ ProcOK'
  BY ConcludeFine DEF Poll, Procs, At, PCs, RequestPCs, Results
<1>2. QED BY <1>1 DEF Poll, TypeInv, TypeOK, provider, credits

LEMMA StoreType ==
  ASSUME TypeInv, NEW w \in Workers, Store(w)
  PROVE  TypeInv'
<1>1. run' \in [Procs -> Run] /\ ProcOK'
  BY ConcludeFine DEF Store, Procs, At, PCs, RequestPCs, Results
<1>2. QED BY <1>1 DEF Store, TypeInv, TypeOK, provider, credits

LEMMA StopProviderType ==
  ASSUME TypeInv, NEW w \in Workers, StopProvider(w)
  PROVE  TypeInv'
<1>1. /\ run' \in [Procs -> Run] /\ run'[w].pc = "commit" /\ run'[w].job = run[w].job
      /\ run'[w].doc = run[w].doc /\ run'[w].result = run[w].result
      /\ \A q \in Procs : q # w => run'[q] = run[q]
  BY GoToFields DEF StopProvider, TypeInv, Procs, PCs
<1>2. ProcOK'
  BY <1>1, OneProc, JobsAssumption DEF StopProvider, At, TypeInv, ProcOK, ProcFine, Procs
<1>3. prov' \in [Jobs -> {"none", "active", "stopped"}] /\ leaked' \in [Jobs -> BOOLEAN]
  BY DEF StopProvider, TypeInv, TypeOK
<1>4. QED BY <1>1, <1>2, <1>3 DEF StopProvider, TypeInv, TypeOK, credits

LEMMA CommitType ==
  ASSUME TypeInv, NEW w \in Workers, Commit(w)
  PROVE  TypeInv'
<1> DEFINE j == run[w].job
           r == run[w].result
           d == Released(Applied(job[j], run[w].doc, r))
           l == IF r \in TerminalResults THEN "claim" ELSE "send"
<1>1. j \in Jobs /\ w \in Procs /\ w \notin Jobs
  BY JobsAssumption DEF Commit, At, TypeInv, ProcOK, ProcFine, Procs
<1>2. d \in JobDoc
  BY <1>1, AppliedType, ReleasedType
  DEF Commit, At, TypeInv, TypeOK, Run, ProcOK, ProcFine
<1>3. CASE LeaseGuard(job[j], w)
  <2>1. job' \in [Jobs -> JobDoc]
    BY <1>1, <1>2, <1>3, WriteType DEF Commit, TypeInv
  <2>2. run' \in [Procs -> Run] /\ ProcOK'
    <3>1. CASE r = "release"
      BY <1>1, <1>3, <3>1, EndFine DEF Commit
    <3>2. CASE r # "release"
      <4>1. run' = [run EXCEPT ![w] = [@ EXCEPT !.doc = d, !.leased = FALSE, !.pc = l]]
        BY <1>3, <3>2 DEF Commit
      <4>2. l \in {"claim", "send"} /\ l \in PCs
        BY DEF PCs
      <4> HIDE DEF d, l
      <4>3. /\ run' \in [Procs -> Run] /\ run'[w].pc = l /\ run'[w].job = run[w].job
            /\ \A q \in Procs : q # w => run'[q] = run[q]
        BY <1>1, <1>2, <4>1, <4>2 DEF TypeInv, TypeOK, Run
      <4>4. QED BY <1>1, <4>2, <4>3, OneProc DEF TypeInv, ProcFine
    <3>3. QED BY <3>1, <3>2
  <2>3. QED BY <2>1, <2>2 DEF Commit, TypeInv, TypeOK, provider, credits
<1>4. CASE ~LeaseGuard(job[j], w)
  <2>1. run' \in [Procs -> Run] /\ ProcOK'
    BY <1>1, <1>4, EndFine DEF Commit
  <2>2. QED BY <1>4, <2>1 DEF Commit, TypeInv, TypeOK, provider, credits
<1>5. QED BY <1>3, <1>4

LEMMA SendType ==
  ASSUME TypeInv, NEW w \in Workers, Send(w)
  PROVE  TypeInv'
<1>1. run' \in [Procs -> Run] /\ ProcOK'
  BY EndFine DEF Send, Procs, At, PCs, RequestPCs, Results
<1>2. run[w].job \in Jobs
  BY DEF Send, At, TypeInv, ProcOK, ProcFine, Procs
<1>3. queue' \in [Jobs -> 0 .. MaxQueue]
  BY <1>2, EnqueueType DEF Send, MaybeEnqueue, TypeInv
<1>4. QED BY <1>1, <1>2, <1>3 DEF Send, TypeInv, TypeOK, provider, credits

LEMMA SendFailsType ==
  ASSUME TypeInv, NEW w \in Workers, SendFails(w)
  PROVE  TypeInv'
<1>1. run' \in [Procs -> Run] /\ ProcOK'
  BY EndFine DEF SendFails, Procs, At, PCs, RequestPCs, Results
<1>2. faults' \in 0 .. MaxFaults
  BY FaultType DEF SendFails, TypeInv
<1>3. run[w].job \in Jobs
  BY DEF SendFails, At, TypeInv, ProcOK, ProcFine, Procs
<1>4. queue' \in [Jobs -> 0 .. MaxQueue]
  BY <1>3, EnqueueType DEF SendFails, MaybeEnqueue, TypeInv
<1>5. QED BY <1>1, <1>2, <1>3, <1>4 DEF SendFails, TypeInv, TypeOK, provider, credits

LEMMA ReleaseType ==
  ASSUME TypeInv, NEW w \in Workers, Release(w)
  PROVE  TypeInv'
<1>1. run' \in [Procs -> Run] /\ ProcOK'
  BY EndFine DEF Release, Procs, At, PCs, RequestPCs, Results
<1>2. run[w].job \in Jobs
  BY DEF Release, At, TypeInv, ProcOK, ProcFine, Procs
<1>3. job' \in [Jobs -> JobDoc]
  BY <1>2, ReleasedType, WriteType DEF Release, TypeInv, TypeOK
<1>4. QED BY <1>1, <1>2, <1>3 DEF Release, TypeInv, TypeOK, provider, credits

LEMMA ClaimType ==
  ASSUME TypeInv, NEW p \in Procs, Claim(p)
  PROVE  TypeInv'
<1>1. run' \in [Procs -> Run] /\ ProcOK'
  BY GoToFine, LeaveFine DEF Claim, At, PCs, RequestPCs
<1>2. run[p].job \in Jobs
  BY DEF Claim, At, TypeInv, ProcOK, ProcFine, Procs
<1>3. [job[run[p].job] EXCEPT !.claim = "fresh"] \in JobDoc
  BY <1>2, FieldType DEF TypeInv, TypeOK
<1>4. job' \in [Jobs -> JobDoc]
  BY <1>2, <1>3, WriteType DEF Claim, TypeInv, TypeOK
<1>5. alarmed' \in [Jobs -> BOOLEAN]
  BY DEF Claim, TypeInv, TypeOK
<1>6. QED BY <1>1, <1>4, <1>5 DEF Claim, TypeInv, TypeOK, provider, credits

LEMMA SettleType ==
  ASSUME TypeInv, NEW p \in Procs, Settle(p)
  PROVE  TypeInv'
<1>1. run' \in [Procs -> Run] /\ ProcOK'
  BY GoToFine DEF Settle, Procs, At, PCs, RequestPCs, Results
<1>2. QED BY <1>1 DEF Settle, TypeInv, TypeOK, provider, credits

LEMMA RecordSettlementType ==
  ASSUME TypeInv, NEW p \in Procs, RecordSettlement(p)
  PROVE  TypeInv'
<1> DEFINE v == IF Charged(run[p].doc) THEN "charged" ELSE "zero"
<1>1. run' \in [Procs -> Run] /\ ProcOK'
  BY GoToFine DEF RecordSettlement, At, PCs, RequestPCs
<1>2. run[p].job \in Jobs /\ v \in {"none", "zero", "charged"}
  BY DEF RecordSettlement, At, TypeInv, ProcOK, ProcFine
<1>3. Write(run[p].job, [job[run[p].job] EXCEPT !.settled = v])
  BY DEF RecordSettlement
<1> HIDE DEF v
<1>4. [job[run[p].job] EXCEPT !.settled = v] \in JobDoc
  BY <1>2, FieldType DEF TypeInv, TypeOK
<1>5. job' \in [Jobs -> JobDoc]
  BY <1>2, <1>3, <1>4, WriteType DEF TypeInv
<1>6. QED BY <1>1, <1>5 DEF RecordSettlement, TypeInv, TypeOK, provider, credits

LEMMA MarkHandledType ==
  ASSUME TypeInv, NEW p \in Procs, MarkHandled(p)
  PROVE  TypeInv'
<1>1. run' \in [Procs -> Run] /\ ProcOK'
  BY LeaveFine DEF MarkHandled, At
<1>2. run[p].job \in Jobs
  BY DEF MarkHandled, At, TypeInv, ProcOK, ProcFine, Procs
<1>3. [job[run[p].job] EXCEPT !.handled = TRUE] \in JobDoc
  BY <1>2, FieldType DEF TypeInv, TypeOK
<1>4. job' \in [Jobs -> JobDoc]
  BY <1>2, <1>3, WriteType DEF MarkHandled, TypeInv, TypeOK
<1>5. QED BY <1>1, <1>4 DEF MarkHandled, TypeInv, TypeOK, provider, credits

LEMMA CrashType ==
  ASSUME TypeInv, NEW p \in Procs, Crash(p)
  PROVE  TypeInv'
<1>1. run' \in [Procs -> Run] /\ ProcOK'
  BY EndFine DEF Crash, Procs, At, PCs, RequestPCs, Results
<1>2. faults' \in 0 .. MaxFaults
  BY FaultType DEF Crash, TypeInv
<1>3. QED BY <1>1, <1>2 DEF Crash, TypeInv, TypeOK, provider, credits

LEMMA RequestCancelType ==
  ASSUME TypeInv, NEW j \in Jobs, RequestCancel(j)
  PROVE  TypeInv'
<1>1. [job[j] EXCEPT !.cancelRequested = TRUE] \in JobDoc
  BY FieldType DEF TypeInv, TypeOK
<1>2. job' \in [Jobs -> JobDoc]
  BY <1>1, WriteType DEF RequestCancel, TypeInv
<1>3. ProcOK'
  BY DEF RequestCancel, TypeInv, ProcOK, ProcFine
<1>4. queue' \in [Jobs -> 0 .. MaxQueue]
  BY EnqueueType DEF RequestCancel, TypeInv
<1>5. QED BY <1>2, <1>3, <1>4 DEF RequestCancel, TypeInv, TypeOK, provider, credits

LEMMA SweepType ==
  ASSUME TypeInv, NEW j \in Jobs, Sweep(j)
  PROVE  TypeInv'
<1>1. queue' \in [Jobs -> 0 .. MaxQueue]
  BY EnqueueType DEF Sweep, MaybeEnqueue, TypeInv
<1>2. ProcOK'
  BY DEF Sweep, TypeInv, ProcOK, ProcFine
<1>3. QED BY <1>1, <1>2 DEF Sweep, TypeInv, TypeOK, provider, credits

LEMMA LoseMessageType ==
  ASSUME TypeInv, NEW j \in Jobs, LoseMessage(j)
  PROVE  TypeInv'
<1>1. queue' \in [Jobs -> 0 .. MaxQueue] /\ faults' \in 0 .. MaxFaults
  BY BoundsAssumption, FaultType DEF LoseMessage, TypeInv, TypeOK
<1>2. ProcOK'
  BY DEF LoseMessage, TypeInv, ProcOK, ProcFine
<1>3. QED BY <1>1, <1>2 DEF LoseMessage, TypeInv, TypeOK, provider, credits

LEMMA BecomesDueType ==
  ASSUME TypeInv, NEW j \in Jobs, BecomesDue(j)
  PROVE  TypeInv'
<1>1. [job[j] EXCEPT !.nextPoll = "due"] \in JobDoc
  BY FieldType DEF TypeInv, TypeOK
<1>2. job' \in [Jobs -> JobDoc]
  BY <1>1, WriteType DEF BecomesDue, TypeInv
<1>3. ProcOK'
  BY DEF BecomesDue, TypeInv, ProcOK, ProcFine
<1>4. QED BY <1>2, <1>3 DEF BecomesDue, TypeInv, TypeOK, provider, credits

LEMMA DeadlinePassesType ==
  ASSUME TypeInv, NEW j \in Jobs, DeadlinePasses(j)
  PROVE  TypeInv'
<1>1. [job[j] EXCEPT !.late = TRUE] \in JobDoc
  BY FieldType DEF TypeInv, TypeOK
<1>2. job' \in [Jobs -> JobDoc]
  BY <1>1, WriteType DEF DeadlinePasses, TypeInv
<1>3. ProcOK'
  BY DEF DeadlinePasses, TypeInv, ProcOK, ProcFine
<1>4. QED BY <1>2, <1>3 DEF DeadlinePasses, TypeInv, TypeOK, provider, credits

LEMMA LeaseExpiresType ==
  ASSUME TypeInv, NEW j \in Jobs, LeaseExpires(j)
  PROVE  TypeInv'
<1>1. [job[j] EXCEPT !.expired = TRUE] \in JobDoc
  BY FieldType DEF TypeInv, TypeOK
<1>2. job' \in [Jobs -> JobDoc]
  BY <1>1, WriteType DEF LeaseExpires, TypeInv
<1>3. ProcOK'
  BY DEF LeaseExpires, TypeInv, ProcOK, ProcFine
<1>4. QED BY <1>2, <1>3 DEF LeaseExpires, TypeInv, TypeOK, provider, credits

LEMMA ClaimAgesType ==
  ASSUME TypeInv, NEW j \in Jobs, ClaimAges(j)
  PROVE  TypeInv'
<1>1. [job[j] EXCEPT !.claim = "old"] \in JobDoc
  BY FieldType DEF TypeInv, TypeOK
<1>2. job' \in [Jobs -> JobDoc]
  BY <1>1, WriteType DEF ClaimAges, TypeInv
<1>3. ProcOK'
  BY DEF ClaimAges, TypeInv, ProcOK, ProcFine
<1>4. QED BY <1>2, <1>3 DEF ClaimAges, TypeInv, TypeOK, provider, credits

LEMMA TypeStep == TypeInv /\ [Next]_vars => TypeInv'
<1> SUFFICES ASSUME TypeInv, [Next]_vars PROVE TypeInv'
  OBVIOUS
<1>1. CASE UNCHANGED vars
  BY <1>1 DEF vars, TypeInv, TypeOK, ProcOK, ProcFine
<1>2. CASE Next
  <2>1. ASSUME NEW j \in Jobs, Create(j) \/ RequestCancel(j) \/ Sweep(j) \/ LoseMessage(j)
        PROVE  TypeInv'
    BY <2>1, EnqueueFirstType, EnqueueFirstFailsType, FailBeforeStartType,
       RequestCancelType, SweepType, LoseMessageType DEF Create
  <2>2. ASSUME NEW w \in Workers, Work(w) PROVE TypeInv'
    BY <2>2, AcquireType, SkipDeliveryType, StepType, CheckAccessType, MarkSubmitType,
       ProviderAcceptsType, SubmitRejectedType, SubmitReturnsType, PollType, StoreType,
       StopProviderType, CommitType, SendType, SendFailsType, ReleaseType DEF Work
  <2>3. ASSUME NEW p \in Procs, Finish(p) \/ Crash(p) PROVE TypeInv'
    BY <2>3, ClaimType, SettleType, RecordSettlementType, MarkHandledType, CrashType
    DEF Finish
  <2>4. ASSUME NEW j \in Jobs, Clock(j) PROVE TypeInv'
    BY <2>4, BecomesDueType, DeadlinePassesType, LeaseExpiresType, ClaimAgesType DEF Clock
  <2>5. QED BY <1>2, <2>1, <2>2, <2>3, <2>4 DEF Next
<1>3. QED BY <1>1, <1>2

\* Every variable keeps its type: attempts stay below the limit, the queue
\* within its bound, and every document a state the code declares.
THEOREM TypeCorrect == Spec => []TypeOK
<1>1. Spec => []TypeInv
  BY InitType, TypeStep, PTL DEF Spec
<1>2. TypeInv => TypeOK
  BY DEF TypeInv
<1>3. QED BY <1>1, <1>2, PTL

-----------------------------------------------------------------------------
(* One settlement per job.  The claim is never given back, only the process  *)
(* that took it reaches "settle", and it leaves "settle" by settling or by   *)
(* dying: so a hold that was moved has a claim and nobody about to move it.  *)

Settling(p, j) == run[p].job = j /\ run[p].pc = "settle"
Moved(j) == charges[j] + refunds[j]

OnceInv ==
  /\ \A j \in Jobs : Moved(j) <= 1
  /\ \A j \in Jobs : job[j].claim = "none" => Moved(j) = 0
  /\ \A p \in Procs, j \in Jobs :
       Settling(p, j) => job[j].claim # "none" /\ Moved(j) = 0
  /\ \A p, q \in Procs, j \in Jobs : Settling(p, j) /\ Settling(q, j) => p = q

\* What every step but a claim and a settlement does.
KeepsClaims == \A j \in Jobs : job[j].claim # "none" => job'[j].claim # "none"
NoNewSettling ==
  \A p \in Procs : run'[p].pc = "settle" => run[p].pc = "settle" /\ run'[p].job = run[p].job
Quiet == KeepsClaims /\ NoNewSettling /\ UNCHANGED credits

LEMMA QuietOnce ==
  ASSUME OnceInv, Quiet
  PROVE  OnceInv'
BY DEF OnceInv, Quiet, KeepsClaims, NoNewSettling, credits, Settling, Moved

LEMMA SameJobsKeep == ASSUME UNCHANGED job PROVE KeepsClaims
BY DEF KeepsClaims

LEMMA WriteKeeps ==
  ASSUME TypeOK, NEW j \in Jobs, NEW d \in JobDoc, Write(j, d),
         job[j].claim # "none" => d.claim # "none"
  PROVE  KeepsClaims
BY DEF TypeOK, Write, KeepsClaims

LEMMA SameRunNoSettling == ASSUME UNCHANGED run PROVE NoNewSettling
BY DEF NoNewSettling

LEMMA GoToNoSettling ==
  ASSUME TypeInv, NEW p \in Procs, NEW l \in PCs \ {"settle"}, GoTo(p, l)
  PROVE  NoNewSettling
BY GoToFields DEF TypeInv, NoNewSettling

LEMMA EndNoSettling ==
  ASSUME TypeInv, NEW p \in Procs, End(p)
  PROVE  NoNewSettling
BY EndFields DEF TypeInv, NoNewSettling

LEMMA ConcludeNoSettling ==
  ASSUME TypeInv, NEW p \in Procs, NEW r \in Results, Conclude(p, r)
  PROVE  NoNewSettling
BY ConcludeFields DEF TypeInv, NoNewSettling

LEMMA LeaveNoSettling ==
  ASSUME TypeInv, NEW p \in Procs, Leave(p)
  PROVE  NoNewSettling
BY GoToNoSettling, EndNoSettling DEF Leave, PCs

LEMMA CreateQuiet ==
  ASSUME TypeInv, NEW j \in Jobs, Create(j)
  PROVE  Quiet
<1> DEFINE failed == [Released(job[j]) EXCEPT !.state = "failed", !.nextPoll = "none"]
<1>1. j \in Procs
  BY DEF Procs
<1>2. CASE EnqueueFirst(j)
  BY <1>1, <1>2, SameJobsKeep, EndNoSettling DEF EnqueueFirst, Quiet
<1>3. CASE EnqueueFirstFails(j)
  BY <1>1, <1>3, SameJobsKeep, GoToNoSettling DEF EnqueueFirstFails, Quiet, PCs
<1>4. CASE FailBeforeStart(j) /\ UnstartedGuard(job[j])
  <2>1. Released(job[j]) \in JobDoc /\ Released(job[j]).claim = job[j].claim
    BY ReleasedType DEF TypeInv, TypeOK
  <2>2. failed \in JobDoc
    BY <2>1, FieldType
  <2>3. failed.claim = job[j].claim
    BY <2>1 DEF JobDoc
  <2>4. /\ Write(j, failed) /\ TypeOK
        /\ run' = [run EXCEPT ![j].pc = "claim", ![j].doc = failed]
    BY <1>4 DEF FailBeforeStart, TypeInv
  <2> HIDE DEF failed
  <2>5. KeepsClaims
    BY <2>2, <2>3, <2>4, WriteKeeps
  <2>6. NoNewSettling
    <3>1. run'[j].pc = "claim" /\ \A q \in Procs : q # j => run'[q] = run[q]
      BY <1>1, <2>2, <2>4, GoToDocFields DEF PCs
    <3>2. QED BY <3>1 DEF NoNewSettling
  <2>7. QED BY <1>4, <2>5, <2>6 DEF FailBeforeStart, Quiet
<1>5. CASE FailBeforeStart(j) /\ ~UnstartedGuard(job[j])
  BY <1>1, <1>5, SameJobsKeep, EndNoSettling DEF FailBeforeStart, Quiet
<1>6. QED BY <1>2, <1>3, <1>4, <1>5 DEF Create

LEMMA WorkQuiet ==
  ASSUME TypeInv, NEW w \in Workers, Work(w)
  PROVE  Quiet
<1> DEFINE i == run[w].job
<1>1. w \in Procs /\ w \notin Jobs
  BY JobsAssumption DEF Procs
<1>2. ~At(w, "idle") => i \in Jobs /\ job[i] \in JobDoc
  BY <1>1 DEF At, TypeInv, TypeOK, ProcOK, ProcFine
<1>3. ASSUME NEW j \in Jobs, Acquire(w, j) PROVE Quiet
  <2> DEFINE d == Leased(job[j], w)
  <2>1. d \in JobDoc /\ d.claim = job[j].claim
    BY LeasedType DEF TypeInv, TypeOK
  <2>2. KeepsClaims
    BY <1>3, <2>1, WriteKeeps DEF Acquire, TypeInv
  <2>3. run' = [run EXCEPT ![w] = [pc |-> "step", job |-> j, doc |-> d,
                                   result |-> "release", leased |-> TRUE]]
    BY <1>3 DEF Acquire
  <2> HIDE DEF d
  <2>4. NoNewSettling
    BY <1>1, <2>3 DEF TypeInv, TypeOK, NoNewSettling
  <2>5. QED BY <1>3, <2>2, <2>4 DEF Acquire, Quiet
<1>4. ASSUME NEW j \in Jobs, SkipDelivery(w, j) PROVE Quiet
  BY <1>4, SameJobsKeep, SameRunNoSettling DEF SkipDelivery, Quiet
<1>5. CASE Step(w)
  BY <1>1, <1>5, SameJobsKeep, GoToNoSettling, ConcludeNoSettling
  DEF Step, Quiet, PCs, Results
<1>6. CASE CheckAccess(w)
  BY <1>1, <1>6, SameJobsKeep, GoToNoSettling, ConcludeNoSettling
  DEF CheckAccess, Quiet, PCs, Results
<1>7. CASE MarkSubmit(w)
  <2>1. NoNewSettling
    BY <1>1, <1>7, GoToNoSettling, ConcludeNoSettling DEF MarkSubmit, PCs, Results
  <2>2. IsSync(i) \in BOOLEAN
    BY DEF IsSync
  <2>3. i \in Jobs /\ job[i] \in JobDoc
    BY <1>2, <1>7 DEF MarkSubmit, At
  <2>4. SubmitMarked(job[i], IsSync(i)) \in JobDoc
        /\ SubmitMarked(job[i], IsSync(i)).claim = job[i].claim
    BY <2>2, <2>3, SubmitMarkedType
  <2>5. KeepsClaims
    BY <1>7, <2>3, <2>4, WriteKeeps, SameJobsKeep DEF MarkSubmit, TypeInv
  <2>6. QED BY <1>7, <2>1, <2>5 DEF MarkSubmit, Quiet
<1>8. CASE ProviderAccepts(w)
  BY <1>1, <1>8, SameJobsKeep, GoToNoSettling DEF ProviderAccepts, Quiet, PCs
<1>9. CASE SubmitRejected(w) \/ SubmitReturns(w)
  BY <1>1, <1>9, SameJobsKeep, ConcludeNoSettling
  DEF SubmitRejected, SubmitReturns, Quiet, Results
<1>10. CASE Poll(w) \/ Store(w)
  BY <1>1, <1>10, SameJobsKeep, ConcludeNoSettling DEF Poll, Store, Quiet, Results
<1>11. CASE StopProvider(w)
  BY <1>1, <1>11, SameJobsKeep, GoToNoSettling DEF StopProvider, Quiet, PCs
<1>12. CASE Commit(w)
  <2> DEFINE r == run[w].result
             d == Released(Applied(job[i], run[w].doc, r))
             l == IF r \in TerminalResults THEN "claim" ELSE "send"
  <2>1. i \in Jobs /\ job[i] \in JobDoc /\ run[w].doc \in JobDoc /\ r \in Results
        /\ (r = "retry" => run[w].doc.attempts + 1 < MaxStepAttempts)
    BY <1>1, <1>2, <1>12 DEF Commit, At, TypeInv, TypeOK, Run, ProcOK, ProcFine
  <2>2. Applied(job[i], run[w].doc, r) \in JobDoc
        /\ Applied(job[i], run[w].doc, r).claim = job[i].claim
    BY <2>1, AppliedType
  <2>3. d \in JobDoc /\ d.claim = job[i].claim
    BY <2>2, ReleasedType
  <2>4. KeepsClaims
    BY <1>12, <2>1, <2>3, WriteKeeps, SameJobsKeep DEF Commit, TypeInv
  <2>5. CASE End(w)
    BY <1>1, <1>12, <2>4, <2>5, EndNoSettling DEF Commit, Quiet
  <2>6. CASE ~End(w)
    <3>1. run' = [run EXCEPT ![w] = [@ EXCEPT !.doc = d, !.leased = FALSE, !.pc = l]]
      BY <1>12, <2>6 DEF Commit
    <3>2. l # "settle"
      OBVIOUS
    <3> HIDE DEF d, l
    <3>3. NoNewSettling
      BY <1>1, <3>1, <3>2 DEF TypeInv, TypeOK, Run, NoNewSettling
    <3>4. QED BY <1>12, <2>4, <3>3 DEF Commit, Quiet
  <2>7. QED BY <2>5, <2>6
<1>13. CASE Send(w) \/ SendFails(w)
  BY <1>1, <1>13, SameJobsKeep, EndNoSettling DEF Send, SendFails, Quiet
<1>14. CASE Release(w)
  <2>1. i \in Jobs /\ job[i] \in JobDoc
    BY <1>2, <1>14 DEF Release, At
  <2>2. Released(job[i]) \in JobDoc /\ Released(job[i]).claim = job[i].claim
    BY <2>1, ReleasedType
  <2>3. KeepsClaims
    BY <1>14, <2>1, <2>2, WriteKeeps, SameJobsKeep DEF Release, TypeInv
  <2>4. QED BY <1>1, <1>14, <2>3, EndNoSettling DEF Release, Quiet
<1>15. QED
  BY <1>3, <1>4, <1>5, <1>6, <1>7, <1>8, <1>9, <1>10, <1>11, <1>12, <1>13, <1>14 DEF Work

LEMMA ClockQuiet ==
  ASSUME TypeInv, NEW j \in Jobs, Clock(j) \/ RequestCancel(j) \/ Sweep(j) \/ LoseMessage(j)
  PROVE  Quiet
<1>1. job[j] \in JobDoc
  BY DEF TypeInv, TypeOK
<1>2. NoNewSettling /\ UNCHANGED credits
  BY SameRunNoSettling
  DEF Clock, BecomesDue, DeadlinePasses, LeaseExpires, ClaimAges, RequestCancel, Sweep,
      LoseMessage
<1>3. CASE BecomesDue(j)
  <2>1. [job[j] EXCEPT !.nextPoll = "due"].claim = job[j].claim
    BY <1>1 DEF JobDoc
  <2>2. QED BY <1>1, <1>2, <1>3, <2>1, FieldType, WriteKeeps DEF BecomesDue, TypeInv, Quiet
<1>4. CASE DeadlinePasses(j)
  <2>1. [job[j] EXCEPT !.late = TRUE].claim = job[j].claim
    BY <1>1 DEF JobDoc
  <2>2. QED BY <1>1, <1>2, <1>4, <2>1, FieldType, WriteKeeps DEF DeadlinePasses, TypeInv, Quiet
<1>5. CASE LeaseExpires(j)
  <2>1. [job[j] EXCEPT !.expired = TRUE].claim = job[j].claim
    BY <1>1 DEF JobDoc
  <2>2. QED BY <1>1, <1>2, <1>5, <2>1, FieldType, WriteKeeps DEF LeaseExpires, TypeInv, Quiet
<1>6. CASE ClaimAges(j)
  <2>1. [job[j] EXCEPT !.claim = "old"].claim = "old"
    BY <1>1 DEF JobDoc
  <2>2. QED BY <1>1, <1>2, <1>6, <2>1, FieldType, WriteKeeps DEF ClaimAges, TypeInv, Quiet
<1>7. CASE RequestCancel(j)
  <2>1. [job[j] EXCEPT !.cancelRequested = TRUE].claim = job[j].claim
    BY <1>1 DEF JobDoc
  <2>2. QED BY <1>1, <1>2, <1>7, <2>1, FieldType, WriteKeeps DEF RequestCancel, TypeInv, Quiet
<1>8. CASE Sweep(j) \/ LoseMessage(j)
  BY <1>2, <1>8, SameJobsKeep DEF Sweep, LoseMessage, Quiet
<1>9. QED BY <1>3, <1>4, <1>5, <1>6, <1>7, <1>8 DEF Clock

LEMMA FinishOnce ==
  ASSUME TypeInv, OnceInv, NEW p \in Procs, Finish(p) \/ Crash(p)
  PROVE  OnceInv'
<1>1. PICK j \in Jobs : j = run[p].job /\ job[j] \in JobDoc
  <2>1. ~At(p, "idle")
    BY DEF Finish, Claim, Settle, RecordSettlement, MarkHandled, Crash, At
  <2>2. QED BY <2>1 DEF At, TypeInv, TypeOK, ProcOK, ProcFine
<1>2. CASE Claim(p) /\ Claimable(job[j])
  <2> DEFINE d == [job[j] EXCEPT !.claim = "fresh"]
  <2>1. d.claim = "fresh"
    BY <1>1 DEF JobDoc
  <2>2. job' = [job EXCEPT ![j] = d] /\ UNCHANGED credits /\ job[j].claim = "none"
    BY <1>1, <1>2 DEF Claim, Write, Claimable
  <2>3. /\ run'[p].pc = "settle" /\ run'[p].job = j
        /\ \A q \in Procs : q # p => run'[q] = run[q]
    BY <1>1, <1>2, GoToFields DEF Claim, TypeInv, PCs
  <2> HIDE DEF d
  <2>4. job'[j].claim # "none" /\ \A i \in Jobs : i # j => job'[i] = job[i]
    BY <1>1, <2>1, <2>2 DEF TypeInv, TypeOK
  <2>5. \A q \in Procs : ~Settling(q, j)
    BY <1>1, <2>2 DEF OnceInv
  <2>6. \A q \in Procs, i \in Jobs :
          Settling(q, i)' => Settling(q, i) \/ (q = p /\ i = j)
    BY <1>1, <2>3 DEF Settling
  <2>7. \A i \in Jobs : Moved(i)' = Moved(i)
    BY <2>2 DEF Moved, credits
  <2>8. Moved(j) = 0
    BY <1>1, <2>2 DEF OnceInv
  <2>9. \A i \in Jobs : job'[i].claim = "none" => job[i].claim = "none"
    BY <2>4
  <2>10. \A i \in Jobs : job[i].claim # "none" => job'[i].claim # "none"
    BY <2>4
  <2>11. QED BY <1>1, <2>4, <2>5, <2>6, <2>7, <2>8, <2>9, <2>10 DEF OnceInv
<1>3. CASE Claim(p) /\ ~Claimable(job[j])
  BY <1>1, <1>3, SameJobsKeep, LeaveNoSettling, QuietOnce DEF Claim, Quiet
<1>4. CASE Settle(p)
  <2>1. /\ run'[p].pc = "record"
        /\ \A q \in Procs : q # p => run'[q] = run[q]
    BY <1>4, GoToFields DEF Settle, TypeInv, PCs
  <2>2. Settling(p, j) /\ Moved(j) = 0 /\ job[j].claim # "none"
    BY <1>1, <1>4 DEF Settle, At, Settling, OnceInv
  <2>3. Moved(j)' = Moved(j) + 1 /\ \A i \in Jobs : i # j => Moved(i)' = Moved(i)
    <3>1. charges \in [Jobs -> Nat] /\ refunds \in [Jobs -> Nat]
      BY DEF TypeInv, TypeOK
    <3>2. \/ charges' = [charges EXCEPT ![j] = @ + 1] /\ refunds' = refunds
          \/ refunds' = [refunds EXCEPT ![j] = @ + 1] /\ charges' = charges
      BY <1>1, <1>4 DEF Settle
    <3>3. QED BY <1>1, <3>1, <3>2 DEF Moved
  <2>4. UNCHANGED job
    BY <1>4 DEF Settle
  <2>5. \A q \in Procs, i \in Jobs : Settling(q, i)' => Settling(q, i) /\ q # p
    BY <2>1 DEF Settling
  <2>6. \A q \in Procs, i \in Jobs : Settling(q, i)' => i # j
    BY <1>1, <2>2, <2>5 DEF OnceInv
  <2>7. \A i \in Jobs : Moved(i)' <= 1
    BY <2>2, <2>3 DEF OnceInv
  <2>8. \A i \in Jobs : job'[i].claim = "none" => Moved(i)' = 0
    BY <2>2, <2>3, <2>4 DEF OnceInv
  <2>9. \A q \in Procs, i \in Jobs :
          Settling(q, i)' => job'[i].claim # "none" /\ Moved(i)' = 0
    BY <2>3, <2>4, <2>5, <2>6 DEF OnceInv
  <2>10. \A q, v \in Procs, i \in Jobs : Settling(q, i)' /\ Settling(v, i)' => q = v
    BY <2>5 DEF OnceInv
  <2>11. QED BY <2>7, <2>8, <2>9, <2>10 DEF OnceInv
<1>5. CASE RecordSettlement(p)
  <2> DEFINE v == IF Charged(run[p].doc) THEN "charged" ELSE "zero"
  <2>1. Write(j, [job[j] EXCEPT !.settled = v]) /\ v \in {"none", "zero", "charged"}
    BY <1>1, <1>5 DEF RecordSettlement
  <2> HIDE DEF v
  <2>2. [job[j] EXCEPT !.settled = v] \in JobDoc
    BY <1>1, <2>1, FieldType
  <2>3. [job[j] EXCEPT !.settled = v].claim = job[j].claim
    BY <1>1, <2>1 DEF JobDoc
  <2>4. KeepsClaims
    BY <1>1, <2>1, <2>2, <2>3, WriteKeeps DEF TypeInv
  <2>5. NoNewSettling /\ UNCHANGED credits
    BY <1>5, GoToNoSettling DEF RecordSettlement, PCs
  <2>6. QED BY <2>4, <2>5, QuietOnce DEF Quiet
<1>6. CASE MarkHandled(p)
  <2>1. [job[j] EXCEPT !.handled = TRUE].claim = job[j].claim
    BY <1>1 DEF JobDoc
  <2>2. KeepsClaims
    BY <1>1, <1>6, <2>1, FieldType, WriteKeeps DEF MarkHandled, TypeInv
  <2>3. QED BY <1>6, <2>2, LeaveNoSettling, QuietOnce DEF MarkHandled, Quiet
<1>7. CASE Crash(p)
  BY <1>7, SameJobsKeep, EndNoSettling, QuietOnce DEF Crash, Quiet
<1>8. QED BY <1>2, <1>3, <1>4, <1>5, <1>6, <1>7 DEF Finish

LEMMA InitOnce == Init => OnceInv
<1> SUFFICES ASSUME Init PROVE OnceInv
  OBVIOUS
<1>1. ASSUME NEW p \in Procs PROVE run[p].pc # "settle"
  <2>1. run[p] = IF p \in Jobs THEN Task("enqueue", p) ELSE Rest
    BY DEF Init
  <2>2. CASE p \in Jobs
    BY <2>1, <2>2 DEF Task
  <2>3. CASE p \notin Jobs
    BY <2>1, <2>3 DEF Rest, Task
  <2>4. QED BY <2>2, <2>3
<1>2. \A j \in Jobs : Moved(j) = 0
  BY DEF Init, Moved
<1>3. QED BY <1>1, <1>2 DEF OnceInv, Settling

LEMMA OnceStep == TypeInv /\ OnceInv /\ [Next]_vars => OnceInv'
<1> SUFFICES ASSUME TypeInv, OnceInv, [Next]_vars PROVE OnceInv'
  OBVIOUS
<1>1. CASE UNCHANGED vars
  BY <1>1, SameJobsKeep, SameRunNoSettling, QuietOnce DEF vars, Quiet, credits
<1>2. CASE Next
  <2>1. ASSUME NEW j \in Jobs, Create(j) PROVE OnceInv'
    BY <2>1, CreateQuiet, QuietOnce
  <2>2. ASSUME NEW j \in Jobs, Clock(j) \/ RequestCancel(j) \/ Sweep(j) \/ LoseMessage(j)
        PROVE  OnceInv'
    BY <2>2, ClockQuiet, QuietOnce
  <2>3. ASSUME NEW w \in Workers, Work(w) PROVE OnceInv'
    BY <2>3, WorkQuiet, QuietOnce
  <2>4. ASSUME NEW p \in Procs, Finish(p) \/ Crash(p) PROVE OnceInv'
    BY <2>4, FinishOnce
  <2>5. QED BY <1>2, <2>1, <2>2, <2>3, <2>4 DEF Next
<1>3. QED BY <1>1, <1>2

\* However many workers, sweeps, late deliveries, stalls past the lease and
\* crashes reach a job's terminal handling, its hold moves at most once
\* (claimTerminalHandling): with or without a hard kill.
THEOREM SettlesOnce == Spec => []SettledAtMostOnce
<1>1. Spec => []TypeInv
  BY InitType, TypeStep, PTL DEF Spec
<1>2. Spec => []OnceInv
  BY <1>1, InitOnce, OnceStep, PTL DEF Spec
<1>3. OnceInv => SettledAtMostOnce
  BY DEF OnceInv, SettledAtMostOnce, Moved
<1>4. QED BY <1>2, <1>3, PTL
=============================================================================
