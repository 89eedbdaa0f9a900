------------------------ MODULE EngineSafetyProofs ------------------------
(***************************************************************************)
(* The safety of the generation-job engine, for every set of jobs and      *)
(* workers and every bound, when a step that outlives its lease is killed  *)
(* (HardKill, what Lambda does): one worker steps a job, the provider is   *)
(* called once, credits follow the final state, and the engine implements  *)
(* the job contract.  The last part does without the kill, for async kinds.*)
(***************************************************************************)
EXTENDS GenerationJobsProofs

-----------------------------------------------------------------------------
(* The inductive invariant, in four layers: the lease, what a step knows of  *)
(* its job, the provider's side, and the terminal handling.  Each layer is   *)
(* proved with the help of those before it.                                  *)

\* Where a worker is while it steps a job, and while it handles a final one.
StepPCs == {"step", "access", "mark", "submit", "submitted", "poll", "store", "stop",
            "commit"}
FinalPCs == {"claim", "settle", "record", "finish"}

\* A worker that steps a job, or gives its lease back, has the lease it took,
\* and that lease is the one stored, not expired.
LeaseFine(w) ==
  /\ run[w].pc \in StepPCs \cup {"release"} => run[w].leased
  /\ run[w].leased =>
       /\ run[w].pc \in StepPCs \cup FinalPCs \cup {"release"}
       /\ job[run[w].job].lease = w
       /\ ~job[run[w].job].expired
LeaseInv == \A w \in Workers : LeaseFine(w)

\* What a step may commit of a job, by its kind and the state it is stored in.
Failing == {"failed", "orphaned", "exhausted"}
Outcomes(s, sync) ==
  IF sync
    THEN CASE s = "pending" -> Failing \cup {"release", "cancelled", "timeout"}
           [] s = "running" -> Failing \cup {"retry", "succeeded", "blocked", "billed_block"}
           [] OTHER -> {}
    ELSE CASE s = "pending" -> Failing \cup {"release", "cancelled", "timeout", "retry", "running"}
           [] s = "running" -> Failing \cup {"release", "cancelled", "timeout", "retry",
                                             "poll_again", "storing", "blocked", "billed_block"}
           [] s = "storing" -> Failing \cup {"release", "retry", "succeeded"}
           [] OTHER -> {}

\* The document of a step still says what is stored, but for the sync job its
\* own submit has set running.
Read(d, s, sync) == d.state = s \/ (sync /\ d.state = "pending" /\ s = "running")

StepFine(w) ==
  LET d == run[w].doc
      j == run[w].job
      s == job[j].state
      l == run[w].pc
      r == run[w].result
  IN
  /\ l \in StepPCs => d.handle = job[j].handle
  /\ l = "step" =>
       /\ d.state = s
       /\ d.submitAttempted = job[j].submitAttempted
       /\ d.billedBlock = job[j].billedBlock
       /\ d.cancelRequested => job[j].cancelRequested
  /\ l \in {"access", "mark"} =>
       d.state = "pending" /\ s = "pending" /\ ~job[j].submitAttempted
  /\ l \in {"submit", "submitted"} =>
       /\ d.state = "pending"
       /\ s = IF IsSync(j) THEN "running" ELSE "pending"
       /\ job[j].submitAttempted
       /\ IsSync(j) => ~job[j].cancelRequested
  /\ l = "submit" => gens[j] = 0
  /\ l = "submitted" => gens[j] > 0
  /\ l = "poll" => d.state = "running" /\ s = "running" /\ ~IsSync(j)
  /\ l = "store" => d.state = "storing" /\ s = "storing" /\ ~IsSync(j)
  /\ l = "stop" => d.state = "running" /\ r \in StopsProvider
  /\ l \in {"stop", "commit"} =>
       /\ Read(d, s, IsSync(j))
       /\ r \in Outcomes(s, IsSync(j))
       /\ r = "retry" /\ d.state = "pending" => gens[j] = 0
       /\ r \in {"running", "blocked", "billed_block"} => gens[j] > 0
       /\ r = "succeeded" /\ IsSync(j) => gens[j] > 0
       /\ r = "cancelled" => job[j].cancelRequested

JobFine(j) ==
  /\ gens[j] <= 1
  /\ gens[j] > 0 => job[j].submitAttempted
  /\ job[j].state \in {"running", "storing"} /\ ~IsSync(j) => gens[j] > 0
  /\ job[j].handle => ~IsSync(j) /\ job[j].state # "pending"
  /\ job[j].state \in NonTerminal => job[j].nextPoll # "none"
  /\ IsSync(j) =>
       /\ job[j].state # "storing"
       /\ job[j].state = "running" => job[j].submitAttempted
       /\ job[j].state \in {"succeeded", "blocked"} => gens[j] > 0
       /\ job[j].cancelRequested => gens[j] = 0

StateInv == (\A j \in Jobs : JobFine(j)) /\ (\A w \in Workers : StepFine(w))

\* A generation we no longer wait for does not run on, where it can be stopped.
QuietJob(j) ==
  /\ job[j].state = "storing" => prov[j] # "active"
  /\ job[j].state \in Terminal /\ job[j].handle /\ job[j].kind = "async" /\ ~leaked[j]
       => prov[j] # "active"
QuietStep(w) ==
  LET d == run[w].doc
      j == run[w].job
      r == run[w].result
  IN
  run[w].pc = "commit" =>
    /\ r \in {"storing", "blocked", "billed_block"} => prov[j] # "active"
    /\ r \in StopsProvider /\ d.state = "running" /\ d.handle /\ job[j].kind = "async" /\ ~leaked[j]
         => prov[j] # "active"
ProviderInv == (\A j \in Jobs : QuietJob(j)) /\ (\A w \in Workers : QuietStep(w))

\* How far the handling of a job has come.
Paid(j) ==
  LET paid == Charged(job[j]) IN
  /\ charges[j] = IF paid THEN 1 ELSE 0
  /\ refunds[j] = IF paid THEN 0 ELSE 1
Recorded(j) == job[j].settled = IF Charged(job[j]) THEN "charged" ELSE "zero"

HandledFine(j) ==
  /\ job[j].claim # "none" => job[j].state \in Terminal
  /\ job[j].claim = "none" => charges[j] = 0 /\ refunds[j] = 0 /\ ~job[j].handled
  /\ job[j].handled => Paid(j) /\ Recorded(j)
  /\ job[j].claim = "old" => \A p \in Procs : ~Handling(p, j)
  /\ alarmed[j] => job[j].claim = "old"
  /\ IsSync(j) /\ charges[j] > 0 => gens[j] > 0

FinishFine(p) ==
  LET d == run[p].doc
      j == run[p].job
      l == run[p].pc
  IN
  /\ l \in FinalPCs =>
       /\ job[j].state \in Terminal
       /\ d.state = job[j].state
       /\ d.billedBlock = job[j].billedBlock
  /\ l \in {"settle", "record", "finish"} => job[j].claim # "none" /\ ~job[j].handled
  /\ l = "settle" => charges[j] = 0 /\ refunds[j] = 0
  /\ l \in {"record", "finish"} => Paid(j)
  /\ l = "finish" => Recorded(j)

\* A request only ever handles the job it created.
OwnInv == \A j \in Jobs : run[j].pc # "idle" => run[j].job = j

HandlingInv ==
  /\ \A j \in Jobs : HandledFine(j)
  /\ \A p \in Procs : FinishFine(p)
  /\ \A j \in Jobs : \A p, q \in Procs : Handling(p, j) /\ Handling(q, j) => p = q

-----------------------------------------------------------------------------
(* What each write leaves of a document.                                     *)

SameCore(d, e) ==
  /\ e.kind = d.kind
  /\ e.state = d.state
  /\ e.submitAttempted = d.submitAttempted
  /\ e.handle = d.handle
  /\ e.billedBlock = d.billedBlock
SameLease(d, e) == e.lease = d.lease /\ e.expired = d.expired
SameClaim(d, e) == e.claim = d.claim /\ e.handled = d.handled /\ e.settled = d.settled
SameAsk(d, e) == e.cancelRequested = d.cancelRequested
SamePoll(d, e) == e.nextPoll = d.nextPoll

LEMMA LeasedFields ==
  ASSUME NEW d \in JobDoc, NEW w \in Workers, NEW e, e = Leased(d, w)
  PROVE  /\ e.lease = w /\ ~e.expired
         /\ SameCore(d, e) /\ SameClaim(d, e) /\ SameAsk(d, e) /\ SamePoll(d, e)
BY DEF Leased, JobDoc, SameCore, SameClaim, SameAsk, SamePoll

LEMMA ReleasedFields ==
  ASSUME NEW d \in JobDoc, NEW e, e = Released(d)
  PROVE  /\ e.lease = None
         /\ SameCore(d, e) /\ SameClaim(d, e) /\ SameAsk(d, e) /\ SamePoll(d, e)
BY DEF Released, JobDoc, SameCore, SameClaim, SameAsk, SamePoll

LEMMA MarkedFields ==
  ASSUME NEW d \in JobDoc, NEW b \in BOOLEAN, NEW e, e = SubmitMarked(d, b)
  PROVE  /\ e.kind = d.kind /\ e.handle = d.handle /\ e.billedBlock = d.billedBlock
         /\ e.submitAttempted
         /\ e.state = IF b THEN "running" ELSE d.state
         /\ SameLease(d, e) /\ SameClaim(d, e) /\ SameAsk(d, e) /\ SamePoll(d, e)
BY DEF SubmitMarked, JobDoc, SameLease, SameClaim, SameAsk, SamePoll

LEMMA FailedFields ==
  ASSUME NEW d \in JobDoc, NEW e, e = [Released(d) EXCEPT !.state = "failed", !.nextPoll = "none"]
  PROVE  /\ e.kind = d.kind /\ e.handle = d.handle /\ e.billedBlock = d.billedBlock
         /\ e.submitAttempted = d.submitAttempted
         /\ e.state = "failed" /\ e.lease = None
         /\ SameClaim(d, e) /\ SameAsk(d, e)
BY DEF Released, JobDoc, SameClaim, SameAsk

LEMMA AppliedFields ==
  ASSUME NEW d \in JobDoc, NEW read \in JobDoc, NEW r \in Results, NEW e,
         e = Applied(d, read, r)
  PROVE  /\ e.kind = d.kind
         /\ e.state = StateAfter(d, read, r)
         /\ Resubmits(read, r) => ~e.submitAttempted
         /\ ~Resubmits(read, r) => e.submitAttempted = d.submitAttempted
         /\ r = "running" => e.handle
         /\ r # "running" => e.handle = d.handle
         /\ r = "billed_block" => e.billedBlock
         /\ r # "billed_block" => e.billedBlock = d.billedBlock
         /\ e.nextPoll = NextPollAfter(d, r)
         /\ SameLease(d, e) /\ SameClaim(d, e) /\ SameAsk(d, e)
<1> DEFINE s == StateAfter(d, read, r)
           a == AttemptsAfter(d, read, r)
           n == NextPollAfter(d, r)
           x == IF Resubmits(read, r) THEN FALSE ELSE d.submitAttempted
           y == IF r = "running" THEN TRUE ELSE d.handle
           z == IF r = "billed_block" THEN TRUE ELSE d.billedBlock
<1>1. e = [d EXCEPT !.state = s, !.attempts = a, !.nextPoll = n,
                    !.submitAttempted = x, !.handle = y, !.billedBlock = z]
  BY DEF Applied
<1> HIDE DEF s, a, n, x, y, z
<1>2. /\ e.kind = d.kind /\ e.state = s /\ e.submitAttempted = x /\ e.handle = y
      /\ e.billedBlock = z /\ e.nextPoll = n
      /\ SameLease(d, e) /\ SameClaim(d, e) /\ SameAsk(d, e)
  BY <1>1 DEF JobDoc, SameLease, SameClaim, SameAsk
<1>3. QED BY <1>2 DEF s, n, x, y, z

LEMMA AskField ==
  ASSUME NEW d \in JobDoc, NEW v
  PROVE  LET e == [d EXCEPT !.cancelRequested = v] IN
         /\ e.cancelRequested = v
         /\ SameCore(d, e) /\ SameLease(d, e) /\ SameClaim(d, e) /\ SamePoll(d, e)
BY DEF JobDoc, SameCore, SameLease, SameClaim, SamePoll

LEMMA LateField ==
  ASSUME NEW d \in JobDoc, NEW v
  PROVE  LET e == [d EXCEPT !.late = v] IN
         /\ SameCore(d, e) /\ SameLease(d, e) /\ SameClaim(d, e) /\ SameAsk(d, e) /\ SamePoll(d, e)
BY DEF JobDoc, SameCore, SameLease, SameClaim, SameAsk, SamePoll

LEMMA ExpiredField ==
  ASSUME NEW d \in JobDoc, NEW v
  PROVE  LET e == [d EXCEPT !.expired = v] IN
         /\ e.lease = d.lease
         /\ SameCore(d, e) /\ SameClaim(d, e) /\ SameAsk(d, e) /\ SamePoll(d, e)
BY DEF JobDoc, SameCore, SameClaim, SameAsk, SamePoll

LEMMA PollField ==
  ASSUME NEW d \in JobDoc, NEW v
  PROVE  LET e == [d EXCEPT !.nextPoll = v] IN
         /\ e.nextPoll = v
         /\ SameCore(d, e) /\ SameLease(d, e) /\ SameClaim(d, e) /\ SameAsk(d, e)
BY DEF JobDoc, SameCore, SameLease, SameClaim, SameAsk

LEMMA ClaimField ==
  ASSUME NEW d \in JobDoc, NEW v
  PROVE  LET e == [d EXCEPT !.claim = v] IN
         /\ e.claim = v /\ e.handled = d.handled /\ e.settled = d.settled
         /\ SameCore(d, e) /\ SameLease(d, e) /\ SameAsk(d, e) /\ SamePoll(d, e)
BY DEF JobDoc, SameCore, SameLease, SameAsk, SamePoll

LEMMA SettledField ==
  ASSUME NEW d \in JobDoc, NEW v
  PROVE  LET e == [d EXCEPT !.settled = v] IN
         /\ e.settled = v /\ e.claim = d.claim /\ e.handled = d.handled
         /\ SameCore(d, e) /\ SameLease(d, e) /\ SameAsk(d, e) /\ SamePoll(d, e)
BY DEF JobDoc, SameCore, SameLease, SameAsk, SamePoll

LEMMA HandledField ==
  ASSUME NEW d \in JobDoc, NEW v
  PROVE  LET e == [d EXCEPT !.handled = v] IN
         /\ e.handled = v /\ e.claim = d.claim /\ e.settled = d.settled
         /\ SameCore(d, e) /\ SameLease(d, e) /\ SameAsk(d, e) /\ SamePoll(d, e)
BY DEF JobDoc, SameCore, SameLease, SameAsk, SamePoll

LEMMA WriteOne ==
  ASSUME TypeOK, NEW j \in Jobs, NEW e, Write(j, e)
  PROVE  job'[j] = e /\ \A i \in Jobs : i # j => job'[i] = job[i]
BY DEF TypeOK, Write

\* What the terminal handling writes, beside the state a step depends on.
LEMMA FinishWrites ==
  ASSUME TypeInv, NEW p \in Procs, Finish(p) \/ Crash(p), NEW j \in Jobs, j = run[p].job
  PROVE  \/ UNCHANGED job
         \/ \E e : /\ Write(j, e) /\ SameCore(job[j], e) /\ SameLease(job[j], e)
                   /\ SameAsk(job[j], e) /\ SamePoll(job[j], e)
<1>1. job[j] \in JobDoc
  BY DEF TypeInv, TypeOK
<1>2. CASE Claim(p)
  <2>1. UNCHANGED job \/ Write(j, [job[j] EXCEPT !.claim = "fresh"])
    BY <1>2 DEF Claim
  <2>2. QED BY <1>1, <2>1, ClaimField
<1>3. CASE RecordSettlement(p)
  <2>1. PICK v : Write(j, [job[j] EXCEPT !.settled = v])
    BY <1>3 DEF RecordSettlement
  <2>2. QED BY <1>1, <2>1, SettledField
<1>4. CASE MarkHandled(p)
  <2>1. Write(j, [job[j] EXCEPT !.handled = TRUE])
    BY <1>4 DEF MarkHandled
  <2>2. QED BY <1>1, <2>1, HandledField
<1>5. CASE Settle(p) \/ Crash(p)
  BY <1>5 DEF Settle, Crash
<1>6. QED BY <1>2, <1>3, <1>4, <1>5 DEF Finish

\* What the clock, the owner and the sweep write.
LEMMA OtherWrites ==
  ASSUME TypeInv, NEW j \in Jobs, Clock(j) \/ RequestCancel(j) \/ Sweep(j) \/ LoseMessage(j)
  PROVE  \/ UNCHANGED job
         \/ \E e : /\ Write(j, e) /\ SameCore(job[j], e)
                   /\ e.lease = job[j].lease
                   /\ LeaseExpires(j) \/ SameLease(job[j], e)
                   /\ ClaimAges(j) \/ SameClaim(job[j], e)
                   /\ RequestCancel(j) \/ SameAsk(job[j], e)
                   /\ e.nextPoll \in {job[j].nextPoll, "due"}
<1>1. job[j] \in JobDoc
  BY DEF TypeInv, TypeOK
<1>2. CASE RequestCancel(j)
  <2> DEFINE e == [job[j] EXCEPT !.cancelRequested = TRUE]
  <2>1. Write(j, e)
    BY <1>2 DEF RequestCancel
  <2>2. SameCore(job[j], e) /\ e.lease = job[j].lease /\ e.nextPoll \in {job[j].nextPoll, "due"}
    BY <1>1, AskField DEF SameLease, SamePoll
  <2>3. SameLease(job[j], e) /\ SameClaim(job[j], e)
    BY <1>1, AskField
  <2> HIDE DEF e
  <2>4. QED BY <1>2, <2>1, <2>2, <2>3
<1>3. CASE BecomesDue(j)
  <2> DEFINE e == [job[j] EXCEPT !.nextPoll = "due"]
  <2>1. Write(j, e)
    BY <1>3 DEF BecomesDue
  <2>2. SameCore(job[j], e) /\ e.lease = job[j].lease /\ e.nextPoll \in {job[j].nextPoll, "due"}
    BY <1>1, PollField DEF SameLease
  <2>3. SameLease(job[j], e) /\ SameClaim(job[j], e) /\ SameAsk(job[j], e)
    BY <1>1, PollField
  <2> HIDE DEF e
  <2>4. QED BY <1>3, <2>1, <2>2, <2>3
<1>4. CASE DeadlinePasses(j)
  <2> DEFINE e == [job[j] EXCEPT !.late = TRUE]
  <2>1. Write(j, e)
    BY <1>4 DEF DeadlinePasses
  <2>2. SameCore(job[j], e) /\ e.lease = job[j].lease /\ e.nextPoll \in {job[j].nextPoll, "due"}
    BY <1>1, LateField DEF SameLease, SamePoll
  <2>3. SameLease(job[j], e) /\ SameClaim(job[j], e) /\ SameAsk(job[j], e)
    BY <1>1, LateField
  <2> HIDE DEF e
  <2>4. QED BY <1>4, <2>1, <2>2, <2>3
<1>5. CASE LeaseExpires(j)
  <2> DEFINE e == [job[j] EXCEPT !.expired = TRUE]
  <2>1. Write(j, e)
    BY <1>5 DEF LeaseExpires
  <2>2. SameCore(job[j], e) /\ e.lease = job[j].lease /\ e.nextPoll \in {job[j].nextPoll, "due"}
    BY <1>1, ExpiredField DEF SamePoll
  <2>3. SameClaim(job[j], e) /\ SameAsk(job[j], e)
    BY <1>1, ExpiredField
  <2> HIDE DEF e
  <2>4. QED BY <1>5, <2>1, <2>2, <2>3
<1>6. CASE ClaimAges(j)
  <2> DEFINE e == [job[j] EXCEPT !.claim = "old"]
  <2>1. Write(j, e)
    BY <1>6 DEF ClaimAges
  <2>2. SameCore(job[j], e) /\ e.lease = job[j].lease /\ e.nextPoll \in {job[j].nextPoll, "due"}
    BY <1>1, ClaimField DEF SameLease, SamePoll
  <2>3. SameLease(job[j], e) /\ SameAsk(job[j], e)
    BY <1>1, ClaimField
  <2> HIDE DEF e
  <2>4. QED BY <1>6, <2>1, <2>2, <2>3
<1>7. CASE Sweep(j) \/ LoseMessage(j)
  BY <1>7 DEF Sweep, LoseMessage
<1>8. QED BY <1>2, <1>3, <1>4, <1>5, <1>6, <1>7 DEF Clock

-----------------------------------------------------------------------------
(* The lease.  Only five writes touch it; every other step leaves it as it   *)
(* is, and a process that goes on without a lease goes on outside the step.  *)

HeldPCs == StepPCs \cup FinalPCs \cup {"release"}

\* What a step by p does to the processes, when it takes no lease.
Steps(p) ==
  /\ \A q \in Procs : q # p => run'[q] = run[q]
  /\ p \in Workers =>
       /\ run'[p].pc \in StepPCs \cup {"release"} => run'[p].leased
       /\ run'[p].leased =>
            run[p].leased /\ run'[p].job = run[p].job /\ run'[p].pc \in HeldPCs
LeaseKept == \A i \in Jobs : SameLease(job[i], job'[i])

LEMMA LeasedJob ==
  ASSUME TypeInv, LeaseInv, NEW w \in Workers, run[w].leased
  PROVE  run[w].job \in Jobs /\ job[run[w].job] \in JobDoc
<1>1. w \in Procs /\ run[w].pc # "idle"
  BY DEF LeaseInv, LeaseFine, Procs, StepPCs, FinalPCs
<1>2. QED BY <1>1 DEF TypeInv, TypeOK, ProcOK, ProcFine

LEMMA QuietLease ==
  ASSUME TypeInv, LeaseInv, LeaseKept, NEW p \in Procs, Steps(p)
  PROVE  LeaseInv'
<1> SUFFICES ASSUME NEW w \in Workers PROVE LeaseFine(w)'
  BY DEF LeaseInv
<1>1. w \in Procs /\ LeaseFine(w)
  BY DEF Procs, LeaseInv
<1>2. run[w].leased => run[w].job \in Jobs
  BY LeasedJob
<1>3. CASE w = p
  BY <1>1, <1>2, <1>3 DEF LeaseFine, Steps, LeaseKept, SameLease, HeldPCs
<1>4. CASE w # p
  BY <1>1, <1>2, <1>4 DEF LeaseFine, Steps, LeaseKept, SameLease
<1>5. QED BY <1>3, <1>4

LEMMA SameRunSteps ==
  ASSUME TypeInv, LeaseInv, UNCHANGED run, NEW p \in Procs
  PROVE  Steps(p)
BY DEF Steps, LeaseInv, LeaseFine, HeldPCs

LEMMA GoToSteps ==
  ASSUME TypeInv, LeaseInv, NEW p \in Procs, NEW l \in PCs, GoTo(p, l),
         p \in Workers => run[p].leased \/ l \in {"settle", "record", "finish", "claim"},
         l \in HeldPCs \/ p \in Jobs
  PROVE  Steps(p)
BY GoToFields, JobsAssumption DEF TypeInv, Steps, HeldPCs, StepPCs, FinalPCs

LEMMA EndSteps ==
  ASSUME TypeInv, NEW p \in Procs, End(p)
  PROVE  Steps(p)
BY EndFields DEF TypeInv, Steps, StepPCs

LEMMA ConcludeSteps ==
  ASSUME TypeInv, LeaseInv, NEW w \in Workers, NEW r \in Results, Conclude(w, r),
         run[w].leased
  PROVE  Steps(w)
BY ConcludeFields DEF TypeInv, Procs, Steps, HeldPCs, StepPCs

LEMMA LeaveSteps ==
  ASSUME TypeInv, LeaseInv, NEW p \in Procs, Leave(p)
  PROVE  Steps(p)
<1>1. CASE run[p].leased
  BY <1>1, GoToSteps DEF Leave, PCs, HeldPCs
<1>2. CASE ~run[p].leased
  BY <1>2, EndSteps DEF Leave
<1>3. QED BY <1>1, <1>2

LEMMA SameJobLease == ASSUME UNCHANGED job PROVE LeaseKept
BY DEF LeaseKept, SameLease

LEMMA WriteLease ==
  ASSUME TypeInv, NEW j \in Jobs, NEW e, Write(j, e), SameLease(job[j], e)
  PROVE  LeaseKept
BY WriteOne DEF TypeInv, LeaseKept, SameLease

\* A step that gives up p's hold on job j, alone allowed to change its lease.
LEMMA FreedLease ==
  ASSUME TypeInv, LeaseInv, NEW p \in Procs, NEW j \in Jobs, Steps(p),
         \A i \in Jobs : i # j => job'[i] = job[i],
         \A w \in Workers : Holds(w, j) => w = p /\ ~run'[p].leased
  PROVE  LeaseInv'
<1> SUFFICES ASSUME NEW w \in Workers PROVE LeaseFine(w)'
  BY DEF LeaseInv
<1>1. w \in Procs /\ LeaseFine(w)
  BY DEF Procs, LeaseInv
<1>2. run[w].leased => run[w].job \in Jobs
  BY LeasedJob
<1>3. CASE w = p
  BY <1>1, <1>2, <1>3 DEF LeaseFine, Steps, HeldPCs, Holds
<1>4. CASE w # p
  BY <1>1, <1>2, <1>4 DEF LeaseFine, Steps, Holds
<1>5. QED BY <1>3, <1>4

LEMMA UnleasedHolds ==
  ASSUME TypeInv, LeaseInv, NEW j \in Jobs, Unleased(job[j]), NEW w \in Workers
  PROVE  ~Holds(w, j)
BY NoneAssumption DEF LeaseInv, LeaseFine, Holds, Unleased

LEMMA HoldsLease ==
  ASSUME TypeInv, LeaseInv, NEW j \in Jobs, NEW w \in Workers, Holds(w, j)
  PROVE  job[j].lease = w
BY DEF LeaseInv, LeaseFine, Holds

LEMMA StepLeased ==
  ASSUME TypeInv, LeaseInv, NEW w \in Workers, NEW l \in StepPCs, At(w, l)
  PROVE  /\ run[w].leased /\ Holds(w, run[w].job)
         /\ run[w].job \in Jobs /\ job[run[w].job] \in JobDoc
         /\ w \in Procs /\ w \notin Jobs
BY LeasedJob, JobsAssumption DEF LeaseInv, LeaseFine, At, Holds, Procs

LEMMA CreateLease ==
  ASSUME TypeInv, LeaseInv, NEW j \in Jobs, Create(j)
  PROVE  LeaseInv'
<1>1. j \in Procs /\ j \notin Workers /\ job[j] \in JobDoc
  BY JobsAssumption DEF Procs, TypeInv, TypeOK
<1>2. CASE EnqueueFirst(j)
  BY <1>1, <1>2, EndSteps, SameJobLease, QuietLease DEF EnqueueFirst
<1>3. CASE EnqueueFirstFails(j)
  <2>1. Steps(j)
    BY <1>1, <1>3, GoToSteps DEF EnqueueFirstFails, PCs
  <2>2. QED BY <1>1, <1>3, <2>1, SameJobLease, QuietLease DEF EnqueueFirstFails
<1>4. CASE FailBeforeStart(j) /\ UnstartedGuard(job[j])
  <2> DEFINE e == [Released(job[j]) EXCEPT !.state = "failed", !.nextPoll = "none"]
  <2>1. Write(j, e) /\ run' = [run EXCEPT ![j].pc = "claim", ![j].doc = e]
    BY <1>4 DEF FailBeforeStart
  <2> HIDE DEF e
  <2>2. \A i \in Jobs : i # j => job'[i] = job[i]
    BY <2>1, WriteOne DEF TypeInv
  <2>3. Steps(j)
    BY <1>1, <2>1 DEF Steps, TypeInv, TypeOK
  <2>4. \A w \in Workers : ~Holds(w, j)
    BY <1>4, UnleasedHolds DEF UnstartedGuard
  <2>5. QED BY <1>1, <2>2, <2>3, <2>4, FreedLease
<1>5. CASE FailBeforeStart(j) /\ ~UnstartedGuard(job[j])
  BY <1>1, <1>5, EndSteps, SameJobLease, QuietLease DEF FailBeforeStart
<1>6. QED BY <1>2, <1>3, <1>4, <1>5 DEF Create

LEMMA AcquireLease ==
  ASSUME TypeInv, LeaseInv, NEW w \in Workers, NEW j \in Jobs, Acquire(w, j)
  PROVE  LeaseInv'
<1> DEFINE d == Leased(job[j], w)
<1>1. job[j] \in JobDoc /\ w \in Procs /\ w \notin Jobs
  BY JobsAssumption DEF Procs, TypeInv, TypeOK
<1>2. d.lease = w /\ ~d.expired
  BY <1>1, LeasedFields
<1>3. Write(j, d) /\ run' = [run EXCEPT ![w] =
        [pc |-> "step", job |-> j, doc |-> d, result |-> "release", leased |-> TRUE]]
  BY DEF Acquire
<1> HIDE DEF d
<1>4. job'[j] = d /\ \A i \in Jobs : i # j => job'[i] = job[i]
  BY <1>3, WriteOne DEF TypeInv
<1>5. /\ run'[w].pc = "step" /\ run'[w].job = j
      /\ \A q \in Procs : q # w => run'[q] = run[q]
  BY <1>1, <1>3 DEF TypeInv, TypeOK
<1>6. \A v \in Workers : ~Holds(v, j)
  BY UnleasedHolds DEF Acquire, Leasable
<1>7. run'[w].leased
  BY <1>1, <1>3 DEF TypeInv, TypeOK
<1> SUFFICES ASSUME NEW v \in Workers PROVE LeaseFine(v)'
  BY DEF LeaseInv
<1>8. CASE v = w
  BY <1>2, <1>4, <1>5, <1>7, <1>8 DEF LeaseFine, StepPCs
<1>9. CASE v # w
  <2>1. v \in Procs /\ LeaseFine(v) /\ ~Holds(v, j) /\ run'[v] = run[v]
    BY <1>5, <1>6, <1>9 DEF Procs, LeaseInv
  <2>2. run[v].leased => run[v].job \in Jobs
    BY LeasedJob
  <2>3. QED BY <1>4, <2>1, <2>2 DEF LeaseFine, Holds
<1>10. QED BY <1>8, <1>9

LEMMA WorkLease ==
  ASSUME TypeInv, LeaseInv, NEW w \in Workers, Work(w)
  PROVE  LeaseInv'
<1> DEFINE i == run[w].job
<1>1. w \in Procs /\ w \notin Jobs
  BY JobsAssumption DEF Procs
<1>2. ASSUME NEW j \in Jobs, Acquire(w, j) PROVE LeaseInv'
  BY <1>2, AcquireLease
<1>3. ASSUME NEW j \in Jobs, SkipDelivery(w, j) PROVE LeaseInv'
  BY <1>1, <1>3, SameRunSteps, SameJobLease, QuietLease DEF SkipDelivery
<1>4. CASE Step(w) \/ CheckAccess(w) \/ ProviderAccepts(w) \/ SubmitRejected(w)
           \/ SubmitReturns(w) \/ Poll(w) \/ Store(w) \/ StopProvider(w)
  <2>1. UNCHANGED job
    BY <1>4 DEF Step, CheckAccess, ProviderAccepts, SubmitRejected, SubmitReturns, Poll, Store,
                StopProvider
  <2>2. run[w].leased
    BY <1>4, StepLeased
    DEF Step, CheckAccess, ProviderAccepts, SubmitRejected, SubmitReturns, Poll, Store,
        StopProvider, StepPCs
  <2>3. \/ \E r \in Results : Conclude(w, r)
        \/ \E l \in PCs \cap HeldPCs : GoTo(w, l)
    BY <1>4
    DEF Step, CheckAccess, ProviderAccepts, SubmitRejected, SubmitReturns, Poll, Store,
        StopProvider, Results, PCs, HeldPCs, StepPCs, FinalPCs
  <2>4. Steps(w)
    BY <1>1, <2>2, <2>3, GoToSteps, ConcludeSteps
  <2>5. QED BY <1>1, <2>1, <2>4, SameJobLease, QuietLease
<1>5. CASE MarkSubmit(w)
  <2>1. run[w].leased /\ i \in Jobs /\ job[i] \in JobDoc
    BY <1>5, StepLeased DEF MarkSubmit, StepPCs
  <2>2. Steps(w)
    BY <1>1, <1>5, <2>1, GoToSteps, ConcludeSteps DEF MarkSubmit, PCs, Results, HeldPCs, StepPCs
  <2>3. IsSync(i) \in BOOLEAN
    BY DEF IsSync
  <2>4. SameLease(job[i], SubmitMarked(job[i], IsSync(i)))
    BY <2>1, <2>3, MarkedFields
  <2>5. LeaseKept
    BY <1>5, <2>1, <2>4, WriteLease, SameJobLease DEF MarkSubmit
  <2>6. QED BY <1>1, <2>2, <2>5, QuietLease
<1>6. CASE Commit(w)
  <2>1. Holds(w, i) /\ i \in Jobs /\ job[i].lease = w
    BY <1>6, StepLeased, HoldsLease DEF Commit, StepPCs
  <2>2. \A j \in Jobs : j # i => job'[j] = job[j]
    BY <1>6, <2>1 DEF Commit, Write, TypeInv, TypeOK
  <2>3. Steps(w) /\ ~run'[w].leased
    <3>1. CASE End(w)
      BY <1>1, <3>1, EndSteps, EndFields DEF TypeInv
    <3>2. CASE ~End(w)
      <4> DEFINE d == Released(Applied(job[i], run[w].doc, run[w].result))
                 l == IF run[w].result \in TerminalResults THEN "claim" ELSE "send"
      <4>1. run' = [run EXCEPT ![w] = [@ EXCEPT !.doc = d, !.leased = FALSE, !.pc = l]]
            /\ l \in {"claim", "send"}
        BY <1>6, <3>2 DEF Commit
      <4> HIDE DEF d, l
      <4>2. run'[w].pc = l /\ run'[w].leased = FALSE
            /\ \A q \in Procs : q # w => run'[q] = run[q]
        BY <1>1, <4>1 DEF TypeInv, TypeOK, Run
      <4>3. QED BY <4>1, <4>2 DEF Steps, StepPCs
    <3>3. QED BY <3>1, <3>2
  <2>4. i \in Jobs /\ \A v \in Workers : Holds(v, i) => v = w
    BY <1>6, StepLeased, HoldsLease DEF Commit, StepPCs
  <2>5. QED BY <1>1, <2>2, <2>3, <2>4, FreedLease
<1>7. CASE Send(w) \/ SendFails(w)
  BY <1>1, <1>7, EndSteps, SameJobLease, QuietLease DEF Send, SendFails
<1>8. CASE Release(w)
  <2>1. run[w].leased
    BY <1>8 DEF Release, At, LeaseInv, LeaseFine
  <2>2. i \in Jobs /\ Holds(w, i) /\ \A v \in Workers : Holds(v, i) => v = w
    BY <2>1, LeasedJob, HoldsLease DEF Holds
  <2>3. \A j \in Jobs : j # i => job'[j] = job[j]
    BY <1>8, <2>2 DEF Release, Write, TypeInv, TypeOK
  <2>4. Steps(w) /\ ~run'[w].leased
    BY <1>1, <1>8, EndSteps, EndFields DEF Release, TypeInv
  <2>5. QED BY <1>1, <2>2, <2>3, <2>4, FreedLease
<1>9. QED
  BY <1>2, <1>3, <1>4, <1>5, <1>6, <1>7, <1>8 DEF Work

LEMMA FinishLease ==
  ASSUME TypeInv, LeaseInv, NEW p \in Procs, Finish(p) \/ Crash(p)
  PROVE  LeaseInv'
<1>1. PICK j \in Jobs : j = run[p].job /\ job[j] \in JobDoc
  <2>1. ~At(p, "idle")
    BY DEF Finish, Claim, Settle, RecordSettlement, MarkHandled, Crash, At
  <2>2. QED BY <2>1 DEF At, TypeInv, TypeOK, ProcOK, ProcFine
<1>2. Steps(p)
  <2>1. \/ \E l \in {"settle", "record", "finish"} : GoTo(p, l)
        \/ Leave(p) \/ End(p)
    BY DEF Finish, Claim, Settle, RecordSettlement, MarkHandled, Crash
  <2>2. QED BY <2>1, GoToSteps, LeaveSteps, EndSteps DEF PCs, HeldPCs, FinalPCs
<1>3. LeaseKept
  <2>1. UNCHANGED job \/ \E e : Write(j, e) /\ SameLease(job[j], e)
    BY <1>1, FinishWrites
  <2>2. QED BY <2>1, WriteLease, SameJobLease
<1>4. QED BY <1>2, <1>3, QuietLease

LEMMA OtherLease ==
  ASSUME TypeInv, LeaseInv, HardKill, NEW j \in Jobs,
         Clock(j) \/ RequestCancel(j) \/ Sweep(j) \/ LoseMessage(j)
  PROVE  LeaseInv'
<1>1. job[j] \in JobDoc /\ j \in Procs /\ j \notin Workers
  BY JobsAssumption DEF TypeInv, TypeOK, Procs
<1>2. UNCHANGED run
  BY DEF Clock, BecomesDue, DeadlinePasses, LeaseExpires, ClaimAges, RequestCancel, Sweep,
         LoseMessage
<1>3. Steps(j)
  BY <1>1, <1>2, SameRunSteps
<1>4. CASE LeaseExpires(j)
  <2>1. \A i \in Jobs : i # j => job'[i] = job[i]
    BY <1>4, WriteOne DEF LeaseExpires, TypeInv
  <2>2. \A w \in Workers : ~Holds(w, j)
    BY <1>4, HoldsLease DEF LeaseExpires, Holds
  <2>3. QED BY <1>1, <1>3, <2>1, <2>2, FreedLease
<1>5. CASE ~LeaseExpires(j)
  <2>1. UNCHANGED job \/ \E e : Write(j, e) /\ SameLease(job[j], e)
    BY <1>5, OtherWrites
  <2>2. LeaseKept
    BY <2>1, WriteLease, SameJobLease
  <2>3. QED BY <1>1, <1>3, <2>2, QuietLease
<1>6. QED BY <1>4, <1>5

LEMMA InitLease == Init => LeaseInv
<1> SUFFICES ASSUME Init, NEW w \in Workers PROVE LeaseFine(w)
  BY DEF LeaseInv
<1>1. run[w] = Rest
  BY JobsAssumption DEF Init, Procs
<1>2. QED BY <1>1 DEF Rest, Task, LeaseFine, StepPCs

LEMMA LeaseStep == HardKill /\ TypeInv /\ LeaseInv /\ [Next]_vars => LeaseInv'
<1> SUFFICES ASSUME HardKill, TypeInv, LeaseInv, [Next]_vars PROVE LeaseInv'
  OBVIOUS
<1>1. CASE UNCHANGED vars
  BY <1>1 DEF vars, LeaseInv, LeaseFine
<1>2. CASE Next
  BY <1>2, CreateLease, WorkLease, FinishLease, OtherLease DEF Next
<1>3. QED BY <1>1, <1>2

-----------------------------------------------------------------------------
(* What a step knows of its job.                                             *)

\* What the steps do that no step of another worker can notice.
CoreKept(i) ==
  /\ SameCore(job[i], job'[i])
  /\ gens'[i] = gens[i]
  /\ job'[i].nextPoll = job[i].nextPoll \/ job'[i].nextPoll = "due"
  /\ SameAsk(job[i], job'[i])
NoStep(w) == run'[w] = run[w] \/ run'[w].pc \notin StepPCs

LEMMA JobFineKept ==
  ASSUME NEW i \in Jobs, JobFine(i), CoreKept(i)
  PROVE  JobFine(i)'
BY DEF JobFine, CoreKept, SameCore, SameAsk, IsSync

LEMMA StepFineKept ==
  ASSUME TypeInv, LeaseInv, NEW w \in Workers, StepFine(w), NoStep(w),
         \A i \in Jobs : Holds(w, i) => CoreKept(i)
  PROVE  StepFine(w)'
<1>1. CASE run'[w].pc \notin StepPCs
  BY <1>1 DEF StepFine, StepPCs
<1>2. CASE run'[w] = run[w] /\ run[w].pc \in StepPCs
  <2>1. CoreKept(run[w].job)
    BY <1>2, StepLeased DEF At
  <2>2. QED BY <1>2, <2>1 DEF StepFine, StepPCs, CoreKept, SameCore, SameAsk, IsSync
<1>3. QED BY <1>1, <1>2 DEF NoStep

LEMMA QuietState ==
  ASSUME TypeInv, LeaseInv, StateInv,
         \A i \in Jobs : CoreKept(i), \A w \in Workers : NoStep(w)
  PROVE  StateInv'
BY JobFineKept, StepFineKept DEF StateInv

\* A step of p that touches one job, which nobody else holds.
LEMMA OthersState ==
  ASSUME TypeInv, LeaseInv, StateInv, NEW p \in Procs, NEW j \in Jobs,
         \A q \in Procs : q # p => run'[q] = run[q],
         \A i \in Jobs : i # j => job'[i] = job[i] /\ gens'[i] = gens[i],
         \A v \in Workers : Holds(v, j) => v = p,
         JobFine(j)', p \in Workers => StepFine(p)'
  PROVE  StateInv'
<1>1. \A i \in Jobs : i # j => CoreKept(i)
  BY DEF CoreKept, SameCore, SameAsk
<1>2. ASSUME NEW i \in Jobs PROVE JobFine(i)'
  BY <1>1, JobFineKept DEF StateInv
<1>3. ASSUME NEW v \in Workers PROVE StepFine(v)'
  <2>1. CASE v = p
    BY <2>1
  <2>2. CASE v # p
    <3>1. \A i \in Jobs : Holds(v, i) => CoreKept(i)
      BY <1>1, <2>2
    <3>2. run'[v] = run[v]
      BY <2>2 DEF Procs
    <3>3. QED BY <3>1, <3>2, StepFineKept DEF StateInv, NoStep
  <2>3. QED BY <2>1, <2>2
<1>4. QED BY <1>2, <1>3 DEF StateInv

LEMMA SameJobCore == ASSUME UNCHANGED << job, gens >> PROVE \A i \in Jobs : CoreKept(i)
BY DEF CoreKept, SameCore, SameAsk

LEMMA WriteCore ==
  ASSUME TypeInv, NEW j \in Jobs, NEW e, Write(j, e), UNCHANGED gens,
         SameCore(job[j], e), SameAsk(job[j], e), e.nextPoll \in {job[j].nextPoll, "due"}
  PROVE  \A i \in Jobs : CoreKept(i)
BY WriteOne DEF TypeInv, CoreKept, SameCore, SameAsk

LEMMA HolderAlone ==
  ASSUME TypeInv, LeaseInv, NEW w \in Workers, NEW l \in StepPCs, At(w, l), NEW v \in Workers,
         Holds(v, run[w].job)
  PROVE  v = w
<1>1. Holds(w, run[w].job) /\ run[w].job \in Jobs
  BY StepLeased
<1>2. QED BY <1>1, HoldsLease

\* A step that has its result and has yet to write it.
LEMMA ConcludeMore ==
  ASSUME TypeInv, NEW w \in Workers, NEW r \in Results, Conclude(w, r)
  PROVE  /\ run'[w].result = r \/ (r = "retry" /\ run'[w].result = "exhausted")
         /\ run'[w].pc = IF run[w].doc.state = "running" /\ run'[w].result \in StopsProvider
                           THEN "stop" ELSE "commit"
         /\ run'[w].doc = run[w].doc
         /\ run'[w].job = run[w].job
         /\ run'[w].leased = run[w].leased
         /\ \A q \in Procs : q # w => run'[q] = run[q]
<1> DEFINE d == run[w].doc
           outcome == IF r = "retry" /\ d.attempts + 1 >= MaxStepAttempts
                        THEN "exhausted" ELSE r
           l == IF d.state = "running" /\ outcome \in StopsProvider THEN "stop" ELSE "commit"
<1>1. run' = [run EXCEPT ![w].result = outcome, ![w].pc = l]
  BY DEF Conclude
<1>2. outcome = r \/ (r = "retry" /\ outcome = "exhausted")
  OBVIOUS
<1> HIDE DEF outcome
<1>3. run'[w].result = outcome /\ run'[w].pc = l /\ run'[w].doc = d
      /\ run'[w].job = run[w].job /\ run'[w].leased = run[w].leased
      /\ \A q \in Procs : q # w => run'[q] = run[q]
  BY <1>1 DEF TypeInv, TypeOK, Run, Procs
<1>4. QED BY <1>2, <1>3

LEMMA ConcludeState ==
  ASSUME TypeInv, LeaseInv, StateInv, NEW w \in Workers, NEW r \in Results, Conclude(w, r),
         NEW l \in StepPCs, At(w, l), UNCHANGED << job, gens >>,
         LET d == run[w].doc
             j == run[w].job
         IN /\ Read(d, job[j].state, IsSync(j))
            /\ r \in Outcomes(job[j].state, IsSync(j))
            /\ r = "retry" /\ d.state = "pending" => gens[j] = 0
            /\ r \in {"running", "blocked", "billed_block"} => gens[j] > 0
            /\ r = "succeeded" /\ IsSync(j) => gens[j] > 0
            /\ r = "cancelled" => job[j].cancelRequested
  PROVE  StateInv'
<1>0. PICK j \in Jobs : j = run[w].job
  BY StepLeased
<1>1. w \in Procs
  BY DEF Procs
<1>2. run[w].doc.handle = job[j].handle
  BY <1>0 DEF At, StateInv, StepFine
<1>3. run'[w].result \in Outcomes(job[j].state, IsSync(j))
  BY <1>0, ConcludeMore DEF Outcomes, Failing
<1>4. StepFine(w)'
  <2>1. IsSync(j)' = IsSync(j)
    BY DEF IsSync
  <2>2. run'[w].pc \in {"stop", "commit"}
    BY ConcludeMore
  <2>3. run'[w].result # "exhausted" => run'[w].result = r
    BY ConcludeMore
  <2>4. run'[w].pc = "stop" => run[w].doc.state = "running" /\ run'[w].result \in StopsProvider
    BY ConcludeMore
  <2>5. run'[w].doc = run[w].doc /\ run'[w].job = j
    BY <1>0, ConcludeMore
  <2>6. QED BY <1>0, <1>2, <1>3, <2>1, <2>2, <2>3, <2>4, <2>5 DEF StepFine
<1>5. JobFine(j)'
  BY <1>1, JobFineKept, SameJobCore DEF StateInv
<1>6. QED BY <1>0, <1>1, <1>4, <1>5, ConcludeMore, HolderAlone, OthersState

LEMMA CreateState ==
  ASSUME TypeInv, LeaseInv, StateInv, NEW j \in Jobs, Create(j)
  PROVE  StateInv'
<1>1. j \in Procs /\ j \notin Workers /\ job[j] \in JobDoc
  BY JobsAssumption DEF Procs, TypeInv, TypeOK
<1>2. CASE ~(FailBeforeStart(j) /\ UnstartedGuard(job[j]))
  <2>1. UNCHANGED << job, gens >>
    BY <1>2 DEF Create, EnqueueFirst, EnqueueFirstFails, FailBeforeStart, provider
  <2>2. GoTo(j, "unqueued") \/ End(j)
    BY <1>2 DEF Create, EnqueueFirst, EnqueueFirstFails, FailBeforeStart
  <2>3. \A q \in Procs : q # j => run'[q] = run[q]
    BY <1>1, <2>2, GoToFields, EndFields DEF TypeInv, PCs
  <2>4. QED BY <1>1, <2>1, <2>3, SameJobCore, QuietState DEF NoStep, Procs
<1>3. CASE FailBeforeStart(j) /\ UnstartedGuard(job[j])
  <2> DEFINE e == [Released(job[j]) EXCEPT !.state = "failed", !.nextPoll = "none"]
  <2>1. Write(j, e) /\ run' = [run EXCEPT ![j].pc = "claim", ![j].doc = e] /\ UNCHANGED gens
    BY <1>3 DEF FailBeforeStart, provider
  <2>2. /\ e.kind = job[j].kind /\ e.handle = job[j].handle /\ e.state = "failed"
        /\ e.submitAttempted = job[j].submitAttempted
        /\ e.cancelRequested = job[j].cancelRequested
    BY <1>1, FailedFields DEF SameAsk
  <2> HIDE DEF e
  <2>3. job'[j] = e /\ \A i \in Jobs : i # j => job'[i] = job[i]
    BY <2>1, WriteOne DEF TypeInv
  <2>4. \A q \in Procs : q # j => run'[q] = run[q]
    BY <1>1, <2>1 DEF TypeInv, TypeOK
  <2>5. \A w \in Workers : ~Holds(w, j)
    BY <1>3, UnleasedHolds DEF UnstartedGuard
  <2>6. JobFine(j)'
    <3>1. JobFine(j) /\ job[j].state = "pending"
      BY <1>3 DEF StateInv, UnstartedGuard
    <3>2. QED BY <2>1, <2>2, <2>3, <3>1 DEF JobFine, IsSync, NonTerminal
  <2>7. QED BY <1>1, <2>1, <2>3, <2>4, <2>5, <2>6, OthersState
<1>4. QED BY <1>2, <1>3

LEMMA AcquireState ==
  ASSUME TypeInv, LeaseInv, StateInv, NEW w \in Workers, NEW j \in Jobs, Acquire(w, j)
  PROVE  StateInv'
<1> DEFINE d == Leased(job[j], w)
<1>1. job[j] \in JobDoc /\ w \in Procs /\ w \notin Jobs
  BY JobsAssumption DEF Procs, TypeInv, TypeOK
<1>2. SameCore(job[j], d) /\ SameAsk(job[j], d) /\ SamePoll(job[j], d)
  BY <1>1, LeasedFields
<1>3. Write(j, d) /\ UNCHANGED gens /\ run' = [run EXCEPT ![w] =
        [pc |-> "step", job |-> j, doc |-> d, result |-> "release", leased |-> TRUE]]
  BY DEF Acquire, provider
<1> HIDE DEF d
<1>4. job'[j] = d /\ \A i \in Jobs : i # j => job'[i] = job[i]
  BY <1>3, WriteOne DEF TypeInv
<1>5. /\ run'[w].pc = "step" /\ run'[w].job = j /\ run'[w].doc = d
      /\ \A q \in Procs : q # w => run'[q] = run[q]
  BY <1>1, <1>3 DEF TypeInv, TypeOK
<1>6. \A v \in Workers : ~Holds(v, j)
  BY UnleasedHolds DEF Acquire, Leasable
<1>7. JobFine(j)'
  BY <1>2, <1>3, <1>4, JobFineKept DEF StateInv, CoreKept, SamePoll
<1>8. StepFine(w)'
  BY <1>2, <1>4, <1>5 DEF StepFine, SameCore
<1>9. QED BY <1>1, <1>3, <1>4, <1>5, <1>6, <1>7, <1>8, OthersState

LEMMA StepState ==
  ASSUME TypeInv, LeaseInv, StateInv, NEW w \in Workers, Step(w)
  PROVE  StateInv'
<1>1. PICK j \in Jobs : j = run[w].job
  BY StepLeased DEF Step, StepPCs
<1>2. PICK d \in JobDoc : d = run[w].doc
  BY DEF TypeInv, TypeOK, Run, Procs
<1>3. /\ d.handle = job[j].handle /\ d.state = job[j].state
      /\ d.submitAttempted = job[j].submitAttempted
      /\ d.cancelRequested => job[j].cancelRequested
      /\ JobFine(j)
  BY <1>1, <1>2 DEF Step, At, StateInv, StepFine, StepPCs
<1>4. At(w, "step") /\ UNCHANGED << job, gens >> /\ w \in Procs
  BY DEF Step, provider, Procs
<1>5. d.state \in States
  BY DEF JobDoc
<1>6. ASSUME NEW r \in {"orphaned", "cancelled", "timeout", "release"}, Conclude(w, r),
             r = Branch(d, IsSync(j)) \/ (r = "release" /\ Branch(d, IsSync(j)) = "early")
      PROVE  StateInv'
  <2>1. r \in Results
    BY DEF Results
  <2>2. Read(d, job[j].state, IsSync(j))
    BY <1>3 DEF Read
  <2>3. r \in Outcomes(job[j].state, IsSync(j))
    BY <1>3, <1>5, <1>6 DEF Branch, Orphaned, Outcomes, Failing, JobFine, States, Terminal,
                            NonTerminal
  <2>4. r = "cancelled" => job[j].cancelRequested
    BY <1>3, <1>5, <1>6 DEF Branch, States, Terminal, NonTerminal
  <2>5. QED BY <1>1, <1>2, <1>4, <1>6, <2>1, <2>2, <2>3, <2>4, ConcludeState DEF StepPCs
<1>7. ASSUME NEW l \in {"claim", "access", "poll", "store"}, GoTo(w, l),
             \/ Branch(d, IsSync(j)) = "terminal" /\ l = "claim"
             \/ Branch(d, IsSync(j)) = "pending" /\ l = "access"
             \/ Branch(d, IsSync(j)) = "running" /\ l = "poll"
             \/ Branch(d, IsSync(j)) = "storing" /\ l = "store"
      PROVE  StateInv'
  <2>1. /\ run'[w].pc = l /\ run'[w].job = j /\ run'[w].doc = d
        /\ \A q \in Procs : q # w => run'[q] = run[q]
    BY <1>1, <1>2, <1>4, <1>7, GoToFields DEF TypeInv, PCs
  <2>2. l = "access" => d.state = "pending" /\ ~d.submitAttempted
    BY <1>5, <1>7 DEF Branch, Orphaned, States, Terminal, NonTerminal
  <2>3. l = "poll" => d.state = "running" /\ ~IsSync(j)
    BY <1>3, <1>5, <1>7 DEF Branch, Orphaned, States, Terminal, NonTerminal, JobFine
  <2>4. l = "store" => d.state = "storing" /\ ~IsSync(j)
    BY <1>3, <1>5, <1>7 DEF Branch, Orphaned, States, Terminal, NonTerminal, JobFine
  <2>5. IsSync(j)' = IsSync(j)
    BY <1>4 DEF IsSync
  <2>6. StepFine(w)'
    BY <1>3, <1>4, <2>1, <2>2, <2>3, <2>4, <2>5 DEF StepFine
  <2>7. JobFine(j)'
    BY <1>4, JobFineKept, SameJobCore DEF StateInv
  <2>8. QED BY <1>1, <1>4, <2>1, <2>6, <2>7, HolderAlone, OthersState DEF StepPCs
<1>8. QED BY <1>1, <1>2, <1>6, <1>7 DEF Step

LEMMA CheckAccessState ==
  ASSUME TypeInv, LeaseInv, StateInv, NEW w \in Workers, CheckAccess(w)
  PROVE  StateInv'
<1>1. PICK j \in Jobs : j = run[w].job
  BY StepLeased DEF CheckAccess, StepPCs
<1>2. At(w, "access") /\ UNCHANGED << job, gens >> /\ w \in Procs
  BY DEF CheckAccess, provider, Procs
<1>3. /\ run[w].doc.state = "pending" /\ job[j].state = "pending" /\ ~job[j].submitAttempted
      /\ run[w].doc.handle = job[j].handle
  BY <1>1, <1>2 DEF At, StateInv, StepFine, StepPCs
<1>4. CASE Conclude(w, "failed")
  BY <1>1, <1>2, <1>3, <1>4, ConcludeState DEF Results, StepPCs, Read, Outcomes, Failing
<1>5. CASE GoTo(w, "mark")
  <2>1. /\ run'[w].pc = "mark" /\ run'[w].job = j /\ run'[w].doc = run[w].doc
        /\ \A q \in Procs : q # w => run'[q] = run[q]
    BY <1>1, <1>2, <1>5, GoToFields DEF TypeInv, PCs
  <2>2. StepFine(w)'
    BY <1>2, <1>3, <2>1 DEF StepFine
  <2>3. JobFine(j)'
    BY <1>2, JobFineKept, SameJobCore DEF StateInv
  <2>4. QED BY <1>1, <1>2, <2>1, <2>2, <2>3, HolderAlone, OthersState DEF StepPCs
<1>6. QED BY <1>4, <1>5 DEF CheckAccess

LEMMA MarkSubmitState ==
  ASSUME TypeInv, LeaseInv, StateInv, NEW w \in Workers, MarkSubmit(w)
  PROVE  StateInv'
<1>1. PICK j \in Jobs : j = run[w].job /\ job[j] \in JobDoc
  BY StepLeased DEF MarkSubmit, StepPCs
<1>2. At(w, "mark") /\ UNCHANGED gens /\ w \in Procs
  BY DEF MarkSubmit, provider, Procs
<1>3. /\ run[w].doc.state = "pending" /\ job[j].state = "pending" /\ ~job[j].submitAttempted
      /\ run[w].doc.handle = job[j].handle /\ JobFine(j)
  BY <1>1, <1>2 DEF At, StateInv, StepFine, StepPCs
<1>4. CASE ~CanMarkSubmit(job[j])
  BY <1>1, <1>2, <1>3, <1>4, ConcludeState
  DEF MarkSubmit, CanMarkSubmit, Results, StepPCs, Read, Outcomes
<1>5. CASE CanMarkSubmit(job[j])
  <2> DEFINE e == SubmitMarked(job[j], IsSync(j))
  <2>1. Write(j, e) /\ GoTo(w, "submit")
    BY <1>1, <1>5 DEF MarkSubmit
  <2>2. IsSync(j) \in BOOLEAN
    BY DEF IsSync
  <2>3. /\ e.kind = job[j].kind /\ e.handle = job[j].handle /\ e.submitAttempted
        /\ e.state = IF IsSync(j) THEN "running" ELSE "pending"
        /\ e.cancelRequested = job[j].cancelRequested /\ e.nextPoll = job[j].nextPoll
    BY <1>1, <1>3, <2>2, MarkedFields DEF SameAsk, SamePoll
  <2> HIDE DEF e
  <2>4. job'[j] = e /\ \A i \in Jobs : i # j => job'[i] = job[i]
    BY <2>1, WriteOne DEF TypeInv
  <2>5. /\ run'[w].pc = "submit" /\ run'[w].job = j /\ run'[w].doc = run[w].doc
        /\ \A q \in Procs : q # w => run'[q] = run[q]
    BY <1>1, <1>2, <2>1, GoToFields DEF TypeInv, PCs
  <2>6. IsSync(j)' = IsSync(j)
    BY <2>3, <2>4 DEF IsSync
  <2>7. gens[j] = 0
    BY <1>3 DEF JobFine, TypeInv, TypeOK
  <2>8. JobFine(j)'
    BY <1>2, <1>3, <2>3, <2>4, <2>6, <2>7 DEF JobFine, NonTerminal
  <2>9. StepFine(w)'
    BY <1>2, <1>3, <1>5, <2>3, <2>4, <2>5, <2>6, <2>7 DEF StepFine, CanMarkSubmit
  <2>10. QED
    BY <1>1, <1>2, <2>4, <2>5, <2>8, <2>9, HolderAlone, OthersState DEF StepPCs
<1>6. QED BY <1>4, <1>5

LEMMA SubmitFacts ==
  ASSUME TypeInv, LeaseInv, StateInv, NEW w \in Workers, At(w, "submit") \/ At(w, "submitted"),
         NEW j \in Jobs, j = run[w].job
  PROVE  /\ run[w].doc.state = "pending" /\ run[w].doc.handle = job[j].handle
         /\ job[j].state = IF IsSync(j) THEN "running" ELSE "pending"
         /\ job[j].submitAttempted
         /\ IsSync(j) => ~job[j].cancelRequested
         /\ At(w, "submit") => gens[j] = 0
         /\ At(w, "submitted") => gens[j] > 0
         /\ JobFine(j)
BY DEF At, StateInv, StepFine, StepPCs

LEMMA ProviderAcceptsState ==
  ASSUME TypeInv, LeaseInv, StateInv, NEW w \in Workers, ProviderAccepts(w)
  PROVE  StateInv'
<1>1. PICK j \in Jobs : j = run[w].job
  BY StepLeased DEF ProviderAccepts, StepPCs
<1>2. At(w, "submit") /\ UNCHANGED job /\ w \in Procs
  BY DEF ProviderAccepts, Procs
<1>3. gens'[j] = 1 /\ \A i \in Jobs : i # j => gens'[i] = gens[i]
  BY <1>1, <1>2, SubmitFacts DEF ProviderAccepts, TypeInv, TypeOK
<1>4. /\ run'[w].pc = "submitted" /\ run'[w].job = j /\ run'[w].doc = run[w].doc
      /\ \A q \in Procs : q # w => run'[q] = run[q]
  BY <1>1, <1>2, GoToFields DEF ProviderAccepts, TypeInv, PCs
<1>5. IsSync(j)' = IsSync(j)
  BY <1>2 DEF IsSync
<1>6. JobFine(j)'
  BY <1>1, <1>2, <1>3, <1>5, SubmitFacts DEF JobFine
<1>7. StepFine(w)'
  BY <1>1, <1>2, <1>3, <1>4, <1>5, SubmitFacts DEF StepFine
<1>8. QED BY <1>1, <1>2, <1>3, <1>4, <1>6, <1>7, HolderAlone, OthersState DEF StepPCs

LEMMA SubmitEndsState ==
  ASSUME TypeInv, LeaseInv, StateInv, NEW w \in Workers, SubmitRejected(w) \/ SubmitReturns(w)
  PROVE  StateInv'
<1>1. PICK j \in Jobs : j = run[w].job
  BY StepLeased DEF SubmitRejected, SubmitReturns, StepPCs
<1>2. At(w, "submit") \/ At(w, "submitted")
  BY DEF SubmitRejected, SubmitReturns
<1>3. PICK r : /\ Conclude(w, r)
               /\ \/ At(w, "submit") /\ r \in {"retry", "failed", "orphaned"}
                  \/ At(w, "submitted") /\ r \in
                       IF IsSync(j) THEN {"succeeded", "failed", "blocked", "billed_block", "orphaned"}
                                    ELSE {"running", "orphaned"}
  BY <1>1 DEF SubmitRejected, SubmitReturns
<1>4. UNCHANGED << job, gens >>
  BY DEF SubmitRejected, SubmitReturns, provider
<1>5. r \in Results
  BY <1>3 DEF Results
<1>6. /\ Read(run[w].doc, job[j].state, IsSync(j))
      /\ r \in Outcomes(job[j].state, IsSync(j))
      /\ r = "retry" => gens[j] = 0
      /\ r \in {"running", "succeeded", "blocked", "billed_block"} => gens[j] > 0
      /\ r # "cancelled"
  BY <1>1, <1>2, <1>3, SubmitFacts DEF Read, Outcomes, Failing, At
<1>7. QED BY <1>1, <1>2, <1>3, <1>4, <1>5, <1>6, ConcludeState DEF StepPCs

LEMMA PollState ==
  ASSUME TypeInv, LeaseInv, StateInv, NEW w \in Workers, Poll(w)
  PROVE  StateInv'
<1>1. PICK j \in Jobs : j = run[w].job
  BY StepLeased DEF Poll, StepPCs
<1>2. PICK r \in {"poll_again", "storing", "blocked", "billed_block", "retry", "failed"} :
        Conclude(w, r)
  BY DEF Poll
<1>3. At(w, "poll") /\ UNCHANGED << job, gens >>
  BY DEF Poll
<1>4. run[w].doc.state = "running" /\ job[j].state = "running" /\ ~IsSync(j) /\ JobFine(j)
  BY <1>1, <1>3 DEF At, StateInv, StepFine, StepPCs
<1>5. r \in Results
  BY DEF Results
<1>6. Read(run[w].doc, job[j].state, IsSync(j)) /\ r \in Outcomes(job[j].state, IsSync(j))
      /\ gens[j] > 0
  BY <1>4 DEF Read, Outcomes, Failing, JobFine
<1>7. QED BY <1>1, <1>2, <1>3, <1>4, <1>5, <1>6, ConcludeState DEF StepPCs

LEMMA StoreState ==
  ASSUME TypeInv, LeaseInv, StateInv, NEW w \in Workers, Store(w)
  PROVE  StateInv'
<1>1. PICK j \in Jobs : j = run[w].job
  BY StepLeased DEF Store, StepPCs
<1>2. PICK r \in {"succeeded", "failed", "retry"} : Conclude(w, r)
  BY DEF Store
<1>3. At(w, "store") /\ UNCHANGED << job, gens >>
  BY DEF Store, provider
<1>4. run[w].doc.state = "storing" /\ job[j].state = "storing" /\ ~IsSync(j)
  BY <1>1, <1>3 DEF At, StateInv, StepFine, StepPCs
<1>5. r \in Results
  BY DEF Results
<1>6. Read(run[w].doc, job[j].state, IsSync(j)) /\ r \in Outcomes(job[j].state, IsSync(j))
  BY <1>4 DEF Read, Outcomes, Failing
<1>7. QED BY <1>1, <1>2, <1>3, <1>4, <1>5, <1>6, ConcludeState DEF StepPCs

LEMMA StopProviderState ==
  ASSUME TypeInv, LeaseInv, StateInv, NEW w \in Workers, StopProvider(w)
  PROVE  StateInv'
<1>1. PICK j \in Jobs : j = run[w].job
  BY StepLeased DEF StopProvider, StepPCs
<1>2. At(w, "stop") /\ UNCHANGED << job, gens >> /\ w \in Procs
  BY DEF StopProvider, Procs
<1>3. /\ run'[w].pc = "commit" /\ run'[w].job = j /\ run'[w].doc = run[w].doc
      /\ run'[w].result = run[w].result
      /\ \A q \in Procs : q # w => run'[q] = run[q]
  BY <1>1, <1>2, GoToFields DEF StopProvider, TypeInv, PCs
<1>4. IsSync(j)' = IsSync(j)
  BY <1>2 DEF IsSync
<1>5. StepFine(w)'
  BY <1>1, <1>2, <1>3, <1>4 DEF StepFine, StateInv, At, StepPCs
<1>6. JobFine(j)'
  BY <1>2, JobFineKept, SameJobCore DEF StateInv
<1>7. QED BY <1>1, <1>2, <1>3, <1>5, <1>6, HolderAlone, OthersState DEF StepPCs

\* What an accepted commit writes, and where it leaves its worker.
LEMMA CommitFacts ==
  ASSUME TypeInv, LeaseInv, StateInv, NEW w \in Workers, Commit(w), NEW j \in Jobs,
         j = run[w].job, LeaseGuard(job[j], w), NEW r, r = run[w].result,
         NEW d, d = run[w].doc, NEW e, e = job'[j]
  PROVE  /\ e.kind = job[j].kind
         /\ e.state = StateAfter(job[j], d, r)
         /\ Resubmits(d, r) => ~e.submitAttempted
         /\ ~Resubmits(d, r) => e.submitAttempted = job[j].submitAttempted
         /\ r = "running" => e.handle
         /\ r # "running" => e.handle = job[j].handle
         /\ r = "billed_block" => e.billedBlock
         /\ r # "billed_block" => e.billedBlock = job[j].billedBlock
         /\ e.nextPoll = NextPollAfter(job[j], r)
         /\ SameClaim(job[j], e) /\ SameAsk(job[j], e)
         /\ \A i \in Jobs : i # j => job'[i] = job[i]
         /\ \A q \in Procs : q # w => run'[q] = run[q]
         /\ \/ r = "release" /\ run'[w].pc = "idle"
            \/ r \in TerminalResults /\ run'[w].pc = "claim" /\ run'[w].doc = e
               /\ run'[w].job = j
            \/ run'[w].pc = "send"
<1>1. job[j] \in JobDoc /\ w \in Procs /\ run[w].doc \in JobDoc /\ r \in Results
      /\ (r = "retry" => d.attempts + 1 < MaxStepAttempts)
  BY DEF Commit, At, TypeInv, TypeOK, Run, ProcOK, ProcFine, Procs
<1> DEFINE a == Applied(job[j], d, r)
           l == IF r \in TerminalResults THEN "claim" ELSE "send"
<1>2. a \in JobDoc
  BY <1>1, AppliedType
<1>3. Write(j, Released(a))
  BY DEF Commit
<1>4. e = Released(a) /\ \A i \in Jobs : i # j => job'[i] = job[i]
  BY <1>3, WriteOne DEF TypeInv
<1>5. SameCore(a, e) /\ SameClaim(a, e) /\ SameAsk(a, e) /\ SamePoll(a, e)
  BY <1>2, <1>4, ReleasedFields
<1>6. /\ a.kind = job[j].kind
      /\ a.state = StateAfter(job[j], d, r)
      /\ Resubmits(d, r) => ~a.submitAttempted
      /\ ~Resubmits(d, r) => a.submitAttempted = job[j].submitAttempted
      /\ r = "running" => a.handle
      /\ r # "running" => a.handle = job[j].handle
      /\ r = "billed_block" => a.billedBlock
      /\ r # "billed_block" => a.billedBlock = job[j].billedBlock
      /\ a.nextPoll = NextPollAfter(job[j], r)
      /\ SameClaim(job[j], a) /\ SameAsk(job[j], a)
  <2>1. d \in JobDoc /\ job[j] \in JobDoc /\ r \in Results
    BY <1>1
  <2> HIDE DEF a
  <2>2. a = Applied(job[j], d, r)
    BY DEF a
  <2>3. QED BY <2>1, <2>2, AppliedFields
<1>7. CASE r = "release"
  <2>1. End(w)
    BY <1>7 DEF Commit
  <2>2. run'[w].pc = "idle" /\ \A q \in Procs : q # w => run'[q] = run[q]
    BY <1>1, <2>1, EndFields DEF TypeInv
  <2> HIDE DEF a
  <2>3. QED BY <1>4, <1>5, <1>6, <1>7, <2>2 DEF SameCore, SameClaim, SameAsk, SamePoll
<1>8. CASE r # "release"
  <2>1. run' = [run EXCEPT ![w] = [@ EXCEPT !.doc = e, !.leased = FALSE, !.pc = l]]
    BY <1>4, <1>8 DEF Commit
  <2> HIDE DEF a
  <2>2. /\ run'[w].pc = l /\ run'[w].doc = e /\ run'[w].job = j
        /\ \A q \in Procs : q # w => run'[q] = run[q]
    BY <1>1, <2>1 DEF TypeInv, TypeOK, Run
  <2>3. QED BY <1>4, <1>5, <1>6, <2>2 DEF SameCore, SameClaim, SameAsk, SamePoll
<1>9. QED BY <1>7, <1>8

\* What a step about to commit knows.
LEMMA CommitKnows ==
  ASSUME TypeInv, LeaseInv, StateInv, NEW w \in Workers, At(w, "commit"), NEW j \in Jobs,
         j = run[w].job, NEW r, r = run[w].result, NEW d, d = run[w].doc
  PROVE  /\ Read(d, job[j].state, IsSync(j))
         /\ r \in Outcomes(job[j].state, IsSync(j))
         /\ r = "retry" /\ d.state = "pending" => gens[j] = 0
         /\ r \in {"running", "blocked", "billed_block"} => gens[j] > 0
         /\ r = "succeeded" /\ IsSync(j) => gens[j] > 0
         /\ r = "cancelled" => job[j].cancelRequested
         /\ d.handle = job[j].handle
         /\ JobFine(j)
         /\ job[j].state \in NonTerminal
<1>1. StepFine(w) /\ JobFine(j) /\ run[w].pc = "commit"
  BY DEF StateInv, At
<1>2. r \in Outcomes(job[j].state, IsSync(j))
  BY <1>1 DEF StepFine
<1>3. job[j].state \in NonTerminal
  BY <1>2 DEF Outcomes, NonTerminal
<1>4. QED BY <1>1, <1>3 DEF StepFine, StepPCs

LEMMA CommitState ==
  ASSUME TypeInv, LeaseInv, StateInv, NEW w \in Workers, Commit(w)
  PROVE  StateInv'
<1>1. PICK j \in Jobs : j = run[w].job
  BY StepLeased DEF Commit, StepPCs
<1>2. At(w, "commit") /\ UNCHANGED gens /\ w \in Procs
  BY DEF Commit, provider, Procs
<1>3. CASE ~LeaseGuard(job[j], w)
  <2>1. End(w) /\ UNCHANGED job
    BY <1>1, <1>3 DEF Commit
  <2>2. run'[w].pc = "idle" /\ \A q \in Procs : q # w => run'[q] = run[q]
    BY <1>2, <2>1, EndFields DEF TypeInv
  <2>3. \A v \in Workers : NoStep(v)
    BY <2>2 DEF NoStep, StepPCs, Procs
  <2>4. QED BY <1>2, <2>1, <2>3, SameJobCore, QuietState
<1>4. CASE LeaseGuard(job[j], w)
  <2> DEFINE e == job'[j]
             d == run[w].doc
             r == run[w].result
             s == job[j].state
  <2>1. /\ e.kind = job[j].kind
        /\ e.state = StateAfter(job[j], d, r)
        /\ Resubmits(d, r) => ~e.submitAttempted
        /\ ~Resubmits(d, r) => e.submitAttempted = job[j].submitAttempted
        /\ r = "running" => e.handle
        /\ r # "running" => e.handle = job[j].handle
        /\ e.nextPoll = NextPollAfter(job[j], r)
        /\ e.cancelRequested = job[j].cancelRequested
        /\ \A i \in Jobs : i # j => job'[i] = job[i]
        /\ \A q \in Procs : q # w => run'[q] = run[q]
        /\ run'[w].pc \in {"idle", "claim", "send"}
    BY <1>1, <1>4, CommitFacts DEF SameAsk
  <2>2. /\ Read(d, s, IsSync(j)) /\ r \in Outcomes(s, IsSync(j))
        /\ r = "retry" /\ d.state = "pending" => gens[j] = 0
        /\ r \in {"running", "blocked", "billed_block"} => gens[j] > 0
        /\ r = "succeeded" /\ IsSync(j) => gens[j] > 0
        /\ JobFine(j)
        /\ s \in NonTerminal
    BY <1>1, <1>2, CommitKnows
  <2>3. IsSync(j)' = IsSync(j)
    BY <2>1 DEF IsSync
  <2>4. StepFine(w)'
    BY <2>1 DEF StepFine, StepPCs
  <2> HIDE DEF e, d, r, s
  <2>5. JobFine(j)'
    <3>1. gens'[j] <= 1 /\ (gens'[j] > 0 => e.submitAttempted)
      BY <1>2, <2>1, <2>2 DEF JobFine, Resubmits
    <3>2. e.state \in NonTerminal => e.nextPoll # "none"
      BY <2>1, <2>2
      DEF StateAfter, NextPollAfter, TerminalOf, TerminalResults, FailedResults, BlockedResults,
          NonTerminal, JobFine, Outcomes, Failing, Resubmits, s
    <3>3. CASE IsSync(j)
      <4>1. r \in Failing \cup {"release", "cancelled", "timeout", "retry", "succeeded",
                               "blocked", "billed_block"}
        BY <2>2, <3>3 DEF Outcomes, Failing
      <4>2. e.state \in {"succeeded", "blocked"} => gens[j] > 0
        BY <2>1, <2>2, <3>3, <4>1
        DEF StateAfter, TerminalOf, TerminalResults, FailedResults, BlockedResults, Failing,
            NonTerminal, Resubmits, s
      <4>3. e.state = "running" => e.submitAttempted
        BY <2>1, <2>2, <3>3, <4>1
        DEF StateAfter, TerminalOf, TerminalResults, FailedResults, BlockedResults, Failing,
            JobFine, Resubmits, s
      <4>4. e.state # "storing"
        BY <2>1, <2>2, <3>3, <4>1
        DEF StateAfter, TerminalOf, TerminalResults, FailedResults, BlockedResults, Failing,
            JobFine, Resubmits, s
      <4>5. ~e.handle
        BY <2>1, <2>2, <3>3, <4>1 DEF JobFine, Failing
      <4>6. e.cancelRequested => gens[j] = 0
        BY <2>1, <2>2, <3>3 DEF JobFine
      <4>7. QED BY <1>2, <2>3, <3>1, <3>2, <3>3, <4>2, <4>3, <4>4, <4>5, <4>6 DEF JobFine, e
    <3>4. CASE ~IsSync(j)
      <4>1. d.state = s
        BY <2>2, <3>4 DEF Read
      <4>2. e.state \in {"running", "storing"} => gens[j] > 0
        BY <2>1, <2>2, <3>4, <4>1
        DEF StateAfter, TerminalOf, TerminalResults, FailedResults, BlockedResults, Failing,
            JobFine, Resubmits, Outcomes, s
      <4>3. e.handle => e.state # "pending"
        BY <2>1, <2>2, <3>4, <4>1
        DEF StateAfter, TerminalOf, TerminalResults, FailedResults, BlockedResults, Failing,
            JobFine, Resubmits, Outcomes, s
      <4>4. QED BY <1>2, <2>3, <3>1, <3>2, <3>4, <4>2, <4>3 DEF JobFine, e
    <3>5. QED BY <3>3, <3>4
  <2>6. QED BY <1>1, <1>2, <2>1, <2>4, <2>5, HolderAlone, OthersState DEF StepPCs
<1>5. QED BY <1>3, <1>4

LEMMA WorkState ==
  ASSUME TypeInv, LeaseInv, StateInv, NEW w \in Workers, Work(w)
  PROVE  StateInv'
<1>1. w \in Procs /\ w \notin Jobs
  BY JobsAssumption DEF Procs
<1>2. ASSUME NEW j \in Jobs, SkipDelivery(w, j) PROVE StateInv'
  BY <1>2, SameJobCore, QuietState DEF SkipDelivery, NoStep, provider
<1>3. CASE Send(w) \/ SendFails(w)
  <2>1. UNCHANGED << job, gens >> /\ End(w)
    BY <1>3 DEF Send, SendFails, provider
  <2>2. \A v \in Workers : NoStep(v)
    BY <1>1, <2>1, EndFields DEF TypeInv, NoStep, StepPCs, Procs
  <2>3. QED BY <2>1, <2>2, SameJobCore, QuietState
<1>4. CASE Release(w)
  <2>1. PICK j \in Jobs : j = run[w].job /\ job[j] \in JobDoc
    BY <1>4, LeasedJob DEF Release, At, LeaseInv, LeaseFine
  <2>2. UNCHANGED gens /\ End(w)
    BY <1>4 DEF Release, provider
  <2>3. \A v \in Workers : NoStep(v)
    BY <1>1, <2>2, EndFields DEF TypeInv, NoStep, StepPCs, Procs
  <2>4. UNCHANGED job \/ Write(j, Released(job[j]))
    BY <1>4, <2>1 DEF Release
  <2>5. \A i \in Jobs : CoreKept(i)
    BY <2>1, <2>2, <2>4, ReleasedFields, WriteCore, SameJobCore DEF SamePoll
  <2>6. QED BY <2>3, <2>5, QuietState
<1>5. QED
  BY <1>2, <1>3, <1>4, AcquireState, StepState, CheckAccessState, MarkSubmitState,
     ProviderAcceptsState, SubmitEndsState, PollState, StoreState, StopProviderState,
     CommitState
  DEF Work

LEMMA FinishState ==
  ASSUME TypeInv, LeaseInv, StateInv, NEW p \in Procs, Finish(p) \/ Crash(p)
  PROVE  StateInv'
<1>1. PICK j \in Jobs : j = run[p].job /\ job[j] \in JobDoc
  <2>1. ~At(p, "idle")
    BY DEF Finish, Claim, Settle, RecordSettlement, MarkHandled, Crash, At
  <2>2. QED BY <2>1 DEF At, TypeInv, TypeOK, ProcOK, ProcFine
<1>2. \A v \in Workers : NoStep(v)
  <2>1. \E l \in {"settle", "record", "finish", "release"} : GoTo(p, l) \/ End(p)
    BY DEF Finish, Claim, Settle, RecordSettlement, MarkHandled, Crash, Leave
  <2>2. run'[p].pc \notin StepPCs /\ \A q \in Procs : q # p => run'[q] = run[q]
    BY <2>1, GoToFields, EndFields DEF TypeInv, StepPCs, PCs
  <2>3. QED BY <2>2 DEF NoStep, Procs
<1>3. UNCHANGED gens
  BY DEF Finish, Claim, Settle, RecordSettlement, MarkHandled, Crash, provider
<1>4. \A i \in Jobs : CoreKept(i)
  <2>1. \/ UNCHANGED job
        \/ \E e : /\ Write(j, e) /\ SameCore(job[j], e) /\ SameAsk(job[j], e)
                  /\ SamePoll(job[j], e)
    BY <1>1, FinishWrites
  <2>2. QED BY <1>3, <2>1, WriteCore, SameJobCore DEF SamePoll
<1>5. QED BY <1>2, <1>4, QuietState

LEMMA OtherState ==
  ASSUME TypeInv, LeaseInv, StateInv, NEW j \in Jobs,
         Clock(j) \/ RequestCancel(j) \/ Sweep(j) \/ LoseMessage(j)
  PROVE  StateInv'
<1>1. job[j] \in JobDoc /\ JobFine(j)
  BY DEF TypeInv, TypeOK, StateInv
<1>2. UNCHANGED << run, gens >>
  BY DEF Clock, BecomesDue, DeadlinePasses, LeaseExpires, ClaimAges, RequestCancel, Sweep,
         LoseMessage, provider
<1>3. CASE ~RequestCancel(j)
  <2>1. \/ UNCHANGED job
        \/ \E e : /\ Write(j, e) /\ SameCore(job[j], e) /\ SameAsk(job[j], e)
                  /\ e.nextPoll \in {job[j].nextPoll, "due"}
    BY <1>3, OtherWrites
  <2>2. \A i \in Jobs : CoreKept(i)
    BY <1>2, <2>1, WriteCore, SameJobCore
  <2>3. QED BY <1>2, <2>2, QuietState DEF NoStep
<1>4. CASE RequestCancel(j)
  <2> DEFINE e == [job[j] EXCEPT !.cancelRequested = TRUE]
  <2>1. e.cancelRequested /\ SameCore(job[j], e) /\ e.nextPoll = job[j].nextPoll
    BY <1>1, AskField DEF SamePoll
  <2>2. Write(j, e) /\ Cancellable(job[j], IsSync(j))
    BY <1>4 DEF RequestCancel
  <2> HIDE DEF e
  <2>3. job'[j] = e /\ \A i \in Jobs : i # j => job'[i] = job[i]
    BY <2>2, WriteOne DEF TypeInv
  <2>4. IsSync(j) => ~job[j].submitAttempted
    BY <2>2 DEF Cancellable
  <2>5. \A i \in Jobs : IsSync(i)' = IsSync(i)
    BY <2>1, <2>3 DEF IsSync, SameCore
  <2>6. ASSUME NEW i \in Jobs PROVE JobFine(i)'
    <3>1. CASE i = j
      <4>1. IsSync(j) => gens[j] = 0
        BY <1>1, <2>4 DEF JobFine, TypeInv, TypeOK
      <4>2. QED BY <1>1, <1>2, <2>1, <2>3, <2>5, <3>1, <4>1 DEF JobFine, SameCore
    <3>2. CASE i # j
      BY <1>2, <2>3, <3>2, JobFineKept DEF StateInv, CoreKept, SameCore, SameAsk
    <3>3. QED BY <3>1, <3>2
  <2>7. ASSUME NEW w \in Workers PROVE StepFine(w)'
    <3>1. StepFine(w) /\ run'[w] = run[w]
      BY <1>2 DEF StateInv
    <3>2. CASE run[w].pc \in StepPCs
      <4>1. PICK i \in Jobs : i = run[w].job
        BY <3>2, StepLeased DEF At
      <4>2. SameCore(job[i], job'[i]) /\ gens'[i] = gens[i] /\ IsSync(i)' = IsSync(i)
        BY <1>2, <2>1, <2>3, <2>5 DEF SameCore
      <4>3. job[i].cancelRequested => job'[i].cancelRequested
        BY <2>1, <2>3
      <4>4. run[w].pc \in {"submit", "submitted"} /\ IsSync(i) => ~job'[i].cancelRequested
        BY <2>3, <2>4, <3>1, <4>1 DEF StepFine
      <4>5. QED BY <3>1, <4>1, <4>2, <4>3, <4>4 DEF StepFine, SameCore
    <3>3. CASE run[w].pc \notin StepPCs
      BY <3>1, <3>3 DEF StepFine, StepPCs
    <3>4. QED BY <3>2, <3>3
  <2>8. QED BY <2>6, <2>7 DEF StateInv
<1>5. QED BY <1>3, <1>4

LEMMA InitState == Init => StateInv
<1> SUFFICES ASSUME Init PROVE StateInv
  OBVIOUS
<1>1. ASSUME NEW w \in Workers PROVE StepFine(w)
  <2>1. run[w] = Rest
    BY JobsAssumption DEF Init, Procs
  <2>2. QED BY <2>1 DEF Rest, Task, StepFine, StepPCs
<1>2. ASSUME NEW j \in Jobs PROVE JobFine(j)
  <2>1. PICK k : job[j] = NewJob(k)
    BY DEF Init
  <2>2. gens[j] = 0
    BY DEF Init
  <2>3. QED BY <2>1, <2>2 DEF NewJob, JobFine, IsSync
<1>3. QED BY <1>1, <1>2 DEF StateInv

LEMMA StateStep == TypeInv /\ LeaseInv /\ StateInv /\ [Next]_vars => StateInv'
<1> SUFFICES ASSUME TypeInv, LeaseInv, StateInv, [Next]_vars PROVE StateInv'
  OBVIOUS
<1>1. CASE UNCHANGED vars
  BY <1>1, SameJobCore, QuietState DEF vars, NoStep
<1>2. CASE Next
  BY <1>2, CreateState, WorkState, FinishState, OtherState DEF Next
<1>3. QED BY <1>1, <1>2

-----------------------------------------------------------------------------
(* The provider's side.                                                      *)

ProvKept(i) == (prov'[i] = "active" => prov[i] = "active") /\ (leaked[i] => leaked'[i])
NoCommit(w) == run'[w] = run[w] \/ run'[w].pc # "commit"

LEMMA QuietJobKept ==
  ASSUME NEW i \in Jobs, QuietJob(i), ProvKept(i), SameCore(job[i], job'[i])
  PROVE  QuietJob(i)'
BY DEF QuietJob, ProvKept, SameCore

LEMMA QuietStepKept ==
  ASSUME TypeInv, LeaseInv, NEW w \in Workers, QuietStep(w), NoCommit(w),
         \A i \in Jobs : Holds(w, i) => ProvKept(i) /\ job'[i].kind = job[i].kind
  PROVE  QuietStep(w)'
<1>1. CASE run'[w].pc # "commit"
  BY <1>1 DEF QuietStep
<1>2. CASE run'[w] = run[w] /\ run[w].pc = "commit"
  <2>1. ProvKept(run[w].job) /\ job'[run[w].job].kind = job[run[w].job].kind
    BY <1>2, StepLeased DEF At, StepPCs
  <2>2. QED BY <1>2, <2>1 DEF QuietStep, ProvKept
<1>3. QED BY <1>1, <1>2 DEF NoCommit

LEMMA QuietProvider ==
  ASSUME TypeInv, LeaseInv, ProviderInv,
         \A i \in Jobs : ProvKept(i) /\ SameCore(job[i], job'[i]),
         \A w \in Workers : NoCommit(w)
  PROVE  ProviderInv'
BY QuietJobKept, QuietStepKept DEF ProviderInv, SameCore

LEMMA OthersProvider ==
  ASSUME TypeInv, LeaseInv, ProviderInv, NEW p \in Procs, NEW j \in Jobs,
         \A q \in Procs : q # p => run'[q] = run[q],
         \A i \in Jobs : i # j => job'[i] = job[i] /\ ProvKept(i),
         \A v \in Workers : Holds(v, j) => v = p,
         QuietJob(j)', p \in Workers => QuietStep(p)'
  PROVE  ProviderInv'
<1>1. ASSUME NEW i \in Jobs PROVE QuietJob(i)'
  <2>1. CASE i # j
    BY <2>1, QuietJobKept DEF ProviderInv, SameCore
  <2>2. QED BY <2>1
<1>2. ASSUME NEW v \in Workers PROVE QuietStep(v)'
  <2>1. CASE v # p
    <3>1. \A i \in Jobs : Holds(v, i) => ProvKept(i) /\ job'[i].kind = job[i].kind
      BY <2>1
    <3>2. run'[v] = run[v]
      BY <2>1 DEF Procs
    <3>3. QED BY <3>1, <3>2, QuietStepKept DEF ProviderInv, NoCommit
  <2>2. QED BY <2>1
<1>3. QED BY <1>1, <1>2 DEF ProviderInv

LEMMA SameProv == ASSUME UNCHANGED << prov, leaked >> PROVE \A i \in Jobs : ProvKept(i)
BY DEF ProvKept

LEMMA StoppedProv ==
  ASSUME TypeInv, NEW j \in Jobs, prov' = [prov EXCEPT ![j] = "stopped"], UNCHANGED leaked
  PROVE  prov'[j] # "active" /\ \A i \in Jobs : ProvKept(i)
BY DEF ProvKept, TypeInv, TypeOK

LEMMA ConcludeProvider ==
  ASSUME TypeInv, LeaseInv, ProviderInv, NEW w \in Workers, NEW r \in Results, Conclude(w, r),
         NEW l \in StepPCs, At(w, l), UNCHANGED job, \A i \in Jobs : ProvKept(i),
         r \in {"storing", "blocked", "billed_block"} => prov'[run[w].job] # "active"
  PROVE  ProviderInv'
<1>1. PICK j \in Jobs : j = run[w].job
  BY StepLeased
<1>2. w \in Procs
  BY DEF Procs
<1>3. QuietJob(j)'
  BY QuietJobKept DEF ProviderInv, SameCore
<1>4. QuietStep(w)'
  BY <1>1, ConcludeMore DEF QuietStep
<1>5. QED BY <1>1, <1>2, <1>3, <1>4, ConcludeMore, HolderAlone, OthersProvider

LEMMA CreateProvider ==
  ASSUME TypeInv, LeaseInv, StateInv, ProviderInv, NEW j \in Jobs, Create(j)
  PROVE  ProviderInv'
<1>1. j \in Procs /\ j \notin Workers /\ job[j] \in JobDoc
  BY JobsAssumption DEF Procs, TypeInv, TypeOK
<1>2. UNCHANGED << prov, leaked >>
  BY DEF Create, EnqueueFirst, EnqueueFirstFails, FailBeforeStart, provider
<1>3. CASE ~(FailBeforeStart(j) /\ UnstartedGuard(job[j]))
  <2>1. UNCHANGED job
    BY <1>3 DEF Create, EnqueueFirst, EnqueueFirstFails, FailBeforeStart
  <2>2. GoTo(j, "unqueued") \/ End(j)
    BY <1>3 DEF Create, EnqueueFirst, EnqueueFirstFails, FailBeforeStart
  <2>3. \A q \in Procs : q # j => run'[q] = run[q]
    BY <1>1, <2>2, GoToFields, EndFields DEF TypeInv, PCs
  <2>4. QED BY <1>1, <1>2, <2>1, <2>3, SameProv, QuietProvider DEF NoCommit, Procs, SameCore
<1>4. CASE FailBeforeStart(j) /\ UnstartedGuard(job[j])
  <2> DEFINE e == [Released(job[j]) EXCEPT !.state = "failed", !.nextPoll = "none"]
  <2>1. Write(j, e) /\ run' = [run EXCEPT ![j].pc = "claim", ![j].doc = e]
    BY <1>4 DEF FailBeforeStart
  <2>2. e.handle = job[j].handle /\ e.state = "failed"
    BY <1>1, FailedFields
  <2> HIDE DEF e
  <2>3. job'[j] = e /\ \A i \in Jobs : i # j => job'[i] = job[i]
    BY <2>1, WriteOne DEF TypeInv
  <2>4. \A q \in Procs : q # j => run'[q] = run[q]
    BY <1>1, <2>1 DEF TypeInv, TypeOK
  <2>5. \A w \in Workers : ~Holds(w, j)
    BY <1>4, UnleasedHolds DEF UnstartedGuard
  <2>6. ~job[j].handle
    BY <1>4 DEF UnstartedGuard, StateInv, JobFine
  <2>7. QuietJob(j)'
    BY <2>2, <2>3, <2>6 DEF QuietJob
  <2>8. QED BY <1>1, <1>2, <2>3, <2>4, <2>5, <2>7, SameProv, OthersProvider
<1>5. QED BY <1>3, <1>4

LEMMA ConcludingProvider ==
  ASSUME TypeInv, LeaseInv, StateInv, ProviderInv, NEW w \in Workers,
         \/ Step(w) \/ CheckAccess(w) \/ SubmitRejected(w) \/ SubmitReturns(w) \/ Poll(w)
         \/ Store(w)
  PROVE  ProviderInv'
<1>1. UNCHANGED job /\ w \in Procs
  BY DEF Step, CheckAccess, SubmitRejected, SubmitReturns, Poll, Store, Procs
<1>2. PICK l \in StepPCs : At(w, l)
  BY DEF Step, CheckAccess, SubmitRejected, SubmitReturns, Poll, Store, StepPCs
<1>3. PICK j \in Jobs : j = run[w].job
  BY <1>2, StepLeased
<1>4. UNCHANGED << prov, leaked >> \/
      (prov' = [prov EXCEPT ![j] = "stopped"] /\ UNCHANGED leaked)
  BY <1>3 DEF Step, CheckAccess, SubmitRejected, SubmitReturns, Poll, Store, provider
<1>5. \A i \in Jobs : ProvKept(i)
  BY <1>4, SameProv, StoppedProv
<1>6. CASE \E k \in {"claim", "access", "poll", "store", "mark"} : GoTo(w, k)
  <2>1. run'[w].pc # "commit" /\ \A q \in Procs : q # w => run'[q] = run[q]
    BY <1>1, <1>6, GoToFields DEF TypeInv, PCs
  <2>2. QED BY <1>1, <1>5, <2>1, QuietProvider DEF NoCommit, SameCore, Procs
<1>7. ASSUME NEW r \in Results, Conclude(w, r),
             r \in {"storing", "blocked", "billed_block"} => prov'[j] # "active"
      PROVE  ProviderInv'
  BY <1>1, <1>2, <1>3, <1>5, <1>7, ConcludeProvider
<1>8. prov' = [prov EXCEPT ![j] = "stopped"] => prov'[j] # "active"
  BY DEF TypeInv, TypeOK
<1>9. CASE Step(w) \/ CheckAccess(w) \/ SubmitRejected(w) \/ Store(w)
  BY <1>6, <1>7, <1>9 DEF Step, CheckAccess, SubmitRejected, Store, Results
<1>10. CASE SubmitReturns(w)
  BY <1>3, <1>7, <1>8, <1>10 DEF SubmitReturns, Results
<1>11. CASE Poll(w)
  BY <1>3, <1>7, <1>8, <1>11 DEF Poll, Results
<1>12. QED BY <1>9, <1>10, <1>11

LEMMA StopProviderProvider ==
  ASSUME TypeInv, LeaseInv, StateInv, ProviderInv, NEW w \in Workers, StopProvider(w)
  PROVE  ProviderInv'
<1>1. PICK j \in Jobs : j = run[w].job
  BY StepLeased DEF StopProvider, StepPCs
<1>2. At(w, "stop") /\ UNCHANGED job /\ w \in Procs
  BY DEF StopProvider, Procs
<1>3. /\ run'[w].pc = "commit" /\ run'[w].job = j /\ run'[w].doc = run[w].doc
      /\ run'[w].result = run[w].result
      /\ \A q \in Procs : q # w => run'[q] = run[q]
  BY <1>1, <1>2, GoToFields DEF StopProvider, TypeInv, PCs
<1>4. run[w].result \in StopsProvider /\ run[w].doc.handle = job[j].handle /\ JobFine(j)
  BY <1>1, <1>2 DEF StateInv, StepFine, At, StepPCs
<1>5. prov' \in [Jobs -> {"none", "active", "stopped"}] /\ leaked' \in [Jobs -> BOOLEAN]
      /\ \A i \in Jobs : ProvKept(i)
  BY <1>1 DEF StopProvider, TypeInv, TypeOK, ProvKept
<1>6. run[w].doc.handle /\ job[j].kind = "async" /\ ~leaked'[j] => prov'[j] # "active"
  BY <1>1 DEF StopProvider, TypeInv, TypeOK
<1>7. QuietStep(w)'
  BY <1>2, <1>3, <1>4, <1>6 DEF QuietStep, StopsProvider
<1>8. QuietJob(j)'
  BY <1>2, <1>5, QuietJobKept DEF ProviderInv, SameCore
<1>9. QED
  BY <1>1, <1>2, <1>3, <1>5, <1>7, <1>8, HolderAlone, OthersProvider DEF StepPCs

LEMMA SubmittingProvider ==
  ASSUME TypeInv, LeaseInv, StateInv, ProviderInv, NEW w \in Workers,
         MarkSubmit(w) \/ ProviderAccepts(w)
  PROVE  ProviderInv'
<1>1. PICK j \in Jobs : j = run[w].job /\ job[j] \in JobDoc
  BY StepLeased DEF MarkSubmit, ProviderAccepts, StepPCs
<1>2. w \in Procs
  BY DEF Procs
<1>3. CASE MarkSubmit(w) /\ ~CanMarkSubmit(job[j])
  BY <1>1, <1>3, SameProv, ConcludeProvider DEF MarkSubmit, Results, StepPCs, provider
<1>4. CASE MarkSubmit(w) /\ CanMarkSubmit(job[j])
  <2> DEFINE e == SubmitMarked(job[j], IsSync(j))
  <2>1. Write(j, e) /\ GoTo(w, "submit") /\ At(w, "mark") /\ UNCHANGED << prov, leaked >>
    BY <1>1, <1>4 DEF MarkSubmit, provider
  <2>2. job[j].state = "pending" /\ JobFine(j)
    BY <1>1, <2>1 DEF At, StateInv, StepFine
  <2>3. IsSync(j) \in BOOLEAN
    BY DEF IsSync
  <2>4. e.state \in {"pending", "running"}
    BY <1>1, <2>2, <2>3, MarkedFields
  <2> HIDE DEF e
  <2>5. job'[j] = e /\ \A i \in Jobs : i # j => job'[i] = job[i]
    BY <2>1, WriteOne DEF TypeInv
  <2>6. run'[w].pc = "submit" /\ \A q \in Procs : q # w => run'[q] = run[q]
    BY <1>2, <2>1, GoToFields DEF TypeInv, PCs
  <2>7. QuietJob(j)' /\ QuietStep(w)'
    BY <2>4, <2>5, <2>6 DEF QuietJob, QuietStep, Terminal
  <2>8. QED
    BY <1>1, <1>2, <2>1, <2>5, <2>6, <2>7, SameProv, HolderAlone, OthersProvider DEF StepPCs
<1>5. CASE ProviderAccepts(w)
  <2>1. At(w, "submit") /\ UNCHANGED << job, leaked >> /\ GoTo(w, "submitted")
        /\ prov' = [prov EXCEPT ![j] = "active"]
    BY <1>1, <1>5 DEF ProviderAccepts
  <2>2. job[j].state \in {"pending", "running"}
    BY <1>1, <2>1, SubmitFacts
  <2>3. run'[w].pc = "submitted" /\ \A q \in Procs : q # w => run'[q] = run[q]
    BY <1>2, <2>1, GoToFields DEF TypeInv, PCs
  <2>4. \A i \in Jobs : i # j => ProvKept(i)
    BY <2>1 DEF ProvKept, TypeInv, TypeOK
  <2>5. QuietJob(j)' /\ QuietStep(w)'
    BY <2>1, <2>2, <2>3 DEF QuietJob, QuietStep, Terminal
  <2>6. QED BY <1>1, <1>2, <2>1, <2>3, <2>4, <2>5, HolderAlone, OthersProvider DEF StepPCs
<1>6. QED BY <1>3, <1>4, <1>5

LEMMA CommitProvider ==
  ASSUME TypeInv, LeaseInv, StateInv, ProviderInv, NEW w \in Workers, Commit(w)
  PROVE  ProviderInv'
<1>1. PICK j \in Jobs : j = run[w].job
  BY StepLeased DEF Commit, StepPCs
<1>2. At(w, "commit") /\ UNCHANGED << prov, leaked >> /\ w \in Procs
  BY DEF Commit, provider, Procs
<1>3. CASE ~LeaseGuard(job[j], w)
  <2>1. End(w) /\ UNCHANGED job
    BY <1>1, <1>3 DEF Commit
  <2>2. run'[w].pc = "idle" /\ \A q \in Procs : q # w => run'[q] = run[q]
    BY <1>2, <2>1, EndFields DEF TypeInv
  <2>3. QED BY <1>2, <2>1, <2>2, SameProv, QuietProvider DEF NoCommit, Procs, SameCore
<1>4. CASE LeaseGuard(job[j], w)
  <2> DEFINE e == job'[j]
             d == run[w].doc
             r == run[w].result
             s == job[j].state
  <2>1. /\ e.kind = job[j].kind /\ e.state = StateAfter(job[j], d, r)
        /\ r # "running" => e.handle = job[j].handle
        /\ \A i \in Jobs : i # j => job'[i] = job[i]
        /\ \A q \in Procs : q # w => run'[q] = run[q]
        /\ run'[w].pc \in {"idle", "claim", "send"}
    BY <1>1, <1>4, CommitFacts
  <2>2. /\ Read(d, s, IsSync(j)) /\ r \in Outcomes(s, IsSync(j)) /\ JobFine(j)
        /\ s \in NonTerminal /\ d.handle = job[j].handle
    BY <1>1, <1>2, CommitKnows
  <2>3. QuietJob(j) /\ QuietStep(w) /\ run[w].pc = "commit"
    BY <1>2 DEF ProviderInv, At
  <2>4. QuietStep(w)'
    BY <2>1 DEF QuietStep
  <2>5. /\ s = "storing" => prov[j] # "active"
        /\ r \in {"storing", "blocked", "billed_block"} => prov[j] # "active"
        /\ r \in StopsProvider /\ d.state = "running" /\ d.handle /\ job[j].kind = "async"
             /\ ~leaked[j] => prov[j] # "active"
        /\ job[j].handle => ~IsSync(j) /\ s # "pending"
    BY <1>1, <2>2, <2>3 DEF QuietJob, QuietStep, JobFine
  <2> HIDE DEF e, d, r, s
  <2>6. e.state = "storing" => prov[j] # "active"
    BY <2>1, <2>2, <2>5
    DEF StateAfter, TerminalOf, TerminalResults, FailedResults, BlockedResults, Failing,
        Outcomes, Resubmits, s
  <2>7. e.state \in Terminal /\ e.handle /\ e.kind = "async" /\ ~leaked[j] => prov[j] # "active"
    <3>1. SUFFICES ASSUME e.state \in Terminal, e.handle, job[j].kind = "async", ~leaked[j]
                   PROVE  prov[j] # "active"
      BY <2>1
    <3>2. r \in TerminalResults
      BY <2>1, <2>2, <3>1
      DEF StateAfter, TerminalOf, TerminalResults, FailedResults, BlockedResults, Failing,
          Outcomes, Resubmits, Terminal, NonTerminal, s
    <3>3. job[j].handle /\ ~IsSync(j) /\ s \in {"running", "storing"} /\ d.state = s
      BY <2>1, <2>2, <2>5, <3>1, <3>2
      DEF TerminalResults, FailedResults, BlockedResults, NonTerminal, Read
    <3>4. CASE r \in StopsProvider
      BY <2>2, <2>5, <3>1, <3>3, <3>4
    <3>5. CASE r \notin StopsProvider
      <4>1. r \in {"blocked", "billed_block", "succeeded"}
        BY <3>2, <3>5 DEF StopsProvider, TerminalResults, FailedResults, BlockedResults
      <4>2. QED BY <2>2, <2>5, <3>3, <4>1 DEF Outcomes, Failing
    <3>6. QED BY <3>4, <3>5
  <2>8. QuietJob(j)'
    BY <1>2, <2>6, <2>7 DEF QuietJob, e
  <2>9. QED
    BY <1>1, <1>2, <2>1, <2>4, <2>8, SameProv, HolderAlone, OthersProvider DEF StepPCs
<1>5. QED BY <1>3, <1>4

LEMMA RestProvider ==
  ASSUME TypeInv, LeaseInv, StateInv, ProviderInv,
         \/ \E w \in Workers : \/ \E j \in Jobs : Acquire(w, j) \/ SkipDelivery(w, j)
                               \/ Send(w) \/ SendFails(w) \/ Release(w)
         \/ \E p \in Procs : Finish(p) \/ Crash(p)
         \/ \E j \in Jobs : Clock(j) \/ RequestCancel(j) \/ Sweep(j) \/ LoseMessage(j)
  PROVE  ProviderInv'
<1>1. Workers \subseteq Procs
  BY DEF Procs
<1>2. UNCHANGED << prov, leaked >>
  BY DEF Acquire, SkipDelivery, Send, SendFails, Release, Finish, Claim, Settle,
         RecordSettlement, MarkHandled, Crash, Clock, BecomesDue, DeadlinePasses, LeaseExpires,
         ClaimAges, RequestCancel, Sweep, LoseMessage, provider
<1>3. \/ UNCHANGED job
      \/ \E j \in Jobs : job[j] \in JobDoc /\ \E e : Write(j, e) /\ SameCore(job[j], e)
  <2>1. \A j \in Jobs : job[j] \in JobDoc
    BY DEF TypeInv, TypeOK
  <2>2. ASSUME NEW w \in Workers, NEW j \in Jobs, Acquire(w, j)
        PROVE  Write(j, Leased(job[j], w)) /\ SameCore(job[j], Leased(job[j], w))
    BY <2>1, <2>2, LeasedFields DEF Acquire
  <2>3. ASSUME NEW w \in Workers, Release(w)
        PROVE  \/ UNCHANGED job
               \/ \E j \in Jobs : \E e : Write(j, e) /\ SameCore(job[j], e)
    <3>1. PICK j \in Jobs : j = run[w].job /\ job[j] \in JobDoc
      BY <2>3, LeasedJob DEF Release, At, LeaseInv, LeaseFine
    <3>2. SameCore(job[j], Released(job[j]))
      BY <3>1, ReleasedFields
    <3>3. QED BY <2>3, <3>1, <3>2 DEF Release
  <2>4. ASSUME NEW p \in Procs, Finish(p) \/ Crash(p)
        PROVE  \/ UNCHANGED job
               \/ \E j \in Jobs : \E e : Write(j, e) /\ SameCore(job[j], e)
    <3>1. PICK j \in Jobs : j = run[p].job /\ job[j] \in JobDoc
      <4>1. ~At(p, "idle")
        BY <2>4 DEF Finish, Claim, Settle, RecordSettlement, MarkHandled, Crash, At
      <4>2. QED BY <4>1 DEF At, TypeInv, TypeOK, ProcOK, ProcFine
    <3>2. QED BY <2>4, <3>1, FinishWrites
  <2>5. ASSUME NEW j \in Jobs, Clock(j) \/ RequestCancel(j) \/ Sweep(j) \/ LoseMessage(j)
        PROVE  UNCHANGED job \/ \E e : Write(j, e) /\ SameCore(job[j], e)
    BY <2>5, OtherWrites
  <2>6. QED BY <2>1, <2>2, <2>3, <2>4, <2>5 DEF SkipDelivery, Send, SendFails
<1>4. \A i \in Jobs : SameCore(job[i], job'[i])
  BY <1>3, WriteOne DEF SameCore, TypeInv
<1>5. \A v \in Workers : NoCommit(v)
  <2>1. ASSUME NEW w \in Workers, NEW j \in Jobs, Acquire(w, j)
        PROVE  run'[w].pc = "step" /\ \A q \in Procs : q # w => run'[q] = run[q]
    <3> DEFINE d == Leased(job[j], w)
    <3>1. run' = [run EXCEPT ![w] =
            [pc |-> "step", job |-> j, doc |-> d, result |-> "release", leased |-> TRUE]]
      BY <2>1 DEF Acquire
    <3> HIDE DEF d
    <3>2. QED BY <1>1, <3>1 DEF TypeInv, TypeOK
  <2>2. ASSUME NEW p \in Procs,
               \/ End(p)
               \/ \E l \in {"settle", "record", "finish", "release"} : GoTo(p, l)
        PROVE  run'[p].pc # "commit" /\ \A q \in Procs : q # p => run'[q] = run[q]
    BY <2>2, GoToFields, EndFields DEF TypeInv, PCs
  <2>3. \/ UNCHANGED run
        \/ \E w \in Workers, j \in Jobs : Acquire(w, j)
        \/ \E p \in Procs : \/ End(p)
                            \/ \E l \in {"settle", "record", "finish", "release"} : GoTo(p, l)
    BY <1>1
    DEF SkipDelivery, Send, SendFails, Release, Finish, Claim, Settle,
        RecordSettlement, MarkHandled, Leave, Crash, Clock, BecomesDue, DeadlinePasses,
        LeaseExpires, ClaimAges, RequestCancel, Sweep, LoseMessage
  <2>4. QED BY <1>1, <2>1, <2>2, <2>3 DEF NoCommit
<1>6. QED BY <1>2, <1>4, <1>5, SameProv, QuietProvider

LEMMA InitProvider == Init => ProviderInv
<1> SUFFICES ASSUME Init PROVE ProviderInv
  OBVIOUS
<1>1. ASSUME NEW w \in Workers PROVE QuietStep(w)
  <2>1. run[w] = Rest
    BY JobsAssumption DEF Init, Procs
  <2>2. QED BY <2>1 DEF Rest, Task, QuietStep
<1>2. QED BY <1>1 DEF Init, ProviderInv, QuietJob

LEMMA ProviderStep ==
  TypeInv /\ LeaseInv /\ StateInv /\ ProviderInv /\ [Next]_vars => ProviderInv'
<1> SUFFICES ASSUME TypeInv, LeaseInv, StateInv, ProviderInv, [Next]_vars PROVE ProviderInv'
  OBVIOUS
<1>1. CASE UNCHANGED vars
  BY <1>1, SameProv, QuietProvider DEF vars, NoCommit, SameCore
<1>2. CASE Next
  BY <1>2, CreateProvider, ConcludingProvider, StopProviderProvider, SubmittingProvider,
     CommitProvider, RestProvider
  DEF Next, Work
<1>3. QED BY <1>1, <1>2

-----------------------------------------------------------------------------
(* The terminal handling.                                                    *)

FinalKept(i) ==
  /\ SameCore(job[i], job'[i]) /\ SameClaim(job[i], job'[i])
  /\ charges'[i] = charges[i] /\ refunds'[i] = refunds[i] /\ alarmed'[i] = alarmed[i]
  /\ gens[i] > 0 => gens'[i] > 0
NoFinal(p) == run'[p] = run[p] \/ run'[p].pc \notin FinalPCs \cup {"step"}
HandlePCs == {"settle", "record", "finish"}

LEMMA SameCharged ==
  ASSUME NEW d, NEW e, e.state = d.state, e.billedBlock = d.billedBlock
  PROVE  Charged(e) = Charged(d)
BY DEF Charged

LEMMA FinishFineKept ==
  ASSUME TypeInv, NEW p \in Procs, FinishFine(p), run'[p] = run[p],
         run[p].job \in Jobs => FinalKept(run[p].job)
  PROVE  FinishFine(p)'
<1>1. CASE run[p].pc \in FinalPCs \cup {"step"}
  <2>1. PICK j \in Jobs : j = run[p].job
    BY <1>1 DEF TypeInv, ProcOK, ProcFine, FinalPCs
  <2>2. FinalKept(j)
    BY <2>1
  <2>3. Charged(job[j])' = Charged(job[j])
    BY <2>2, SameCharged DEF FinalKept, SameCore
  <2>4. (Paid(j)' <=> Paid(j)) /\ (Recorded(j)' <=> Recorded(j))
    BY <2>2, <2>3 DEF Paid, Recorded, FinalKept, SameClaim
  <2>5. run'[p].job = j /\ run'[p].doc = run[p].doc /\ run'[p].pc = run[p].pc
    BY <2>1
  <2>6. job'[j].state = job[j].state /\ job'[j].billedBlock = job[j].billedBlock
        /\ job'[j].claim = job[j].claim /\ job'[j].handled = job[j].handled
        /\ charges'[j] = charges[j] /\ refunds'[j] = refunds[j]
    BY <2>2 DEF FinalKept, SameCore, SameClaim
  <2>7. QED BY <2>1, <2>4, <2>5, <2>6 DEF FinishFine
<1>2. CASE run[p].pc \notin FinalPCs \cup {"step"}
  BY <1>2 DEF FinishFine, FinalPCs
<1>3. QED BY <1>1, <1>2

LEMMA HandledFineKept ==
  ASSUME NEW i \in Jobs, HandledFine(i), FinalKept(i),
         \A p \in Procs : Handling(p, i)' => Handling(p, i)
  PROVE  HandledFine(i)'
<1>1. Charged(job[i])' = Charged(job[i])
  BY SameCharged DEF FinalKept, SameCore
<1>2. (Paid(i)' <=> Paid(i)) /\ (Recorded(i)' <=> Recorded(i))
  BY <1>1 DEF Paid, Recorded, FinalKept, SameClaim
<1>3. IsSync(i)' = IsSync(i)
  BY DEF IsSync, FinalKept, SameCore
<1>4. job[i].state \in Terminal <=> job'[i].state \in Terminal
  BY DEF FinalKept, SameCore
<1>5. job'[i].claim = job[i].claim /\ job'[i].handled = job[i].handled
      /\ charges'[i] = charges[i] /\ refunds'[i] = refunds[i] /\ alarmed'[i] = alarmed[i]
      /\ (gens[i] > 0 => gens'[i] > 0)
  BY DEF FinalKept, SameClaim
<1>6. QED BY <1>2, <1>3, <1>4, <1>5 DEF HandledFine

\* A step of p that leaves every job's handling as it is and starts none.
LEMMA QuietHandling ==
  ASSUME TypeInv, HandlingInv, \A i \in Jobs : FinalKept(i), NEW p \in Procs,
         \A q \in Procs : q # p => run'[q] = run[q],
         run'[p].pc \notin HandlePCs \/ run'[p] = run[p], FinishFine(p)'
  PROVE  HandlingInv'
<1>1. \A q \in Procs, i \in Jobs : Handling(q, i)' => Handling(q, i)
  BY DEF Handling, HandlePCs
<1>2. \A i \in Jobs : HandledFine(i)'
  BY <1>1, HandledFineKept DEF HandlingInv
<1>3. \A q \in Procs : FinishFine(q)'
  BY FinishFineKept DEF HandlingInv
<1>4. QED BY <1>1, <1>2, <1>3 DEF HandlingInv

LEMMA NoFinalHandling ==
  ASSUME TypeInv, HandlingInv, \A i \in Jobs : FinalKept(i), NEW p \in Procs,
         \A q \in Procs : q # p => run'[q] = run[q], NoFinal(p)
  PROVE  HandlingInv'
<1>1. CASE run'[p].pc \notin FinalPCs \cup {"step"}
  <2>1. FinishFine(p)'
    BY <1>1 DEF FinishFine, FinalPCs
  <2>2. QED BY <1>1, <2>1, QuietHandling DEF FinalPCs, HandlePCs
<1>2. CASE run'[p] = run[p]
  BY <1>2, FinishFineKept, QuietHandling DEF HandlingInv
<1>3. QED BY <1>1, <1>2 DEF NoFinal

\* A step of p that changes a job still in flight, which nobody else holds.
LEMMA FlightHandling ==
  ASSUME TypeInv, LeaseInv, HandlingInv, NEW p \in Procs, NEW j \in Jobs,
         job[j].state \in NonTerminal,
         \A i \in Jobs : i # j => job'[i] = job[i],
         SameClaim(job[j], job'[j]), UNCHANGED << credits, alarmed, gens >>,
         \A q \in Procs : q # p => run'[q] = run[q],
         \A v \in Workers : Holds(v, j) => v = p,
         run'[p].pc \notin HandlePCs, FinishFine(p)'
  PROVE  HandlingInv'
<1>1. \A i \in Jobs : i # j => FinalKept(i)
  BY DEF FinalKept, SameCore, SameClaim, credits
<1>2. job[j].claim = "none"
  BY DEF HandlingInv, HandledFine, NonTerminal, Terminal
<1>3. /\ charges'[j] = 0 /\ refunds'[j] = 0 /\ ~job'[j].handled /\ ~alarmed'[j]
      /\ job'[j].claim = "none"
  BY <1>2 DEF HandlingInv, HandledFine, SameClaim, credits
<1>4. HandledFine(j)'
  BY <1>3 DEF HandledFine
<1>5. \A q \in Procs, i \in Jobs : Handling(q, i)' => Handling(q, i)
  BY DEF Handling, HandlePCs
<1>6. ASSUME NEW i \in Jobs PROVE HandledFine(i)'
  BY <1>1, <1>4, <1>5, HandledFineKept DEF HandlingInv
<1>7. ASSUME NEW q \in Procs PROVE FinishFine(q)'
  <2>1. CASE q # p /\ run[q].job # j
    BY <1>1, <2>1, FinishFineKept DEF HandlingInv
  <2>2. CASE q # p /\ run[q].job = j
    <3>1. run'[q] = run[q] /\ FinishFine(q)
      BY <2>2 DEF HandlingInv
    <3>2. run[q].pc \notin FinalPCs
      BY <2>2, <3>1 DEF FinishFine, NonTerminal, Terminal
    <3>3. run[q].pc # "step"
      <4>1. q \notin Workers => run[q].pc # "step"
        BY DEF TypeInv, ProcOK, ProcFine, RequestPCs, Procs
      <4>2. QED BY <2>2, <4>1, StepLeased DEF At, StepPCs
    <3>4. QED BY <3>1, <3>2, <3>3 DEF FinishFine, FinalPCs
  <2>3. QED BY <2>1, <2>2
<1>8. QED BY <1>5, <1>6, <1>7 DEF HandlingInv

LEMMA SameFinal ==
  ASSUME UNCHANGED << job, credits, alarmed, gens >>
  PROVE  \A i \in Jobs : FinalKept(i)
BY DEF FinalKept, SameCore, SameClaim, credits

LEMMA WriteFinal ==
  ASSUME TypeInv, NEW j \in Jobs, NEW e, Write(j, e), UNCHANGED << credits, alarmed, gens >>,
         SameCore(job[j], e), SameClaim(job[j], e)
  PROVE  \A i \in Jobs : FinalKept(i)
BY WriteOne DEF TypeInv, FinalKept, SameCore, SameClaim, credits

LEMMA InitOwn == Init => OwnInv
<1> SUFFICES ASSUME Init, NEW j \in Jobs PROVE run[j].job = j
  BY DEF OwnInv
<1>1. run[j] = Task("enqueue", j)
  BY DEF Init, Procs
<1>2. QED BY <1>1 DEF Task

LEMMA OwnStep == TypeInv /\ OwnInv /\ [Next]_vars => OwnInv'
<1> SUFFICES ASSUME TypeInv, OwnInv, [Next]_vars PROVE OwnInv'
  OBVIOUS
<1> DEFINE Own(p) == /\ \A q \in Procs : q # p => run'[q] = run[q]
                     /\ \/ run'[p].pc = "idle"
                        \/ run'[p].job = run[p].job /\ run[p].pc # "idle"
<1>1. ASSUME NEW p \in Procs, Own(p) PROVE OwnInv'
  BY <1>1 DEF OwnInv, Procs
<1>2. ASSUME NEW w \in Workers, Work(w) PROVE OwnInv'
  <2>1. \A q \in Procs : q # w => run'[q] = run[q]
    BY <1>2
    DEF Work, Acquire, SkipDelivery, Step, CheckAccess, MarkSubmit, ProviderAccepts,
        SubmitRejected, SubmitReturns, Poll, Store, StopProvider, Commit, Send, SendFails,
        Release, GoTo, End, Conclude, TypeInv, TypeOK
  <2>2. QED BY <2>1, JobsAssumption DEF OwnInv, Procs
<1>3. ASSUME NEW p \in Procs, ~At(p, "idle"),
             End(p) \/ \E l \in PCs : GoTo(p, l)
      PROVE  OwnInv'
  BY <1>1, <1>3, GoToFields, EndFields DEF TypeInv, At
<1>4. ASSUME NEW p \in Procs, Finish(p) \/ Crash(p) PROVE OwnInv'
  BY <1>3, <1>4 DEF Finish, Claim, Settle, RecordSettlement, MarkHandled, Leave, Crash, PCs, At
<1>5. ASSUME NEW j \in Jobs, Create(j) PROVE OwnInv'
  <2> DEFINE e == [Released(job[j]) EXCEPT !.state = "failed", !.nextPoll = "none"]
  <2>1. j \in Procs
    BY DEF Procs
  <2>2. CASE End(j) \/ \E l \in PCs : GoTo(j, l)
    BY <1>3, <1>5, <2>1, <2>2 DEF Create, EnqueueFirst, EnqueueFirstFails, FailBeforeStart, At
  <2>3. CASE FailBeforeStart(j) /\ UnstartedGuard(job[j])
    <3>1. run' = [run EXCEPT ![j].pc = "claim", ![j].doc = e] /\ run[j].pc = "unqueued"
      BY <2>3 DEF FailBeforeStart, At
    <3> HIDE DEF e
    <3>2. run'[j].job = run[j].job /\ \A q \in Procs : q # j => run'[q] = run[q]
      BY <2>1, <3>1 DEF TypeInv, TypeOK, Run
    <3>3. QED BY <1>1, <2>1, <3>1, <3>2
  <2>4. QED
    BY <1>5, <2>2, <2>3 DEF Create, EnqueueFirst, EnqueueFirstFails, FailBeforeStart, PCs
<1>6. CASE UNCHANGED run
  BY <1>6 DEF OwnInv
<1>7. QED
  BY <1>2, <1>4, <1>5, <1>6
  DEF Next, vars, RequestCancel, Sweep, LoseMessage, Clock, BecomesDue, DeadlinePasses,
      LeaseExpires, ClaimAges

LEMMA CreateHandling ==
  ASSUME TypeInv, LeaseInv, StateInv, HandlingInv, OwnInv, NEW j \in Jobs, Create(j)
  PROVE  HandlingInv'
<1>1. j \in Procs /\ j \notin Workers /\ job[j] \in JobDoc
  BY JobsAssumption DEF Procs, TypeInv, TypeOK
<1>2. UNCHANGED << credits, alarmed, gens >>
  BY DEF Create, EnqueueFirst, EnqueueFirstFails, FailBeforeStart, provider
<1>3. CASE ~(FailBeforeStart(j) /\ UnstartedGuard(job[j]))
  <2>1. UNCHANGED job /\ (GoTo(j, "unqueued") \/ End(j))
    BY <1>3 DEF Create, EnqueueFirst, EnqueueFirstFails, FailBeforeStart
  <2>2. NoFinal(j) /\ \A q \in Procs : q # j => run'[q] = run[q]
    BY <1>1, <2>1, GoToFields, EndFields DEF TypeInv, PCs, NoFinal, FinalPCs
  <2>3. QED BY <1>1, <1>2, <2>1, <2>2, SameFinal, NoFinalHandling
<1>4. CASE FailBeforeStart(j) /\ UnstartedGuard(job[j])
  <2> DEFINE e == [Released(job[j]) EXCEPT !.state = "failed", !.nextPoll = "none"]
  <2>1. Write(j, e) /\ run' = [run EXCEPT ![j].pc = "claim", ![j].doc = e]
        /\ job[j].state = "pending" /\ At(j, "unqueued")
    BY <1>4 DEF FailBeforeStart, UnstartedGuard
  <2>2. e.state = "failed" /\ SameClaim(job[j], e)
    BY <1>1, FailedFields
  <2> HIDE DEF e
  <2>3. job'[j] = e /\ \A i \in Jobs : i # j => job'[i] = job[i]
    BY <2>1, WriteOne DEF TypeInv
  <2>4. /\ run'[j].pc = "claim" /\ run'[j].doc = e /\ run'[j].job = j
        /\ \A q \in Procs : q # j => run'[q] = run[q]
    BY <1>1, <2>1 DEF TypeInv, TypeOK, Run, OwnInv, At
  <2>5. \A w \in Workers : ~Holds(w, j)
    BY <1>4, UnleasedHolds DEF UnstartedGuard
  <2>6. e.claim = "none"
    BY <1>1, <2>1, <2>2 DEF HandlingInv, HandledFine, SameClaim, Terminal, JobDoc
  <2>7. FinishFine(j)'
    BY <2>2, <2>3, <2>4, <2>6 DEF FinishFine, Terminal
  <2>8. QED
    BY <1>1, <1>2, <2>1, <2>2, <2>3, <2>4, <2>5, <2>7, FlightHandling DEF NonTerminal, HandlePCs
<1>5. QED BY <1>3, <1>4

LEMMA AcquireHandling ==
  ASSUME TypeInv, LeaseInv, HandlingInv, NEW w \in Workers, NEW j \in Jobs, Acquire(w, j)
  PROVE  HandlingInv'
<1> DEFINE d == Leased(job[j], w)
<1>1. job[j] \in JobDoc /\ w \in Procs
  BY DEF Procs, TypeInv, TypeOK
<1>2. SameCore(job[j], d) /\ SameClaim(job[j], d)
  BY <1>1, LeasedFields
<1>3. Write(j, d) /\ UNCHANGED << credits, alarmed, gens >> /\ run' = [run EXCEPT ![w] =
        [pc |-> "step", job |-> j, doc |-> d, result |-> "release", leased |-> TRUE]]
  BY DEF Acquire, provider
<1> HIDE DEF d
<1>4. job'[j] = d
  BY <1>3, WriteOne DEF TypeInv
<1>5. /\ run'[w].pc = "step" /\ run'[w].job = j /\ run'[w].doc = d
      /\ \A q \in Procs : q # w => run'[q] = run[q]
  BY <1>1, <1>3 DEF TypeInv, TypeOK
<1>6. FinishFine(w)'
  BY <1>5 DEF FinishFine, FinalPCs
<1>7. QED BY <1>1, <1>2, <1>3, <1>5, <1>6, WriteFinal, QuietHandling DEF HandlePCs

LEMMA StepHandling ==
  ASSUME TypeInv, LeaseInv, StateInv, HandlingInv, NEW w \in Workers, Step(w)
  PROVE  HandlingInv'
<1>1. PICK j \in Jobs : j = run[w].job
  BY StepLeased DEF Step, StepPCs
<1>2. w \in Procs /\ UNCHANGED << job, credits, alarmed, gens >> /\ run[w].pc = "step"
  BY DEF Step, At, provider, Procs
<1>3. CASE GoTo(w, "claim") /\ Branch(run[w].doc, IsSync(j)) = "terminal"
  <2>1. /\ run'[w].pc = "claim" /\ run'[w].job = j /\ run'[w].doc = run[w].doc
        /\ \A q \in Procs : q # w => run'[q] = run[q]
    BY <1>1, <1>2, <1>3, GoToFields DEF TypeInv, PCs
  <2>2. run[w].doc.state \in Terminal
    <3>1. run[w].doc.state \in States
      BY <1>2 DEF TypeInv, TypeOK, Run, JobDoc
    <3>2. QED BY <1>3, <3>1 DEF Branch, States, NonTerminal, Terminal
  <2>3. run[w].doc.state = job[j].state /\ run[w].doc.billedBlock = job[j].billedBlock
    BY <1>1, <1>2 DEF StateInv, StepFine
  <2>4. FinishFine(w)'
    BY <1>2, <2>1, <2>2, <2>3 DEF FinishFine
  <2>5. QED BY <1>2, <2>1, <2>4, SameFinal, QuietHandling DEF HandlePCs
<1>4. CASE \/ \E r \in Results : Conclude(w, r)
           \/ \E l \in {"access", "poll", "store"} : GoTo(w, l)
  <2>1. NoFinal(w) /\ \A q \in Procs : q # w => run'[q] = run[q]
    BY <1>2, <1>4, ConcludeFields, GoToFields DEF TypeInv, PCs, NoFinal, FinalPCs
  <2>2. QED BY <1>2, <2>1, SameFinal, NoFinalHandling
<1>5. QED BY <1>1, <1>3, <1>4 DEF Step, Results

LEMMA MarkSubmitHandling ==
  ASSUME TypeInv, LeaseInv, StateInv, HandlingInv, NEW w \in Workers, MarkSubmit(w)
  PROVE  HandlingInv'
<1>1. PICK j \in Jobs : j = run[w].job /\ job[j] \in JobDoc
  BY StepLeased DEF MarkSubmit, StepPCs
<1>2. w \in Procs /\ UNCHANGED << credits, alarmed, gens >> /\ At(w, "mark")
  BY DEF MarkSubmit, provider, Procs
<1>3. CASE ~CanMarkSubmit(job[j])
  <2>1. UNCHANGED job /\ Conclude(w, "cancelled")
    BY <1>1, <1>3 DEF MarkSubmit
  <2>2. NoFinal(w) /\ \A q \in Procs : q # w => run'[q] = run[q]
    BY <1>2, <2>1, ConcludeFields DEF TypeInv, Results, NoFinal, FinalPCs
  <2>3. QED BY <1>2, <2>1, <2>2, SameFinal, NoFinalHandling
<1>4. CASE CanMarkSubmit(job[j])
  <2> DEFINE e == SubmitMarked(job[j], IsSync(j))
  <2>1. Write(j, e) /\ GoTo(w, "submit") /\ job[j].state = "pending"
    BY <1>1, <1>2, <1>4 DEF MarkSubmit, StateInv, StepFine, At
  <2>2. IsSync(j) \in BOOLEAN
    BY DEF IsSync
  <2>3. SameClaim(job[j], e)
    BY <1>1, <2>2, MarkedFields
  <2> HIDE DEF e
  <2>4. job'[j] = e /\ \A i \in Jobs : i # j => job'[i] = job[i]
    BY <2>1, WriteOne DEF TypeInv
  <2>5. run'[w].pc = "submit" /\ \A q \in Procs : q # w => run'[q] = run[q]
    BY <1>2, <2>1, GoToFields DEF TypeInv, PCs
  <2>6. FinishFine(w)'
    BY <2>5 DEF FinishFine, FinalPCs
  <2>7. \A v \in Workers : Holds(v, j) => v = w
    BY <1>1, <1>2, HolderAlone DEF StepPCs
  <2>8. QED
    BY <1>1, <1>2, <2>1, <2>3, <2>4, <2>5, <2>6, <2>7, FlightHandling
    DEF HandlePCs, NonTerminal
<1>5. QED BY <1>3, <1>4

LEMMA CommitHandling ==
  ASSUME TypeInv, LeaseInv, StateInv, HandlingInv, NEW w \in Workers, Commit(w)
  PROVE  HandlingInv'
<1>1. PICK j \in Jobs : j = run[w].job
  BY StepLeased DEF Commit, StepPCs
<1>2. At(w, "commit") /\ UNCHANGED << credits, alarmed, gens >> /\ w \in Procs
  BY DEF Commit, provider, Procs
<1>3. CASE ~LeaseGuard(job[j], w)
  <2>1. End(w) /\ UNCHANGED job
    BY <1>1, <1>3 DEF Commit
  <2>2. NoFinal(w) /\ \A q \in Procs : q # w => run'[q] = run[q]
    BY <1>2, <2>1, EndFields DEF TypeInv, NoFinal, FinalPCs
  <2>3. QED BY <1>2, <2>1, <2>2, SameFinal, NoFinalHandling
<1>4. CASE LeaseGuard(job[j], w)
  <2> DEFINE e == job'[j]
             d == run[w].doc
             r == run[w].result
             s == job[j].state
  <2>1. /\ e.state = StateAfter(job[j], d, r)
        /\ SameClaim(job[j], e)
        /\ \A i \in Jobs : i # j => job'[i] = job[i]
        /\ \A q \in Procs : q # w => run'[q] = run[q]
        /\ \/ r = "release" /\ run'[w].pc = "idle"
           \/ r \in TerminalResults /\ run'[w].pc = "claim" /\ run'[w].doc = e
              /\ run'[w].job = j
           \/ run'[w].pc = "send"
    BY <1>1, <1>4, CommitFacts
  <2>2. s \in NonTerminal
    BY <1>1, <1>2, CommitKnows
  <2>3. e.claim = "none"
    BY <2>1, <2>2 DEF HandlingInv, HandledFine, NonTerminal, Terminal, SameClaim
  <2>4. r \in TerminalResults => e.state \in Terminal
    BY <2>1 DEF StateAfter, TerminalOf, TerminalResults, FailedResults, BlockedResults, Terminal
  <2>5. FinishFine(w)'
    BY <2>1, <2>3, <2>4 DEF FinishFine, FinalPCs
  <2>6. run'[w].pc \notin HandlePCs
    BY <2>1 DEF HandlePCs
  <2>7. \A v \in Workers : Holds(v, j) => v = w
    BY <1>1, <1>2, HolderAlone DEF StepPCs
  <2> HIDE DEF d, r
  <2>8. QED BY <1>1, <1>2, <2>1, <2>2, <2>5, <2>6, <2>7, FlightHandling
<1>5. QED BY <1>3, <1>4

LEMMA WorkHandling ==
  ASSUME TypeInv, LeaseInv, StateInv, HandlingInv, NEW w \in Workers, Work(w)
  PROVE  HandlingInv'
<1>1. w \in Procs
  BY DEF Procs
<1>2. ASSUME NEW j \in Jobs, SkipDelivery(w, j) PROVE HandlingInv'
  BY <1>1, <1>2, SameFinal, NoFinalHandling DEF SkipDelivery, NoFinal, provider
<1>3. CASE CheckAccess(w) \/ ProviderAccepts(w) \/ SubmitRejected(w) \/ SubmitReturns(w)
           \/ Poll(w) \/ Store(w) \/ StopProvider(w) \/ Send(w) \/ SendFails(w)
  <2>1. UNCHANGED << job, credits, alarmed >>
    BY <1>3 DEF CheckAccess, ProviderAccepts, SubmitRejected, SubmitReturns, Poll, Store,
                StopProvider, Send, SendFails
  <2>2. \A i \in Jobs : gens[i] > 0 => gens'[i] > 0
    BY <1>3 DEF CheckAccess, ProviderAccepts, SubmitRejected, SubmitReturns, Poll, Store,
                StopProvider, Send, SendFails, provider, TypeInv, TypeOK
  <2>3. \A i \in Jobs : FinalKept(i)
    BY <2>1, <2>2 DEF FinalKept, SameCore, SameClaim, credits
  <2>4. \/ \E r \in Results : Conclude(w, r)
        \/ \E l \in {"mark", "submitted", "commit"} : GoTo(w, l)
        \/ End(w)
    BY <1>3 DEF CheckAccess, ProviderAccepts, SubmitRejected, SubmitReturns, Poll, Store,
                StopProvider, Send, SendFails, Results
  <2>5. NoFinal(w) /\ \A q \in Procs : q # w => run'[q] = run[q]
    BY <1>1, <2>4, ConcludeFields, GoToFields, EndFields DEF TypeInv, PCs, NoFinal, FinalPCs
  <2>6. QED BY <1>1, <2>3, <2>5, NoFinalHandling
<1>4. CASE Release(w)
  <2>1. PICK j \in Jobs : j = run[w].job /\ job[j] \in JobDoc
    BY <1>4, LeasedJob DEF Release, At, LeaseInv, LeaseFine
  <2>2. UNCHANGED << credits, alarmed, gens >> /\ End(w)
    BY <1>4 DEF Release, provider
  <2>3. UNCHANGED job \/ Write(j, Released(job[j]))
    BY <1>4, <2>1 DEF Release
  <2>4. \A i \in Jobs : FinalKept(i)
    BY <2>1, <2>2, <2>3, ReleasedFields, WriteFinal, SameFinal
  <2>5. NoFinal(w) /\ \A q \in Procs : q # w => run'[q] = run[q]
    BY <1>1, <2>2, EndFields DEF TypeInv, NoFinal, FinalPCs
  <2>6. QED BY <1>1, <2>4, <2>5, NoFinalHandling
<1>5. QED
  BY <1>2, <1>3, <1>4, AcquireHandling, StepHandling, MarkSubmitHandling, CommitHandling
  DEF Work

\* A step of p in the handling of job j.
LEMMA OneHandling ==
  ASSUME TypeInv, HandlingInv, NEW p \in Procs, NEW j \in Jobs,
         \A q \in Procs : q # p => run'[q] = run[q],
         \A i \in Jobs : i # j => FinalKept(i),
         run'[p].job = j \/ run'[p].pc \notin HandlePCs,
         \A q \in Procs : Handling(p, j)' /\ Handling(q, j) => q = p,
         HandledFine(j)', FinishFine(p)',
         \A q \in Procs : q # p /\ run[q].job = j => FinishFine(q)'
  PROVE  HandlingInv'
<1>1. \A q \in Procs, i \in Jobs : i # j /\ Handling(q, i)' => Handling(q, i)
  BY DEF Handling, HandlePCs
<1>2. ASSUME NEW i \in Jobs PROVE HandledFine(i)'
  BY <1>1, HandledFineKept DEF HandlingInv
<1>3. ASSUME NEW q \in Procs PROVE FinishFine(q)'
  BY FinishFineKept DEF HandlingInv
<1>4. ASSUME NEW i \in Jobs, NEW q \in Procs, NEW v \in Procs, Handling(q, i)', Handling(v, i)'
      PROVE  q = v
  <2>1. CASE i # j
    BY <1>1, <1>4, <2>1 DEF HandlingInv
  <2>2. CASE i = j
    <3>1. \A u \in Procs : u # p /\ Handling(u, j)' => Handling(u, j)
      BY DEF Handling
    <3>2. QED BY <1>4, <2>2, <3>1 DEF HandlingInv
  <2>3. QED BY <2>1, <2>2
<1>5. QED BY <1>2, <1>3, <1>4 DEF HandlingInv

\* What a process in the terminal handling knows.
LEMMA FinalKnows ==
  ASSUME TypeInv, StateInv, HandlingInv, NEW p \in Procs, run[p].pc \in FinalPCs,
         NEW j \in Jobs, j = run[p].job
  PROVE  /\ job[j].state \in Terminal
         /\ run[p].doc.state = job[j].state /\ run[p].doc.billedBlock = job[j].billedBlock
         /\ Charged(run[p].doc) = Charged(job[j])
         /\ run[p].pc \in HandlePCs =>
              /\ job[j].claim # "none" /\ job[j].claim # "old" /\ ~job[j].handled
              /\ ~alarmed[j]
              /\ \A q \in Procs : Handling(q, j) => q = p
         /\ run[p].pc = "settle" => charges[j] = 0 /\ refunds[j] = 0
         /\ run[p].pc \in {"record", "finish"} => Paid(j)
         /\ run[p].pc = "finish" => Recorded(j)
<1>1. FinishFine(p) /\ HandledFine(j)
  BY DEF HandlingInv
<1>2. Charged(run[p].doc) = Charged(job[j])
  BY <1>1, SameCharged DEF FinishFine
<1>3. run[p].pc \in HandlePCs => Handling(p, j)
  BY DEF Handling, HandlePCs
<1>4. run[p].pc \in HandlePCs => \A q \in Procs : Handling(q, j) => q = p
  BY <1>3 DEF HandlingInv
<1>5. QED BY <1>1, <1>2, <1>3, <1>4 DEF FinishFine, HandledFine, HandlePCs

LEMMA LeaveFinal ==
  ASSUME TypeInv, NEW p \in Procs, Leave(p)
  PROVE  /\ run'[p].pc \notin FinalPCs \cup {"step"} \cup HandlePCs
         /\ \A q \in Procs : q # p => run'[q] = run[q]
BY GoToFields, EndFields DEF Leave, TypeInv, PCs, FinalPCs, HandlePCs

LEMMA FinalJob ==
  ASSUME TypeInv, NEW p \in Procs, NEW l \in FinalPCs, At(p, l)
  PROVE  run[p].job \in Jobs /\ job[run[p].job] \in JobDoc
BY DEF At, TypeInv, TypeOK, ProcOK, ProcFine, FinalPCs

LEMMA ClaimHandling ==
  ASSUME TypeInv, StateInv, HandlingInv, NEW p \in Procs, Claim(p)
  PROVE  HandlingInv'
<1>1. PICK j \in Jobs : j = run[p].job /\ job[j] \in JobDoc
  BY FinalJob DEF Claim, FinalPCs
<1>2. run[p].pc = "claim" /\ UNCHANGED << credits, gens >>
  BY DEF Claim, At, provider
<1>3. CASE ~Claimable(job[j])
  <2>1. Leave(p) /\ UNCHANGED job
        /\ alarmed' = [alarmed EXCEPT
             ![j] = @ \/ (run[p].doc.claim # "none" /\ job[j].claim = "old")]
    BY <1>1, <1>3 DEF Claim
  <2>2. \A i \in Jobs : i # j => FinalKept(i)
    BY <1>2, <2>1 DEF FinalKept, SameCore, SameClaim, credits, TypeInv, TypeOK
  <2>3. alarmed'[j] => alarmed[j] \/ job[j].claim = "old"
    BY <2>1 DEF TypeInv, TypeOK
  <2>4. alarmed'[j] => job[j].claim = "old"
    BY <2>3 DEF HandlingInv, HandledFine
  <2>5. \A q \in Procs : Handling(q, j)' => Handling(q, j)
    BY <2>1, LeaveFinal DEF Handling, HandlePCs
  <2>6. (Paid(j)' <=> Paid(j)) /\ (Recorded(j)' <=> Recorded(j))
    BY <1>2, <2>1 DEF Paid, Recorded, credits
  <2>7. HandledFine(j)'
    BY <1>2, <2>1, <2>4, <2>5, <2>6 DEF HandlingInv, HandledFine, credits, IsSync
  <2>8. FinishFine(p)'
    BY <2>1, LeaveFinal DEF FinishFine, FinalPCs
  <2>9. ASSUME NEW q \in Procs, q # p, run[q].job = j PROVE FinishFine(q)'
    <3>1. run'[q] = run[q] /\ FinishFine(q)
      BY <2>1, <2>9, LeaveFinal DEF HandlingInv
    <3>2. QED BY <1>2, <2>1, <2>6, <2>9, <3>1 DEF FinishFine, credits
  <2>10. ~Handling(p, j)'
    BY <2>1, LeaveFinal DEF Handling, HandlePCs
  <2>11. QED
    BY <2>1, <2>2, <2>7, <2>8, <2>9, <2>10, LeaveFinal, OneHandling
<1>4. CASE Claimable(job[j])
  <2> DEFINE e == [job[j] EXCEPT !.claim = "fresh"]
  <2>1. Write(j, e) /\ GoTo(p, "settle") /\ UNCHANGED alarmed /\ job[j].claim = "none"
    BY <1>1, <1>4 DEF Claim, Claimable
  <2>2. e.claim = "fresh" /\ e.handled = job[j].handled /\ e.settled = job[j].settled
        /\ SameCore(job[j], e)
    BY <1>1, ClaimField
  <2> HIDE DEF e
  <2>3. job'[j] = e /\ \A i \in Jobs : i # j => job'[i] = job[i]
    BY <2>1, WriteOne DEF TypeInv
  <2>4. /\ run'[p].pc = "settle" /\ run'[p].job = j /\ run'[p].doc = run[p].doc
        /\ \A q \in Procs : q # p => run'[q] = run[q]
    BY <1>1, <2>1, GoToFields DEF TypeInv, PCs
  <2>5. /\ charges[j] = 0 /\ refunds[j] = 0 /\ ~job[j].handled /\ ~alarmed[j]
        /\ \A q \in Procs : ~Handling(q, j)
    BY <2>1 DEF HandlingInv, HandledFine, FinishFine, Handling
  <2>6. /\ job[j].state \in Terminal
        /\ run[p].doc.state = job[j].state /\ run[p].doc.billedBlock = job[j].billedBlock
    BY <1>1, <1>2, FinalKnows DEF FinalPCs
  <2>7. \A i \in Jobs : i # j => FinalKept(i)
    BY <1>2, <2>1, <2>3 DEF FinalKept, SameCore, SameClaim, credits
  <2>8. HandledFine(j)'
    BY <1>2, <2>1, <2>2, <2>3, <2>5, <2>6 DEF HandledFine, credits, SameCore
  <2>9. FinishFine(p)'
    BY <1>2, <2>2, <2>3, <2>4, <2>5, <2>6 DEF FinishFine, credits, SameCore
  <2>10. ASSUME NEW q \in Procs, q # p, run[q].job = j PROVE FinishFine(q)'
    <3>1. run'[q] = run[q] /\ FinishFine(q) /\ run[q].pc \notin HandlePCs
      BY <2>4, <2>5, <2>10 DEF HandlingInv, Handling, HandlePCs
    <3>2. QED
      BY <2>1, <2>2, <2>3, <2>10, <3>1 DEF FinishFine, SameCore, HandlePCs
  <2>11. QED BY <2>4, <2>5, <2>7, <2>8, <2>9, <2>10, OneHandling
<1>5. QED BY <1>3, <1>4

LEMMA SettleHandling ==
  ASSUME TypeInv, StateInv, HandlingInv, NEW p \in Procs, Settle(p)
  PROVE  HandlingInv'
<1>1. PICK j \in Jobs : j = run[p].job /\ job[j] \in JobDoc
  BY FinalJob DEF Settle, FinalPCs
<1>2. run[p].pc = "settle" /\ UNCHANGED << job, alarmed, gens >>
  BY DEF Settle, At, provider
<1>3. /\ job[j].state \in Terminal /\ run[p].doc.state = job[j].state
      /\ run[p].doc.billedBlock = job[j].billedBlock
      /\ Charged(run[p].doc) = Charged(job[j])
      /\ job[j].claim # "none" /\ job[j].claim # "old" /\ ~job[j].handled /\ ~alarmed[j]
      /\ \A q \in Procs : Handling(q, j) => q = p
      /\ charges[j] = 0 /\ refunds[j] = 0
  BY <1>1, <1>2, FinalKnows DEF FinalPCs, HandlePCs
<1>4. /\ run'[p].pc = "record" /\ run'[p].job = j /\ run'[p].doc = run[p].doc
      /\ \A q \in Procs : q # p => run'[q] = run[q]
  BY <1>1, GoToFields DEF Settle, TypeInv, PCs
<1>5. /\ \A i \in Jobs : i # j => charges'[i] = charges[i] /\ refunds'[i] = refunds[i]
      /\ charges'[j] = IF Charged(job[j]) THEN 1 ELSE 0
      /\ refunds'[j] = IF Charged(job[j]) THEN 0 ELSE 1
  BY <1>1, <1>3 DEF Settle, TypeInv, TypeOK
<1>6. \A i \in Jobs : i # j => FinalKept(i)
  BY <1>2, <1>5 DEF FinalKept, SameCore, SameClaim
<1>7. Charged(job[j])' = Charged(job[j])
  BY <1>2
<1>8. HandledFine(j)'
  <2>1. IsSync(j)' /\ charges'[j] > 0 => gens'[j] > 0
    BY <1>2, <1>5 DEF IsSync, Charged, StateInv, JobFine
  <2>2. QED BY <1>2, <1>3, <2>1 DEF HandledFine
<1>9. FinishFine(p)'
  <2>1. Paid(j)'
    BY <1>5, <1>7 DEF Paid
  <2>2. QED BY <1>2, <1>3, <1>4, <2>1 DEF FinishFine
<1>10. ASSUME NEW q \in Procs, q # p, run[q].job = j PROVE FinishFine(q)'
  <2>1. run'[q] = run[q] /\ FinishFine(q) /\ run[q].pc \notin HandlePCs
    BY <1>3, <1>4, <1>10 DEF HandlingInv, Handling, HandlePCs
  <2>2. QED BY <1>2, <1>10, <2>1 DEF FinishFine, HandlePCs
<1>11. QED BY <1>3, <1>4, <1>6, <1>8, <1>9, <1>10, OneHandling

LEMMA RecordHandling ==
  ASSUME TypeInv, StateInv, HandlingInv, NEW p \in Procs, RecordSettlement(p)
  PROVE  HandlingInv'
<1>1. PICK j \in Jobs : j = run[p].job /\ job[j] \in JobDoc
  BY FinalJob DEF RecordSettlement, FinalPCs
<1>2. run[p].pc = "record" /\ UNCHANGED << credits, alarmed, gens >>
  BY DEF RecordSettlement, At, provider
<1>3. /\ job[j].state \in Terminal /\ run[p].doc.state = job[j].state
      /\ run[p].doc.billedBlock = job[j].billedBlock
      /\ Charged(run[p].doc) = Charged(job[j])
      /\ job[j].claim # "none" /\ job[j].claim # "old" /\ ~job[j].handled /\ ~alarmed[j]
      /\ \A q \in Procs : Handling(q, j) => q = p
      /\ Paid(j)
  BY <1>1, <1>2, FinalKnows DEF FinalPCs, HandlePCs
<1>4. /\ run'[p].pc = "finish" /\ run'[p].job = j /\ run'[p].doc = run[p].doc
      /\ \A q \in Procs : q # p => run'[q] = run[q]
  BY <1>1, GoToFields DEF RecordSettlement, TypeInv, PCs
<1> DEFINE v == IF Charged(job[j]) THEN "charged" ELSE "zero"
           e == [job[j] EXCEPT !.settled = v]
<1>5. Write(j, e)
  BY <1>1, <1>3 DEF RecordSettlement
<1> HIDE DEF v
<1>6. e.settled = v /\ e.claim = job[j].claim /\ e.handled = job[j].handled
      /\ SameCore(job[j], e)
  BY <1>1, SettledField
<1> HIDE DEF e
<1>7. job'[j] = e /\ \A i \in Jobs : i # j => job'[i] = job[i]
  BY <1>5, WriteOne DEF TypeInv
<1>8. \A i \in Jobs : i # j => FinalKept(i)
  BY <1>2, <1>7 DEF FinalKept, SameCore, SameClaim, credits
<1>9. Charged(e) = Charged(job[j])
  BY <1>6, SameCharged DEF SameCore
<1>10. HandledFine(j)'
  <2>1. IsSync(j)' /\ charges'[j] > 0 => gens'[j] > 0
    BY <1>2, <1>6, <1>7 DEF IsSync, SameCore, HandlingInv, HandledFine, credits
  <2>2. QED BY <1>2, <1>3, <1>6, <1>7, <2>1 DEF HandledFine, SameCore
<1>11. FinishFine(p)'
  <2>1. Paid(j)'
    BY <1>2, <1>3, <1>7, <1>9 DEF Paid, credits
  <2>2. Recorded(j)'
    BY <1>6, <1>7, <1>9 DEF Recorded, v
  <2>3. QED BY <1>3, <1>4, <1>6, <1>7, <2>1, <2>2 DEF FinishFine, SameCore
<1>12. ASSUME NEW q \in Procs, q # p, run[q].job = j PROVE FinishFine(q)'
  <2>1. run'[q] = run[q] /\ FinishFine(q) /\ run[q].pc \notin HandlePCs
    BY <1>3, <1>4, <1>12 DEF HandlingInv, Handling, HandlePCs
  <2>2. QED BY <1>6, <1>7, <1>12, <2>1 DEF FinishFine, HandlePCs, SameCore
<1>13. QED BY <1>3, <1>4, <1>8, <1>10, <1>11, <1>12, OneHandling

LEMMA MarkHandledHandling ==
  ASSUME TypeInv, StateInv, HandlingInv, NEW p \in Procs, MarkHandled(p)
  PROVE  HandlingInv'
<1>1. PICK j \in Jobs : j = run[p].job /\ job[j] \in JobDoc
  BY FinalJob DEF MarkHandled, FinalPCs
<1>2. run[p].pc = "finish" /\ UNCHANGED << credits, alarmed, gens >> /\ Leave(p)
  BY DEF MarkHandled, At, provider
<1>3. /\ job[j].state \in Terminal
      /\ job[j].claim # "none" /\ job[j].claim # "old" /\ ~alarmed[j]
      /\ \A q \in Procs : Handling(q, j) => q = p
      /\ Paid(j) /\ Recorded(j)
  BY <1>1, <1>2, FinalKnows DEF FinalPCs, HandlePCs
<1>4. /\ run'[p].pc \notin FinalPCs \cup {"step"} \cup HandlePCs
      /\ \A q \in Procs : q # p => run'[q] = run[q]
  BY <1>2, LeaveFinal
<1> DEFINE e == [job[j] EXCEPT !.handled = TRUE]
<1>5. Write(j, e)
  BY <1>1 DEF MarkHandled
<1>6. e.handled /\ e.claim = job[j].claim /\ e.settled = job[j].settled /\ SameCore(job[j], e)
  BY <1>1, HandledField
<1> HIDE DEF e
<1>7. job'[j] = e /\ \A i \in Jobs : i # j => job'[i] = job[i]
  BY <1>5, WriteOne DEF TypeInv
<1>8. \A i \in Jobs : i # j => FinalKept(i)
  BY <1>2, <1>7 DEF FinalKept, SameCore, SameClaim, credits
<1>9. Charged(e) = Charged(job[j])
  BY <1>6, SameCharged DEF SameCore
<1>10. HandledFine(j)'
  <2>1. IsSync(j)' /\ charges'[j] > 0 => gens'[j] > 0
    BY <1>2, <1>6, <1>7 DEF IsSync, SameCore, HandlingInv, HandledFine, credits
  <2>2. Paid(j)' /\ Recorded(j)'
    BY <1>2, <1>3, <1>6, <1>7, <1>9 DEF Paid, Recorded, credits
  <2>3. QED BY <1>2, <1>3, <1>6, <1>7, <2>1, <2>2 DEF HandledFine, SameCore
<1>11. FinishFine(p)'
  BY <1>4 DEF FinishFine, FinalPCs
<1>12. ASSUME NEW q \in Procs, q # p, run[q].job = j PROVE FinishFine(q)'
  <2>1. run'[q] = run[q] /\ FinishFine(q) /\ run[q].pc \notin HandlePCs
    BY <1>3, <1>4, <1>12 DEF HandlingInv, Handling, HandlePCs
  <2>2. QED BY <1>3, <1>6, <1>7, <1>12, <2>1 DEF FinishFine, HandlePCs, SameCore
<1>13. ~Handling(p, j)'
  BY <1>4 DEF Handling, HandlePCs
<1>14. QED BY <1>4, <1>8, <1>10, <1>11, <1>12, <1>13, OneHandling

LEMMA FinishHandling ==
  ASSUME TypeInv, StateInv, HandlingInv, NEW p \in Procs, Finish(p) \/ Crash(p)
  PROVE  HandlingInv'
<1>1. CASE Crash(p)
  <2>1. UNCHANGED << job, credits, alarmed, gens >> /\ End(p)
    BY <1>1 DEF Crash, provider
  <2>2. NoFinal(p) /\ \A q \in Procs : q # p => run'[q] = run[q]
    BY <2>1, EndFields DEF TypeInv, NoFinal, FinalPCs
  <2>3. QED BY <2>1, <2>2, SameFinal, NoFinalHandling
<1>2. QED
  BY <1>1, ClaimHandling, SettleHandling, RecordHandling, MarkHandledHandling DEF Finish

LEMMA OtherHandling ==
  ASSUME TypeInv, HandlingInv, HardKill, NEW j \in Jobs,
         Clock(j) \/ RequestCancel(j) \/ Sweep(j) \/ LoseMessage(j)
  PROVE  HandlingInv'
<1>1. job[j] \in JobDoc /\ j \in Procs
  BY DEF TypeInv, TypeOK, Procs
<1>2. UNCHANGED << run, credits, alarmed, gens >>
  BY DEF Clock, BecomesDue, DeadlinePasses, LeaseExpires, ClaimAges, RequestCancel, Sweep,
         LoseMessage, provider
<1>3. CASE ~ClaimAges(j)
  <2>1. \/ UNCHANGED job
        \/ \E e : Write(j, e) /\ SameCore(job[j], e) /\ SameClaim(job[j], e)
    BY <1>3, OtherWrites
  <2>2. \A i \in Jobs : FinalKept(i)
    BY <1>2, <2>1, WriteFinal, SameFinal
  <2>3. QED BY <1>1, <1>2, <2>2, NoFinalHandling DEF NoFinal
<1>4. CASE ClaimAges(j)
  <2> DEFINE e == [job[j] EXCEPT !.claim = "old"]
  <2>1. Write(j, e) /\ job[j].claim = "fresh" /\ \A p \in Procs : ~Handling(p, j)
    BY <1>4 DEF ClaimAges
  <2>2. /\ e.claim = "old" /\ e.handled = job[j].handled /\ e.settled = job[j].settled
        /\ SameCore(job[j], e)
    BY <1>1, ClaimField
  <2> HIDE DEF e
  <2>3. job'[j] = e /\ \A i \in Jobs : i # j => job'[i] = job[i]
    BY <2>1, WriteOne DEF TypeInv
  <2>4. \A i \in Jobs : i # j => FinalKept(i)
    BY <1>2, <2>3 DEF FinalKept, SameCore, SameClaim, credits
  <2>5. Charged(e) = Charged(job[j])
    BY <2>2, SameCharged DEF SameCore
  <2>6. (Paid(j)' <=> Paid(j)) /\ (Recorded(j)' <=> Recorded(j))
    BY <1>2, <2>2, <2>3, <2>5 DEF Paid, Recorded, credits
  <2>7. HandledFine(j)'
    <3>1. HandledFine(j) /\ ~alarmed[j]
      BY <2>1 DEF HandlingInv, HandledFine
    <3>2. \A p \in Procs : ~Handling(p, j)'
      BY <1>2, <2>1 DEF Handling
    <3>3. IsSync(j)' = IsSync(j)
      BY <2>2, <2>3 DEF IsSync, SameCore
    <3>4. QED
      BY <1>2, <2>1, <2>2, <2>3, <2>6, <3>1, <3>2, <3>3 DEF HandledFine, SameCore, credits
  <2>8. ASSUME NEW q \in Procs, run[q].job = j PROVE FinishFine(q)'
    <3>1. run'[q] = run[q] /\ FinishFine(q) /\ run[q].pc \notin HandlePCs
      BY <1>2, <2>1, <2>8 DEF HandlingInv, Handling, HandlePCs
    <3>2. QED BY <2>1, <2>2, <2>3, <2>8, <3>1 DEF FinishFine, HandlePCs, SameCore
  <2>9. \A q \in Procs : FinishFine(q)'
    BY <1>2, <2>4, <2>8, FinishFineKept DEF HandlingInv
  <2>10. \A q \in Procs, i \in Jobs : Handling(q, i)' <=> Handling(q, i)
    BY <1>2 DEF Handling
  <2>11. \A i \in Jobs : HandledFine(i)'
    BY <2>4, <2>7, <2>10, HandledFineKept DEF HandlingInv
  <2>12. QED BY <2>9, <2>10, <2>11 DEF HandlingInv
<1>5. QED BY <1>3, <1>4

LEMMA InitHandling == Init => HandlingInv
<1> SUFFICES ASSUME Init PROVE HandlingInv
  OBVIOUS
<1>1. ASSUME NEW p \in Procs PROVE run[p].pc \notin FinalPCs \cup {"step"}
  <2>1. run[p] = IF p \in Jobs THEN Task("enqueue", p) ELSE Rest
    BY DEF Init
  <2>2. run[p].pc \in {"enqueue", "idle"}
    BY <2>1 DEF Rest, Task
  <2>3. QED BY <2>2 DEF FinalPCs
<1>2. ASSUME NEW j \in Jobs PROVE HandledFine(j)
  <2>1. PICK k : job[j] = NewJob(k)
    BY DEF Init
  <2>2. charges[j] = 0 /\ refunds[j] = 0 /\ ~alarmed[j]
    BY DEF Init
  <2>3. QED BY <2>1, <2>2 DEF NewJob, HandledFine
<1>3. \A p \in Procs : FinishFine(p)
  BY <1>1 DEF FinishFine, FinalPCs
<1>4. \A p \in Procs, j \in Jobs : ~Handling(p, j)
  BY <1>1 DEF Handling, FinalPCs
<1>5. QED BY <1>2, <1>3, <1>4 DEF HandlingInv

Inv == TypeInv /\ OwnInv /\ LeaseInv /\ StateInv /\ ProviderInv /\ HandlingInv

LEMMA HandlingStep == HardKill /\ Inv /\ [Next]_vars => HandlingInv'
<1> SUFFICES ASSUME HardKill, Inv, [Next]_vars PROVE HandlingInv'
  OBVIOUS
<1> USE DEF Inv
<1>1. CASE UNCHANGED vars
  <2>1. UNCHANGED << job, credits, alarmed, gens, run >>
    BY <1>1 DEF vars, credits
  <2>2. \A i \in Jobs : FinalKept(i)
    BY <2>1, SameFinal
  <2>3. CASE \E p \in Procs : TRUE
    BY <2>1, <2>2, <2>3, NoFinalHandling DEF NoFinal
  <2>4. CASE ~\E p \in Procs : TRUE
    BY <2>1, <2>2, <2>4, HandledFineKept DEF HandlingInv
  <2>5. QED BY <2>3, <2>4
<1>2. CASE Next
  BY <1>2, CreateHandling, WorkHandling, FinishHandling, OtherHandling DEF Next
<1>3. QED BY <1>1, <1>2

\* With a hard kill, every step of the engine keeps the whole invariant.
THEOREM Invariance == ASSUME HardKill PROVE Spec => []Inv
<1>1. Init => Inv
  BY InitType, InitOwn, InitLease, InitState, InitProvider, InitHandling DEF Inv
<1>2. Inv /\ [Next]_vars => Inv'
  BY TypeStep, OwnStep, LeaseStep, StateStep, ProviderStep, HandlingStep DEF Inv
<1>3. QED BY <1>1, <1>2, PTL DEF Spec

-----------------------------------------------------------------------------
(* What an owner sees of a step: nothing, a move of one job's state, an      *)
(* accepted cancel, or a settlement.                                         *)

Calm == (\A i \in Jobs : SameCore(job[i], job'[i]) /\ SameAsk(job[i], job'[i])) /\ UNCHANGED credits
Moves(j) ==
  LET s == job[j].state
      t == job'[j].state
  IN
  /\ \A i \in Jobs : i # j => job'[i] = job[i]
  /\ job'[j].kind = job[j].kind /\ SameAsk(job[j], job'[j]) /\ UNCHANGED credits
  /\ s \in NonTerminal
  /\ t = s \/ /\ t \in Contract!Successors(j, s)
              /\ t = "cancelled" => job[j].cancelRequested
              /\ IsSync(j) /\ job[j].cancelRequested => t # "running"

LEMMA SuccessorsOf ==
  ASSUME NEW j \in Jobs
  PROVE  /\ IsSync(j) =>
              /\ Contract!Successors(j, "pending") = {"running", "failed", "cancelled"}
              /\ Contract!Successors(j, "running") = {"pending", "succeeded", "failed", "blocked"}
         /\ ~IsSync(j) =>
              /\ Contract!Successors(j, "pending") = {"running", "failed", "cancelled"}
              /\ Contract!Successors(j, "running") = {"storing", "failed", "blocked", "cancelled"}
              /\ Contract!Successors(j, "storing") = {"succeeded", "failed"}
BY DEF Contract!Successors

LEMMA CommitMoves ==
  ASSUME Inv, NEW w \in Workers, Commit(w), NEW j \in Jobs, j = run[w].job,
         LeaseGuard(job[j], w)
  PROVE  Moves(j)
<1> USE DEF Inv
<1> DEFINE e == job'[j]
           d == run[w].doc
           r == run[w].result
           s == job[j].state
<1>1. /\ e.kind = job[j].kind /\ e.state = StateAfter(job[j], d, r) /\ SameAsk(job[j], e)
      /\ \A i \in Jobs : i # j => job'[i] = job[i]
  BY CommitFacts
<1>2. /\ Read(d, s, IsSync(j)) /\ r \in Outcomes(s, IsSync(j))
      /\ r = "cancelled" => job[j].cancelRequested
      /\ JobFine(j) /\ s \in NonTerminal
  BY CommitKnows DEF Commit
<1>3. UNCHANGED credits
  BY DEF Commit
<1> HIDE DEF d, r
<1>4. e.state = "cancelled" => job[j].cancelRequested
  BY <1>1, <1>2
  DEF StateAfter, TerminalOf, TerminalResults, FailedResults, BlockedResults, NonTerminal,
      Resubmits, Outcomes, Failing
<1>5. CASE IsSync(j)
  <2>1. s \in {"pending", "running"}
    BY <1>2, <1>5 DEF Outcomes
  <2>2. CASE s = "pending"
    <3>1. r \in Failing \cup {"release", "cancelled", "timeout"}
      BY <1>2, <1>5, <2>2 DEF Outcomes
    <3>2. e.state \in {"pending", "failed", "cancelled"}
      BY <1>1, <2>2, <3>1
      DEF StateAfter, TerminalOf, TerminalResults, FailedResults, BlockedResults, Failing,
          Resubmits
    <3>3. QED BY <1>1, <1>2, <1>3, <1>4, <1>5, <2>2, <3>2, SuccessorsOf DEF Moves
  <2>3. CASE s = "running"
    <3>1. r \in Failing \cup {"retry", "succeeded", "blocked", "billed_block"}
      BY <1>2, <1>5, <2>3 DEF Outcomes
    <3>2. e.state \in {"pending", "running", "failed", "succeeded", "blocked"}
      BY <1>1, <2>3, <3>1
      DEF StateAfter, TerminalOf, TerminalResults, FailedResults, BlockedResults, Failing,
          Resubmits
    <3>3. QED BY <1>1, <1>2, <1>3, <1>4, <1>5, <2>3, <3>2, SuccessorsOf DEF Moves
  <2>4. QED BY <2>1, <2>2, <2>3
<1>6. CASE ~IsSync(j)
  <2>1. d.state = s
    BY <1>2, <1>6 DEF Read
  <2>2. CASE s = "pending"
    <3>1. r \in Failing \cup {"release", "cancelled", "timeout", "retry", "running"}
      BY <1>2, <1>6, <2>2 DEF Outcomes
    <3>2. e.state \in {"pending", "running", "failed", "cancelled"}
      BY <1>1, <2>2, <3>1
      DEF StateAfter, TerminalOf, TerminalResults, FailedResults, BlockedResults, Failing,
          Resubmits
    <3>3. QED BY <1>1, <1>2, <1>3, <1>4, <1>6, <2>2, <3>2, SuccessorsOf DEF Moves
  <2>3. CASE s = "running"
    <3>1. r \in Failing \cup {"release", "cancelled", "timeout", "retry", "poll_again",
                              "storing", "blocked", "billed_block"}
      BY <1>2, <1>6, <2>3 DEF Outcomes
    <3>2. e.state \in {"running", "storing", "failed", "blocked", "cancelled"}
      BY <1>1, <2>1, <2>3, <3>1
      DEF StateAfter, TerminalOf, TerminalResults, FailedResults, BlockedResults, Failing,
          Resubmits
    <3>3. QED BY <1>1, <1>2, <1>3, <1>4, <1>6, <2>3, <3>2, SuccessorsOf DEF Moves
  <2>4. CASE s = "storing"
    <3>1. r \in Failing \cup {"release", "retry", "succeeded"}
      BY <1>2, <1>6, <2>4 DEF Outcomes
    <3>2. e.state \in {"storing", "failed", "succeeded"}
      BY <1>1, <2>1, <2>4, <3>1
      DEF StateAfter, TerminalOf, TerminalResults, FailedResults, BlockedResults, Failing,
          Resubmits
    <3>3. QED BY <1>1, <1>2, <1>3, <1>4, <1>6, <2>4, <3>2, SuccessorsOf DEF Moves
  <2>5. QED BY <1>2, <2>2, <2>3, <2>4 DEF NonTerminal
<1>7. QED BY <1>5, <1>6

LEMMA SameCalm == ASSUME UNCHANGED << job, credits >> PROVE Calm
BY DEF Calm, SameCore, SameAsk

LEMMA WriteCalm ==
  ASSUME Inv, NEW j \in Jobs, NEW e, Write(j, e), UNCHANGED credits,
         SameCore(job[j], e), SameAsk(job[j], e)
  PROVE  Calm
BY WriteOne DEF Inv, TypeInv, Calm, SameCore, SameAsk

LEMMA WorkSeen ==
  ASSUME Inv, NEW w \in Workers, Work(w)
  PROVE  Calm \/ \E j \in Jobs : Moves(j)
<1> USE DEF Inv
<1>1. \A j \in Jobs : job[j] \in JobDoc
  BY DEF TypeInv, TypeOK
<1>2. ASSUME NEW j \in Jobs, Acquire(w, j) PROVE Calm
  <2>1. Write(j, Leased(job[j], w)) /\ UNCHANGED credits
    BY <1>2 DEF Acquire
  <2>2. QED BY <1>1, <2>1, LeasedFields, WriteCalm
<1>3. CASE Release(w)
  <2>1. PICK j \in Jobs : j = run[w].job
    BY <1>3, LeasedJob DEF Release, At, LeaseInv, LeaseFine
  <2>2. UNCHANGED credits /\ (UNCHANGED job \/ Write(j, Released(job[j])))
    BY <1>3, <2>1 DEF Release
  <2>3. QED BY <1>1, <2>2, ReleasedFields, WriteCalm, SameCalm
<1>4. CASE Commit(w)
  <2>1. PICK j \in Jobs : j = run[w].job
    BY <1>4, StepLeased DEF Commit, StepPCs
  <2>2. CASE LeaseGuard(job[j], w)
    BY <1>4, <2>1, <2>2, CommitMoves
  <2>3. CASE ~LeaseGuard(job[j], w)
    BY <1>4, <2>1, <2>3, SameCalm DEF Commit
  <2>4. QED BY <2>2, <2>3
<1>5. CASE MarkSubmit(w)
  <2>1. PICK j \in Jobs : j = run[w].job
    BY <1>5, StepLeased DEF MarkSubmit, StepPCs
  <2>2. CASE ~CanMarkSubmit(job[j])
    BY <1>5, <2>1, <2>2, SameCalm DEF MarkSubmit
  <2>3. CASE CanMarkSubmit(job[j])
    <3> DEFINE e == SubmitMarked(job[j], IsSync(j))
    <3>1. Write(j, e) /\ UNCHANGED credits /\ job[j].state = "pending"
          /\ ~job[j].cancelRequested
      BY <1>5, <2>1, <2>3 DEF MarkSubmit, StateInv, StepFine, At, CanMarkSubmit
    <3>2. IsSync(j) \in BOOLEAN
      BY DEF IsSync
    <3>3. e.kind = job[j].kind /\ SameAsk(job[j], e) /\ e.state \in {"pending", "running"}
      BY <1>1, <3>1, <3>2, MarkedFields
    <3> HIDE DEF e
    <3>4. job'[j] = e /\ \A i \in Jobs : i # j => job'[i] = job[i]
      BY <3>1, WriteOne DEF TypeInv
    <3>5. QED BY <3>1, <3>3, <3>4, SuccessorsOf DEF Moves, NonTerminal
  <2>4. QED BY <2>2, <2>3
<1>6. CASE ~(Commit(w) \/ MarkSubmit(w) \/ Release(w) \/ \E j \in Jobs : Acquire(w, j))
  <2>1. UNCHANGED << job, credits >>
    BY <1>6
    DEF Work, SkipDelivery, Step, CheckAccess, ProviderAccepts, SubmitRejected, SubmitReturns,
        Poll, Store, StopProvider, Send, SendFails
  <2>2. QED BY <2>1, SameCalm
<1>7. QED BY <1>2, <1>3, <1>4, <1>5, <1>6

LEMMA CreateSeen ==
  ASSUME Inv, NEW j \in Jobs, Create(j)
  PROVE  Calm \/ Moves(j)
<1> USE DEF Inv
<1>1. job[j] \in JobDoc /\ UNCHANGED credits
  BY DEF TypeInv, TypeOK, Create, EnqueueFirst, EnqueueFirstFails, FailBeforeStart
<1>2. CASE ~(FailBeforeStart(j) /\ UnstartedGuard(job[j]))
  BY <1>1, <1>2, SameCalm DEF Create, EnqueueFirst, EnqueueFirstFails, FailBeforeStart
<1>3. CASE FailBeforeStart(j) /\ UnstartedGuard(job[j])
  <2> DEFINE e == [Released(job[j]) EXCEPT !.state = "failed", !.nextPoll = "none"]
  <2>1. Write(j, e) /\ job[j].state = "pending"
    BY <1>3 DEF FailBeforeStart, UnstartedGuard
  <2>2. e.kind = job[j].kind /\ SameAsk(job[j], e) /\ e.state = "failed"
    BY <1>1, FailedFields
  <2> HIDE DEF e
  <2>3. job'[j] = e /\ \A i \in Jobs : i # j => job'[i] = job[i]
    BY <2>1, WriteOne DEF TypeInv
  <2>4. QED BY <1>1, <2>1, <2>2, <2>3, SuccessorsOf DEF Moves, NonTerminal
<1>4. QED BY <1>2, <1>3

LEMMA FinishSeen ==
  ASSUME Inv, NEW p \in Procs, Finish(p) \/ Crash(p)
  PROVE  Calm \/ Settle(p)
<1> USE DEF Inv
<1>1. PICK j \in Jobs : j = run[p].job /\ job[j] \in JobDoc
  <2>1. ~At(p, "idle")
    BY DEF Finish, Claim, Settle, RecordSettlement, MarkHandled, Crash, At
  <2>2. QED BY <2>1 DEF At, TypeInv, TypeOK, ProcOK, ProcFine
<1>2. CASE ~Settle(p)
  <2>1. UNCHANGED credits
    BY <1>2 DEF Finish, Claim, RecordSettlement, MarkHandled, Crash
  <2>2. \/ UNCHANGED job
        \/ \E e : Write(j, e) /\ SameCore(job[j], e) /\ SameAsk(job[j], e)
    BY <1>1, FinishWrites
  <2>3. QED BY <2>1, <2>2, WriteCalm, SameCalm
<1>3. QED BY <1>2

LEMMA OtherSeen ==
  ASSUME Inv, NEW j \in Jobs, Clock(j) \/ Sweep(j) \/ LoseMessage(j)
  PROVE  Calm \/ RequestCancel(j)
<1>1. UNCHANGED credits
  BY DEF Clock, BecomesDue, DeadlinePasses, ClaimAges, LeaseExpires, Sweep, LoseMessage
<1>2. \/ UNCHANGED job \/ RequestCancel(j)
      \/ \E e : Write(j, e) /\ SameCore(job[j], e) /\ SameAsk(job[j], e)
  BY OtherWrites DEF Inv
<1>3. QED BY <1>1, <1>2, WriteCalm, SameCalm

LEMMA NextSeen ==
  ASSUME Inv, [Next]_vars
  PROVE  \/ Calm
         \/ \E j \in Jobs : Moves(j) \/ RequestCancel(j)
         \/ \E p \in Procs : Settle(p)
<1>1. CASE UNCHANGED vars
  BY <1>1, SameCalm DEF vars, credits
<1>2. CASE Next
  BY <1>2, WorkSeen, CreateSeen, FinishSeen, OtherSeen DEF Next
<1>3. QED BY <1>1, <1>2

-----------------------------------------------------------------------------
(* The engine implements the contract.                                       *)

SyncJobs == {j \in Jobs : IsSync(j)}
Reported == [j \in Jobs |-> job[j].state]
Asked == [j \in Jobs |-> job[j].cancelRequested]

LEMMA CalmStep == ASSUME Calm PROVE UNCHANGED Contract!vars
<1>1. \A i \in Jobs : /\ job'[i].kind = job[i].kind /\ job'[i].state = job[i].state
                      /\ job'[i].cancelRequested = job[i].cancelRequested
  BY DEF Calm, SameCore, SameAsk
<1>2. SyncJobs' = SyncJobs /\ Reported' = Reported /\ Asked' = Asked
  BY <1>1 DEF SyncJobs, IsSync, Reported, Asked
<1>3. UNCHANGED << charges, refunds >>
  BY DEF Calm, credits
<1>4. QED BY <1>2, <1>3 DEF Contract!vars, SyncJobs, Reported, Asked

LEMMA MoveStep ==
  ASSUME NEW j \in Jobs, Moves(j)
  PROVE  Contract!Next \/ UNCHANGED Contract!vars
<1>1. /\ \A i \in Jobs : /\ job'[i].kind = job[i].kind
                         /\ job'[i].cancelRequested = job[i].cancelRequested
                         /\ i # j => job'[i].state = job[i].state
      /\ UNCHANGED << charges, refunds >>
  BY DEF Moves, SameAsk, credits
<1>2. SyncJobs' = SyncJobs /\ Asked' = Asked
  BY <1>1 DEF SyncJobs, IsSync, Asked
<1>3. CASE job'[j].state = job[j].state
  <2>1. Reported' = Reported
    BY <1>1, <1>3 DEF Reported
  <2>2. QED BY <1>1, <1>2, <2>1 DEF Contract!vars, SyncJobs, Reported, Asked
<1>4. CASE job'[j].state # job[j].state
  <2>1. PICK t : t = job'[j].state
    OBVIOUS
  <2>2. /\ t \in Contract!Successors(j, Reported[j])
        /\ t = "cancelled" => Asked[j]
        /\ j \in SyncJobs /\ Asked[j] => t # "running"
    BY <1>4, <2>1 DEF Moves, Reported, Asked, SyncJobs
  <2>3. Reported' = [Reported EXCEPT ![j] = t]
    BY <1>1, <2>1 DEF Reported
  <2>4. Contract!Move(j)
    BY <1>1, <1>2, <2>2, <2>3 DEF Contract!Move, SyncJobs, Reported, Asked
  <2>5. QED BY <1>2, <2>4 DEF Contract!Next, SyncJobs
<1>5. QED BY <1>3, <1>4

LEMMA CancelStep ==
  ASSUME Inv, NEW j \in Jobs, RequestCancel(j)
  PROVE  Contract!Next
<1>1. job[j] \in JobDoc
  BY DEF Inv, TypeInv, TypeOK
<1> DEFINE e == [job[j] EXCEPT !.cancelRequested = TRUE]
<1>2. Write(j, e) /\ Cancellable(job[j], IsSync(j)) /\ UNCHANGED << charges, refunds >>
  BY DEF RequestCancel, credits
<1>3. e.cancelRequested = TRUE /\ SameCore(job[j], e)
  BY <1>1, AskField
<1> HIDE DEF e
<1>4. job'[j] = e /\ \A i \in Jobs : i # j => job'[i] = job[i]
  BY <1>2, WriteOne DEF Inv, TypeInv
<1>5. /\ \A i \in Jobs : job'[i].kind = job[i].kind /\ job'[i].state = job[i].state
      /\ \A i \in Jobs : i # j => job'[i].cancelRequested = job[i].cancelRequested
      /\ job'[j].cancelRequested = TRUE
  BY <1>3, <1>4 DEF SameCore
<1>6. SyncJobs' = SyncJobs /\ Reported' = Reported /\ Asked' = [Asked EXCEPT ![j] = TRUE]
  BY <1>5 DEF SyncJobs, IsSync, Reported, Asked
<1>7. Reported[j] = "pending" \/ (Reported[j] = "running" /\ j \notin SyncJobs)
  BY <1>2 DEF Cancellable, Reported, SyncJobs
<1>8. Contract!AcceptCancel(j)
  BY <1>2, <1>6, <1>7 DEF Contract!AcceptCancel, SyncJobs, Reported, Asked
<1>9. QED BY <1>6, <1>8 DEF Contract!Next, SyncJobs

LEMMA SettleStep ==
  ASSUME Inv, NEW p \in Procs, Settle(p)
  PROVE  Contract!Next
<1>1. PICK j \in Jobs : j = run[p].job /\ job[j] \in JobDoc
  BY FinalJob DEF Inv, Settle, FinalPCs
<1>2. /\ job[j].state \in Terminal
      /\ Charged(run[p].doc) = Charged(job[j])
      /\ charges[j] = 0 /\ refunds[j] = 0
  BY <1>1, FinalKnows DEF Inv, Settle, At, FinalPCs
<1>3. UNCHANGED job
  BY DEF Settle
<1>4. SyncJobs' = SyncJobs /\ Reported' = Reported /\ Asked' = Asked
  BY <1>3 DEF SyncJobs, IsSync, Reported, Asked
<1>5. charges[j] + refunds[j] = 0 /\ Reported[j] = job[j].state
  BY <1>2 DEF Reported
<1>6. CASE Charged(job[j])
  <2>1. charges' = [charges EXCEPT ![j] = 1] /\ UNCHANGED refunds
    BY <1>1, <1>2, <1>6 DEF Settle
  <2>2. Reported[j] \in {"succeeded", "blocked"}
    BY <1>5, <1>6 DEF Charged
  <2>3. Contract!Charge(j)
    BY <1>4, <1>5, <2>1, <2>2 DEF Contract!Charge, SyncJobs, Reported, Asked
  <2>4. QED BY <1>4, <2>3 DEF Contract!Next, SyncJobs
<1>7. CASE ~Charged(job[j])
  <2>1. refunds' = [refunds EXCEPT ![j] = 1] /\ UNCHANGED charges
    BY <1>1, <1>2, <1>7 DEF Settle
  <2>2. Reported[j] \in {"failed", "blocked", "cancelled"}
    BY <1>2, <1>5, <1>7 DEF Charged, Terminal
  <2>3. Contract!Refund(j)
    BY <1>4, <1>5, <2>1, <2>2 DEF Contract!Refund, SyncJobs, Reported, Asked
  <2>4. QED BY <1>4, <2>3 DEF Contract!Next, SyncJobs
<1>8. QED BY <1>6, <1>7

LEMMA InitContract == Init => Contract!Init
<1> SUFFICES ASSUME Init PROVE Contract!Init
  OBVIOUS
<1>1. ASSUME NEW j \in Jobs PROVE job[j].state = "pending" /\ job[j].cancelRequested = FALSE
  <2>1. PICK k : job[j] = NewJob(k)
    BY DEF Init
  <2>2. QED BY <2>1 DEF NewJob
<1>2. Reported = [j \in Jobs |-> "pending"] /\ Asked = [j \in Jobs |-> FALSE]
  BY <1>1 DEF Reported, Asked
<1>3. SyncJobs \in SUBSET Jobs
  BY DEF SyncJobs
<1>4. QED BY <1>2, <1>3 DEF Init, Contract!Init, SyncJobs, Reported, Asked

\* With a hard kill the engine implements its contract: every step of it moves
\* one job along its states, accepts a cancel that can still save something,
\* settles a final job the way its state calls for, or shows nothing outside.
THEOREM ImplementsContract == ASSUME HardKill PROVE Spec => KeepsContract
<1>1. Inv /\ [Next]_vars => [Contract!Next]_(Contract!vars)
  BY NextSeen, CalmStep, MoveStep, CancelStep, SettleStep
<1>2. QED
  BY Invariance, InitContract, <1>1, PTL DEF Spec, KeepsContract, Contract!Spec

\* With a hard kill no step takes a job out of a terminal state: what a commit,
\* a mark or failBeforeStart writes is fenced by the lease or starts in flight.
THEOREM FinalStates == ASSUME HardKill PROVE Spec => TerminalIsFinal
<1>1. ASSUME Inv, [Next]_vars, NEW j \in Jobs, job[j].state \in Terminal
      PROVE  job'[j].state = job[j].state
  <2>1. CASE Calm
    BY <2>1 DEF Calm, SameCore
  <2>2. ASSUME NEW i \in Jobs, Moves(i) PROVE job'[j].state = job[j].state
    <3>1. job[i].state \in NonTerminal
      BY <2>2 DEF Moves
    <3>2. i # j
      BY <1>1, <3>1 DEF NonTerminal, Terminal
    <3>3. QED BY <2>2, <3>2 DEF Moves
  <2>3. ASSUME NEW i \in Jobs, RequestCancel(i) PROVE job'[j].state = job[j].state
    <3>1. job[j].state \in Terminal /\ job[i] \in JobDoc
      BY <1>1 DEF Inv, TypeInv, TypeOK
    <3>2. SameCore(job[i], [job[i] EXCEPT !.cancelRequested = TRUE])
      BY <3>1, AskField
    <3>3. \A k \in Jobs : k # i => job'[k] = job[k]
      BY <1>1, <2>3, WriteOne DEF RequestCancel, Inv, TypeInv
    <3>4. job'[i] = [job[i] EXCEPT !.cancelRequested = TRUE]
      BY <1>1, <2>3, WriteOne DEF RequestCancel, Inv, TypeInv
    <3>5. QED BY <3>2, <3>3, <3>4 DEF SameCore
  <2>4. ASSUME NEW p \in Procs, Settle(p) PROVE job'[j].state = job[j].state
    BY <2>4 DEF Settle
  <2>5. QED BY <1>1, <2>1, <2>2, <2>3, <2>4, NextSeen
<1>2. Inv /\ [Next]_vars =>
        [\A j \in Jobs : job[j].state \in Terminal => job'[j].state = job[j].state]_vars
  BY <1>1
<1>3. QED BY Invariance, <1>2, PTL DEF Spec, TerminalIsFinal

-----------------------------------------------------------------------------
(* What the invariant says of the properties the runs check.                 *)

\* With a hard kill at most one worker is between the acquireLease that gave
\* it a job and the commit that gives the lease up.
THEOREM OneHolderAlways == ASSUME HardKill PROVE Spec => []OneHolder
<1>1. Inv => OneHolder
  BY DEF Inv, LeaseInv, LeaseFine, OneHolder, Holds
<1>2. QED BY <1>1, Invariance, PTL

\* With a hard kill the provider is never made to generate twice for one job:
\* callSubmit runs again only after a submit that created nothing.
THEOREM GeneratesOnce == ASSUME HardKill PROVE Spec => []AtMostOneGeneration
<1>1. Inv => AtMostOneGeneration
  BY DEF Inv, StateInv, JobFine, AtMostOneGeneration
<1>2. QED BY <1>1, Invariance, PTL

\* With a hard kill a job the provider generated for carries the record that
\* markSubmitAttempted wrote ahead of the call.
THEOREM SubmitIsRecorded == ASSUME HardKill PROVE Spec => []WriteAheadSubmit
<1>1. Inv => WriteAheadSubmit
  BY DEF Inv, StateInv, JobFine, WriteAheadSubmit
<1>2. QED BY <1>1, Invariance, PTL

\* With a hard kill a sync job whose requestCancel was accepted is neither
\* generated nor charged.
THEOREM CancelIsHonoured == ASSUME HardKill PROVE Spec => []CancelPromise
<1>1. Inv => CancelPromise
  <2> SUFFICES ASSUME Inv, NEW j \in Jobs, IsSync(j), job[j].cancelRequested
               PROVE  gens[j] = 0 /\ charges[j] = 0
    BY DEF CancelPromise
  <2>1. gens[j] = 0
    BY DEF Inv, StateInv, JobFine
  <2>2. charges[j] \in Nat /\ ~(charges[j] > 0)
    BY <2>1 DEF Inv, TypeInv, TypeOK, HandlingInv, HandledFine
  <2>3. QED BY <2>1, <2>2
<1>2. QED BY <1>1, Invariance, PTL

\* With a hard kill no commit leaves a job in flight without the nextPollAt
\* that findStalled looks for.
THEOREM SweepReachesAll == ASSUME HardKill PROVE Spec => []NeverStranded
<1>1. Inv => NeverStranded
  BY DEF Inv, StateInv, JobFine, NeverStranded
<1>2. QED BY <1>1, Invariance, PTL

\* With a hard kill a job finishTerminal marked handled was settled once, as
\* its final state calls for, and its settledCredits say so.
THEOREM HandledIsSettled == ASSUME HardKill PROVE Spec => []HandledMatchesState
<1>1. Inv => HandledMatchesState
  <2> SUFFICES ASSUME Inv, NEW j \in Jobs, job[j].handled PROVE Paid(j) /\ Recorded(j)
    BY DEF HandledMatchesState, Paid, Recorded
  <2>1. QED BY DEF Inv, HandlingInv, HandledFine
<1>2. QED BY <1>1, Invariance, PTL

\* With a hard kill a refunded job whose provider gave a handle and has a cancel
\* does not run on there, unless the cancel was sent and came to nothing.
THEOREM RefundStopsProvider == ASSUME HardKill PROVE Spec => []RefundedIsStopped
<1>1. Inv => RefundedIsStopped
  <2> SUFFICES ASSUME Inv, NEW j \in Jobs, refunds[j] > 0, job[j].handle,
                      job[j].kind = "async", ~leaked[j]
               PROVE  prov[j] # "active"
    BY DEF RefundedIsStopped
  <2>1. job[j].state \in Terminal
    BY DEF Inv, HandlingInv, HandledFine
  <2>2. QED BY <2>1 DEF Inv, ProviderInv, QuietJob
<1>2. QED BY <1>1, Invariance, PTL

\* A step that moves a job's hold or its records is one of the run that handles it.
LEMMA HandlerMoves ==
  ASSUME TypeInv, NEW p \in Procs, Finish(p), NEW j \in Jobs, ~Handling(p, j)
  PROVE  /\ charges'[j] = charges[j] /\ refunds'[j] = refunds[j]
         /\ job'[j].settled = job[j].settled /\ job'[j].handled = job[j].handled
<1>1. PICK i \in Jobs : i = run[p].job /\ job[i] \in JobDoc
  BY FinalJob DEF Finish, Claim, Settle, RecordSettlement, MarkHandled, FinalPCs
<1>2. CASE Claim(p)
  <2>1. UNCHANGED job \/ Write(i, [job[i] EXCEPT !.claim = "fresh"])
    BY <1>1, <1>2 DEF Claim
  <2> DEFINE e == [job[i] EXCEPT !.claim = "fresh"]
  <2>2. e.handled = job[i].handled /\ e.settled = job[i].settled
    BY <1>1, ClaimField
  <2> HIDE DEF e
  <2>3. job'[j] = job[j] \/ (i = j /\ job'[j] = e)
    <3>1. CASE UNCHANGED job
      BY <3>1
    <3>2. CASE Write(i, e)
      BY <1>1, <3>2, WriteOne DEF TypeInv
    <3>3. QED BY <2>1, <3>1, <3>2 DEF e
  <2>4. job'[j].settled = job[j].settled /\ job'[j].handled = job[j].handled
    BY <2>2, <2>3
  <2>5. UNCHANGED credits
    BY <1>2 DEF Claim
  <2>6. QED BY <2>4, <2>5 DEF credits
<1>3. CASE Settle(p) \/ RecordSettlement(p) \/ MarkHandled(p)
  <2>1. i # j
    BY <1>1, <1>3 DEF Settle, RecordSettlement, MarkHandled, At, Handling
  <2>2. UNCHANGED job \/ \E e : Write(i, e)
    BY <1>1, <1>3 DEF Settle, RecordSettlement, MarkHandled
  <2>3. job'[j] = job[j]
    BY <2>1, <2>2, WriteOne DEF TypeInv
  <2>4. charges'[j] = charges[j] /\ refunds'[j] = refunds[j]
    BY <1>1, <1>3, <2>1
    DEF Settle, RecordSettlement, MarkHandled, credits, TypeInv, TypeOK
  <2>5. QED BY <2>3, <2>4
<1>4. QED BY <1>2, <1>3 DEF Finish

\* No other step moves them: most leave the document alone, and what a step that
\* does not handle a job writes of it keeps the outcome of its handling.
SameOutcome(d, e) == e.settled = d.settled /\ e.handled = d.handled

LEMMA WorkOutcome ==
  ASSUME TypeInv, LeaseInv, StateInv, NEW w \in Workers, Work(w), NEW j \in Jobs
  PROVE  SameOutcome(job[j], job'[j])
<1>1. \A i \in Jobs : job[i] \in JobDoc
  BY DEF TypeInv, TypeOK
<1>2. ASSUME NEW i \in Jobs, NEW e, Write(i, e), SameClaim(job[i], e)
      PROVE  SameOutcome(job[j], job'[j])
  BY <1>2, WriteOne DEF TypeInv, SameClaim, SameOutcome
<1>3. ASSUME NEW i \in Jobs, Acquire(w, i) PROVE SameOutcome(job[j], job'[j])
  BY <1>1, <1>2, <1>3, LeasedFields DEF Acquire
<1>4. CASE MarkSubmit(w)
  <2>1. PICK i \in Jobs : i = run[w].job
    BY <1>4, StepLeased DEF MarkSubmit, StepPCs
  <2>2. UNCHANGED job \/ Write(i, SubmitMarked(job[i], IsSync(i)))
    BY <1>4, <2>1 DEF MarkSubmit
  <2>3. IsSync(i) \in BOOLEAN
    BY DEF IsSync
  <2>4. QED BY <1>1, <1>2, <2>2, <2>3, MarkedFields DEF SameOutcome
<1>5. CASE Commit(w)
  <2>1. PICK i \in Jobs : i = run[w].job
    BY <1>5, StepLeased DEF Commit, StepPCs
  <2>2. CASE LeaseGuard(job[i], w)
    <3>1. SameClaim(job[i], job'[i]) /\ \A k \in Jobs : k # i => job'[k] = job[k]
      BY <1>5, <2>1, <2>2, CommitFacts
    <3>2. QED BY <3>1 DEF SameClaim, SameOutcome
  <2>3. CASE ~LeaseGuard(job[i], w)
    BY <1>5, <2>1, <2>3 DEF Commit, SameOutcome
  <2>4. QED BY <2>2, <2>3
<1>6. CASE Release(w)
  <2>1. PICK i \in Jobs : i = run[w].job
    BY <1>6, LeasedJob DEF Release, At, LeaseInv, LeaseFine
  <2>2. UNCHANGED job \/ Write(i, Released(job[i]))
    BY <1>6, <2>1 DEF Release
  <2>3. QED BY <1>1, <1>2, <2>2, ReleasedFields DEF SameOutcome
<1>7. CASE UNCHANGED job
  BY <1>7 DEF SameOutcome
<1>8. QED
  BY <1>3, <1>4, <1>5, <1>6, <1>7
  DEF Work, SkipDelivery, Step, CheckAccess, ProviderAccepts, SubmitRejected, SubmitReturns,
      Poll, Store, StopProvider, Send, SendFails

LEMMA OtherOutcome ==
  ASSUME TypeInv, NEW i \in Jobs,
         \/ Create(i) \/ RequestCancel(i) \/ Sweep(i) \/ LoseMessage(i) \/ Clock(i),
         NEW j \in Jobs
  PROVE  SameOutcome(job[j], job'[j])
<1>1. job[i] \in JobDoc
  BY DEF TypeInv, TypeOK
<1>2. ASSUME NEW e, Write(i, e), SameOutcome(job[i], e) PROVE SameOutcome(job[j], job'[j])
  BY <1>2, WriteOne DEF TypeInv, SameOutcome
<1>3. CASE Create(i)
  <2> DEFINE e == [Released(job[i]) EXCEPT !.state = "failed", !.nextPoll = "none"]
  <2>1. UNCHANGED job \/ Write(i, e)
    BY <1>3 DEF Create, EnqueueFirst, EnqueueFirstFails, FailBeforeStart
  <2>2. SameClaim(job[i], e)
    BY <1>1, FailedFields
  <2> HIDE DEF e
  <2>3. SameOutcome(job[i], e)
    BY <2>2 DEF SameOutcome, SameClaim
  <2>4. CASE UNCHANGED job
    BY <2>4 DEF SameOutcome
  <2>5. QED BY <1>2, <2>1, <2>3, <2>4
<1>4. CASE ClaimAges(i)
  <2> DEFINE e == [job[i] EXCEPT !.claim = "old"]
  <2>1. Write(i, e)
    BY <1>4 DEF ClaimAges
  <2>2. SameOutcome(job[i], e)
    BY <1>1, ClaimField DEF SameOutcome
  <2> HIDE DEF e
  <2>3. QED BY <1>2, <2>1, <2>2
<1>5. CASE RequestCancel(i) \/ Sweep(i) \/ LoseMessage(i) \/ (Clock(i) /\ ~ClaimAges(i))
  <2>1. UNCHANGED job \/ \E e : Write(i, e) /\ SameOutcome(job[i], e)
    <3>1. CASE RequestCancel(i) \/ Sweep(i) \/ LoseMessage(i)
      <4>1. UNCHANGED job \/ Write(i, [job[i] EXCEPT !.cancelRequested = TRUE])
        BY <3>1 DEF RequestCancel, Sweep, LoseMessage
      <4>2. SameOutcome(job[i], [job[i] EXCEPT !.cancelRequested = TRUE])
        BY <1>1, AskField DEF SameClaim, SameOutcome
      <4>3. QED BY <4>1, <4>2
    <3>2. CASE Clock(i) /\ ~ClaimAges(i)
      BY <3>2, OtherWrites DEF SameClaim, SameOutcome
    <3>3. QED BY <1>5, <3>1, <3>2
  <2>2. QED BY <1>2, <2>1 DEF SameOutcome
<1>6. QED BY <1>3, <1>4, <1>5

LEMMA RestSettled ==
  ASSUME Inv, Next, ~\E p \in Procs : Finish(p), NEW j \in Jobs
  PROVE  /\ charges'[j] = charges[j] /\ refunds'[j] = refunds[j]
         /\ job'[j].settled = job[j].settled /\ job'[j].handled = job[j].handled
<1>1. UNCHANGED credits
  BY DEF Next, Create, EnqueueFirst, EnqueueFirstFails, FailBeforeStart, RequestCancel, Sweep,
         LoseMessage, Work, Acquire, SkipDelivery, Step, CheckAccess, MarkSubmit,
         ProviderAccepts, SubmitRejected, SubmitReturns, Poll, Store, StopProvider, Commit,
         Send, SendFails, Release, Crash, Clock, BecomesDue, DeadlinePasses, LeaseExpires,
         ClaimAges
<1>2. SameOutcome(job[j], job'[j])
  <2>1. CASE \E p \in Procs : Crash(p)
    BY <2>1 DEF Crash, SameOutcome
  <2>2. QED BY <2>1, WorkOutcome, OtherOutcome DEF Next, Inv
<1>3. QED BY <1>1, <1>2 DEF SameOutcome, credits

LEMMA AlarmStep ==
  ASSUME Inv, [Next]_vars, NEW j \in Jobs, alarmed[j]
  PROVE  /\ charges'[j] = charges[j] /\ refunds'[j] = refunds[j]
         /\ job'[j].settled = job[j].settled /\ job'[j].handled = job[j].handled
<1>1. \A p \in Procs : ~Handling(p, j)
  BY DEF Inv, HandlingInv, HandledFine
<1>2. CASE \E p \in Procs : Finish(p)
  BY <1>1, <1>2, HandlerMoves DEF Inv
<1>3. CASE Next /\ ~\E p \in Procs : Finish(p)
  BY <1>3, RestSettled
<1>4. CASE UNCHANGED vars
  BY <1>4 DEF vars
<1>5. QED BY <1>2, <1>3, <1>4

\* With a hard kill reportUnclaimable only reports a job that no run handles any
\* more, or ever will: whoever settles it by hand is the last to do so.
THEOREM AlarmsAreFinal == ASSUME HardKill PROVE Spec => AlarmedIsLeft
<1>1. Inv /\ [Next]_vars =>
        [\A j \in Jobs : alarmed[j] =>
           /\ << charges'[j], refunds'[j] >> = << charges[j], refunds[j] >>
           /\ job'[j].settled = job[j].settled /\ job'[j].handled = job[j].handled]_vars
  BY AlarmStep
<1>2. QED BY <1>1, Invariance, PTL DEF Spec, AlarmedIsLeft

-----------------------------------------------------------------------------
(* Without a hard kill.  For an async kind the lease that fences the commit  *)
(* is enough to keep terminal states: whoever still has the stored lease has *)
(* read the stored state, and only a document in flight reaches a commit.    *)

AsyncOnly == \A j \in Jobs : ~IsSync(j)
FenceFine(w) ==
  run[w].pc \in StepPCs =>
    /\ run[w].pc # "step" => run[w].doc.state \in NonTerminal
    /\ job[run[w].job].lease = w => run[w].doc.state = job[run[w].job].state
FenceInv == AsyncOnly /\ \A w \in Workers : FenceFine(w)

\* What a step that takes no lease does to a job, and to a worker.
Fenced(i) ==
  /\ job'[i].kind = job[i].kind
  /\ job'[i].state = job[i].state \/ (job[i].state \in NonTerminal /\ job'[i].lease = None)
  /\ job'[i].lease \in {None, job[i].lease}
Onward(w) ==
  \/ run'[w] = run[w]
  \/ run'[w].pc \notin StepPCs
  \/ /\ run'[w].job = run[w].job /\ run'[w].doc = run[w].doc
     /\ run[w].pc \in StepPCs /\ run[w].doc.state \in NonTerminal

LEMMA FenceKept ==
  ASSUME TypeInv, FenceInv, \A i \in Jobs : Fenced(i), \A w \in Workers : Onward(w)
  PROVE  FenceInv'
<1>1. AsyncOnly'
  BY DEF FenceInv, AsyncOnly, IsSync, Fenced
<1>2. ASSUME NEW w \in Workers, run'[w].pc \in StepPCs PROVE FenceFine(w)'
  <2>1. /\ run'[w].job = run[w].job /\ run'[w].doc = run[w].doc /\ run[w].pc \in StepPCs
        /\ run'[w].pc = run[w].pc \/ run[w].doc.state \in NonTerminal
    BY <1>2 DEF Onward
  <2>2. PICK j \in Jobs : j = run[w].job
    BY <2>1 DEF TypeInv, ProcOK, ProcFine, Procs, StepPCs
  <2>3. w # None
    BY NoneAssumption
  <2>4. job'[j].lease = w => job[j].lease = w /\ job'[j].state = job[j].state
    BY <2>3 DEF Fenced
  <2>5. QED BY <2>1, <2>2, <2>4 DEF FenceInv, FenceFine
<1>3. \A w \in Workers : FenceFine(w)'
  BY <1>2 DEF FenceFine
<1>4. QED BY <1>1, <1>3 DEF FenceInv

LEMMA AcquireFence ==
  ASSUME TypeInv, FenceInv, NEW v \in Workers, NEW j \in Jobs, Acquire(v, j)
  PROVE  FenceInv' /\ \A i \in Jobs : job'[i].state = job[i].state
<1>1. job[j] \in JobDoc /\ v \in Procs /\ v # None
  BY NoneAssumption DEF TypeInv, TypeOK, Procs
<1> DEFINE e == Leased(job[j], v)
<1>2. e.lease = v /\ SameCore(job[j], e)
  BY <1>1, LeasedFields
<1>3. job'[j] = e /\ \A i \in Jobs : i # j => job'[i] = job[i]
  BY WriteOne DEF Acquire, TypeInv
<1>4. /\ run'[v].pc = "step" /\ run'[v].job = j /\ run'[v].doc = e
      /\ \A w \in Workers : w # v => run'[w] = run[w]
  BY <1>1 DEF Acquire, TypeInv, TypeOK, Procs
<1> HIDE DEF e
<1>5. AsyncOnly'
  BY <1>2, <1>3 DEF FenceInv, AsyncOnly, IsSync, SameCore
<1>6. FenceFine(v)'
  BY <1>2, <1>3, <1>4 DEF FenceFine, SameCore
<1>7. ASSUME NEW w \in Workers, w # v PROVE FenceFine(w)'
  <2>1. run'[w] = run[w] /\ FenceFine(w)
    BY <1>4, <1>7 DEF FenceInv
  <2>2. CASE run[w].pc \in StepPCs
    <3>1. PICK i \in Jobs : i = run[w].job
      BY <2>2 DEF TypeInv, ProcOK, ProcFine, Procs, StepPCs
    <3>2. job'[i].lease = w => job'[i] = job[i]
      BY <1>2, <1>3, <1>7
    <3>3. QED BY <2>1, <3>1, <3>2 DEF FenceFine
  <2>3. CASE run[w].pc \notin StepPCs
    BY <2>1, <2>3 DEF FenceFine
  <2>4. QED BY <2>2, <2>3
<1>8. QED BY <1>2, <1>3, <1>5, <1>6, <1>7 DEF FenceInv, SameCore

LEMMA SameFenced == ASSUME UNCHANGED job PROVE \A i \in Jobs : Fenced(i)
BY DEF Fenced

LEMMA WriteFenced ==
  ASSUME TypeInv, NEW j \in Jobs, NEW e, Write(j, e), e.kind = job[j].kind,
         e.state = job[j].state \/ (job[j].state \in NonTerminal /\ e.lease = None),
         e.lease \in {None, job[j].lease}
  PROVE  \A i \in Jobs : Fenced(i)
BY WriteOne DEF TypeInv, Fenced

LEMMA OthersOnward ==
  ASSUME NEW p \in Procs, \A q \in Procs : q # p => run'[q] = run[q],
         p \in Workers => Onward(p)
  PROVE  \A w \in Workers : Onward(w)
BY DEF Onward, Procs

LEMMA GoToOnward ==
  ASSUME TypeInv, NEW p \in Procs, NEW l \in PCs, GoTo(p, l),
         l \in StepPCs => run[p].pc \in StepPCs /\ run[p].doc.state \in NonTerminal
  PROVE  \A w \in Workers : Onward(w)
BY GoToFields, OthersOnward DEF TypeInv, Onward

LEMMA ConcludeOnward ==
  ASSUME TypeInv, NEW w \in Workers, NEW r \in Results, Conclude(w, r),
         run[w].pc \in StepPCs, run[w].doc.state \in NonTerminal
  PROVE  \A v \in Workers : Onward(v)
BY ConcludeFields, OthersOnward DEF TypeInv, Onward, Procs

LEMMA EndOnward ==
  ASSUME TypeInv, NEW p \in Procs, End(p)
  PROVE  \A w \in Workers : Onward(w)
BY EndFields, OthersOnward DEF TypeInv, Onward, StepPCs

LEMMA LeaveOnward ==
  ASSUME TypeInv, NEW p \in Procs, Leave(p)
  PROVE  \A w \in Workers : Onward(w)
BY GoToOnward, EndOnward DEF Leave, PCs, StepPCs

LEMMA StepOnward ==
  ASSUME TypeInv, FenceInv, NEW w \in Workers,
         \/ Step(w) \/ CheckAccess(w) \/ MarkSubmit(w) \/ ProviderAccepts(w)
         \/ SubmitRejected(w) \/ SubmitReturns(w) \/ Poll(w) \/ Store(w) \/ StopProvider(w)
  PROVE  \A v \in Workers : Onward(v)
<1>1. w \in Procs /\ run[w].doc \in JobDoc
  BY DEF TypeInv, TypeOK, Run, Procs
<1>2. CASE Step(w)
  <2>1. run[w].pc = "step" /\ run[w].doc.state \in States
    BY <1>1, <1>2 DEF Step, At, JobDoc
  <2>2. \/ GoTo(w, "claim")
        \/ /\ run[w].doc.state \in NonTerminal
           /\ \/ \E l \in {"access", "poll", "store"} : GoTo(w, l)
              \/ \E r \in Results : Conclude(w, r)
    <3> DEFINE b == Branch(run[w].doc, IsSync(run[w].job))
    <3>1. b # "terminal" => run[w].doc.state \in NonTerminal
      BY <2>1 DEF Branch, States
    <3>2. \/ b = "terminal" /\ GoTo(w, "claim")
          \/ b \in {"orphaned", "cancelled", "timeout"} /\ Conclude(w, b)
          \/ b = "early" /\ Conclude(w, "release")
          \/ b = "pending" /\ GoTo(w, "access")
          \/ b = "running" /\ GoTo(w, "poll")
          \/ b = "storing" /\ GoTo(w, "store")
      BY <1>2 DEF Step
    <3> HIDE DEF b
    <3>3. {"orphaned", "cancelled", "timeout", "release"} \subseteq Results
      BY DEF Results
    <3>4. QED BY <3>1, <3>2, <3>3
  <2>3. QED
    BY <1>1, <2>1, <2>2, GoToOnward, ConcludeOnward DEF PCs, StepPCs
<1>3. CASE ~Step(w)
  <2>1. run[w].pc \in StepPCs /\ run[w].pc # "step"
    BY <1>3
    DEF CheckAccess, MarkSubmit, ProviderAccepts, SubmitRejected, SubmitReturns, Poll, Store,
        StopProvider, At, StepPCs
  <2>2. run[w].doc.state \in NonTerminal
    BY <2>1 DEF FenceInv, FenceFine
  <2>3. (\E l \in PCs : GoTo(w, l)) \/ \E r \in Results : Conclude(w, r)
    <3>1. CASE CheckAccess(w)
      BY <3>1 DEF CheckAccess, PCs, Results
    <3>2. CASE MarkSubmit(w)
      BY <3>2 DEF MarkSubmit, PCs, Results
    <3>3. CASE ProviderAccepts(w) \/ StopProvider(w)
      BY <3>3 DEF ProviderAccepts, StopProvider, PCs
    <3>4. CASE SubmitRejected(w) \/ Store(w)
      BY <3>4 DEF SubmitRejected, Store, Results
    <3>5. CASE SubmitReturns(w)
      BY <3>5 DEF SubmitReturns, Results
    <3>6. CASE Poll(w)
      BY <3>6 DEF Poll, Results
    <3>7. QED BY <1>3, <3>1, <3>2, <3>3, <3>4, <3>5, <3>6
  <2>4. QED BY <1>1, <2>1, <2>2, <2>3, GoToOnward, ConcludeOnward
<1>4. QED BY <1>2, <1>3

LEMMA CommitFenced ==
  ASSUME TypeInv, FenceInv, NEW w \in Workers, Commit(w)
  PROVE  (\A i \in Jobs : Fenced(i)) /\ \A v \in Workers : Onward(v)
<1>1. /\ w \in Procs /\ run[w] \in Run /\ run[w].pc = "commit" /\ ProcFine(w)
      /\ FenceFine(w)
  BY DEF TypeInv, TypeOK, ProcOK, Procs, Commit, At, FenceInv
<1>2. PICK j \in Jobs : j = run[w].job /\ job[j] \in JobDoc
  BY <1>1 DEF TypeInv, TypeOK, ProcFine
<1> DEFINE d == run[w].doc
           r == run[w].result
           a == Applied(job[j], d, r)
           e == Released(a)
<1>3. CASE ~LeaseGuard(job[j], w)
  <2>1. End(w) /\ UNCHANGED job
    BY <1>2, <1>3 DEF Commit
  <2>2. QED BY <1>1, <2>1, EndOnward, SameFenced
<1>4. CASE LeaseGuard(job[j], w)
  <2>1. d.state = job[j].state /\ d.state \in NonTerminal
    BY <1>1, <1>2, <1>4 DEF FenceFine, StepPCs, LeaseGuard
  <2>2. d \in JobDoc /\ r \in Results /\ (r = "retry" => d.attempts + 1 < MaxStepAttempts)
    BY <1>1 DEF Run, ProcFine
  <2>3. Write(j, e)
    BY <1>2, <1>4 DEF Commit
  <2>4. \/ End(w)
        \/ \E l \in {"claim", "send"} :
             run' = [run EXCEPT ![w] = [@ EXCEPT !.doc = e, !.leased = FALSE, !.pc = l]]
    BY <1>2, <1>4 DEF Commit
  <2> HIDE DEF d, r
  <2>5. a \in JobDoc /\ a.kind = job[j].kind
    <3>1. d \in JobDoc /\ r \in Results /\ job[j] \in JobDoc
      BY <1>2, <2>2
    <3>2. a \in JobDoc
      BY <2>2, <3>1, AppliedType
    <3>3. a.kind = job[j].kind
      BY <3>1, AppliedFields
    <3>4. QED BY <3>2, <3>3
  <2> HIDE DEF a
  <2>6. e.kind = job[j].kind /\ e.lease = None
    BY <2>5, ReleasedFields DEF SameCore
  <2> HIDE DEF e
  <2>7. \A i \in Jobs : Fenced(i)
    BY <2>1, <2>3, <2>6, WriteFenced
  <2>8. ASSUME NEW l \in {"claim", "send"},
               run' = [run EXCEPT ![w] = [@ EXCEPT !.doc = e, !.leased = FALSE, !.pc = l]]
        PROVE  \A v \in Workers : Onward(v)
    <3>1. run'[w].pc = l /\ \A q \in Procs : q # w => run'[q] = run[q]
      BY <1>1, <2>8 DEF TypeInv, TypeOK, Run
    <3>2. l \notin StepPCs
      BY DEF StepPCs
    <3>3. QED BY <1>1, <3>1, <3>2, OthersOnward DEF Onward
  <2>9. QED BY <1>1, <2>4, <2>7, <2>8, EndOnward
<1>5. QED BY <1>3, <1>4

LEMMA WorkFenced ==
  ASSUME TypeInv, FenceInv, NEW w \in Workers, Work(w), \A j \in Jobs : ~Acquire(w, j)
  PROVE  (\A i \in Jobs : Fenced(i)) /\ \A v \in Workers : Onward(v)
<1>1. w \in Procs
  BY DEF Procs
<1>2. ASSUME NEW j \in Jobs, SkipDelivery(w, j)
      PROVE  (\A i \in Jobs : Fenced(i)) /\ \A v \in Workers : Onward(v)
  BY <1>2, SameFenced DEF SkipDelivery, Onward
<1>3. CASE Commit(w)
  BY <1>3, CommitFenced
<1>4. CASE Send(w) \/ SendFails(w)
  BY <1>1, <1>4, EndOnward, SameFenced DEF Send, SendFails
<1>5. CASE Release(w)
  <2>1. PICK j \in Jobs : j = run[w].job /\ job[j] \in JobDoc
    BY <1>1, <1>5 DEF Release, At, TypeInv, TypeOK, ProcOK, ProcFine
  <2>2. End(w) /\ (UNCHANGED job \/ Write(j, Released(job[j])))
    BY <1>5, <2>1 DEF Release
  <2>3. QED
    BY <1>1, <2>1, <2>2, EndOnward, SameFenced, WriteFenced, ReleasedFields DEF SameCore
<1>6. CASE MarkSubmit(w)
  <2>1. PICK j \in Jobs : j = run[w].job /\ job[j] \in JobDoc
    BY <1>1, <1>6 DEF MarkSubmit, At, TypeInv, TypeOK, ProcOK, ProcFine
  <2>2. IsSync(j) = FALSE
    BY DEF FenceInv, AsyncOnly, IsSync
  <2>3. UNCHANGED job \/ Write(j, SubmitMarked(job[j], FALSE))
    BY <1>6, <2>1, <2>2 DEF MarkSubmit
  <2>4. \A i \in Jobs : Fenced(i)
    BY <2>1, <2>3, SameFenced, WriteFenced, MarkedFields DEF SameLease
  <2>5. QED BY <1>6, <2>4, StepOnward
<1>7. CASE \/ Step(w) \/ CheckAccess(w) \/ ProviderAccepts(w)
           \/ SubmitRejected(w) \/ SubmitReturns(w) \/ Poll(w) \/ Store(w) \/ StopProvider(w)
  <2>1. UNCHANGED job
    BY <1>7
    DEF Step, CheckAccess, ProviderAccepts, SubmitRejected, SubmitReturns, Poll, Store,
        StopProvider
  <2>2. QED BY <1>7, <2>1, SameFenced, StepOnward
<1>8. QED BY <1>2, <1>3, <1>4, <1>5, <1>6, <1>7 DEF Work

LEMMA CreateFenced ==
  ASSUME TypeInv, NEW j \in Jobs, Create(j)
  PROVE  (\A i \in Jobs : Fenced(i)) /\ \A v \in Workers : Onward(v)
<1>1. j \in Procs /\ j \notin Workers /\ job[j] \in JobDoc
  BY JobsAssumption DEF Procs, TypeInv, TypeOK
<1>2. \A v \in Workers : Onward(v)
  BY <1>1
  DEF Create, EnqueueFirst, EnqueueFirstFails, FailBeforeStart, GoTo, End, Onward, TypeInv,
      TypeOK, Procs
<1>3. CASE FailBeforeStart(j) /\ UnstartedGuard(job[j])
  <2> DEFINE e == [Released(job[j]) EXCEPT !.state = "failed", !.nextPoll = "none"]
  <2>1. Write(j, e) /\ job[j].state \in NonTerminal
    BY <1>3 DEF FailBeforeStart, UnstartedGuard, NonTerminal
  <2>2. e.kind = job[j].kind /\ e.lease = None
    BY <1>1, FailedFields
  <2> HIDE DEF e
  <2>3. QED BY <1>2, <2>1, <2>2, WriteFenced
<1>4. CASE ~(FailBeforeStart(j) /\ UnstartedGuard(job[j]))
  BY <1>2, <1>4, SameFenced DEF Create, EnqueueFirst, EnqueueFirstFails, FailBeforeStart
<1>5. QED BY <1>3, <1>4

LEMMA RestFenced ==
  ASSUME TypeInv,
         \/ \E p \in Procs : Finish(p) \/ Crash(p)
         \/ \E j \in Jobs : Clock(j) \/ RequestCancel(j) \/ Sweep(j) \/ LoseMessage(j)
  PROVE  (\A i \in Jobs : Fenced(i)) /\ \A v \in Workers : Onward(v)
<1>1. ASSUME NEW p \in Procs, Finish(p) \/ Crash(p)
      PROVE  (\A i \in Jobs : Fenced(i)) /\ \A v \in Workers : Onward(v)
  <2>1. \A v \in Workers : Onward(v)
    <3>1. Leave(p) \/ End(p) \/ \E l \in {"settle", "record", "finish"} : GoTo(p, l)
      BY <1>1 DEF Finish, Claim, Settle, RecordSettlement, MarkHandled, Crash
    <3>2. QED BY <3>1, LeaveOnward, EndOnward, GoToOnward DEF PCs, StepPCs
  <2>2. PICK j \in Jobs : j = run[p].job
    BY <1>1
    DEF Finish, Claim, Settle, RecordSettlement, MarkHandled, Crash, At, TypeInv, ProcOK,
        ProcFine
  <2>3. \/ UNCHANGED job
        \/ \E e : Write(j, e) /\ SameCore(job[j], e) /\ SameLease(job[j], e)
    BY <1>1, <2>2, FinishWrites
  <2>4. \A i \in Jobs : Fenced(i)
    BY <2>3, SameFenced, WriteFenced DEF SameCore, SameLease
  <2>5. QED BY <2>1, <2>4
<1>2. ASSUME NEW j \in Jobs, Clock(j) \/ RequestCancel(j) \/ Sweep(j) \/ LoseMessage(j)
      PROVE  (\A i \in Jobs : Fenced(i)) /\ \A v \in Workers : Onward(v)
  <2>1. UNCHANGED run
    BY <1>2
    DEF Clock, BecomesDue, DeadlinePasses, LeaseExpires, ClaimAges, RequestCancel, Sweep,
        LoseMessage
  <2>2. UNCHANGED job \/ \E e : Write(j, e) /\ SameCore(job[j], e) /\ e.lease = job[j].lease
    BY <1>2, OtherWrites
  <2>3. \A i \in Jobs : Fenced(i)
    BY <2>2, SameFenced, WriteFenced DEF SameCore
  <2>4. QED BY <2>1, <2>3 DEF Onward
<1>3. QED BY <1>1, <1>2

LEMMA FenceStep ==
  ASSUME TypeInv, FenceInv, [Next]_vars
  PROVE  /\ FenceInv'
         /\ \A j \in Jobs : job[j].state \in Terminal => job'[j].state = job[j].state
<1>1. CASE \E w \in Workers, j \in Jobs : Acquire(w, j)
  BY <1>1, AcquireFence
<1>2. CASE ~\E w \in Workers, j \in Jobs : Acquire(w, j)
  <2>1. (\A i \in Jobs : Fenced(i)) /\ \A v \in Workers : Onward(v)
    <3>1. CASE UNCHANGED vars
      BY <3>1, SameFenced DEF vars, Onward
    <3>2. CASE Next
      BY <1>2, <3>2, WorkFenced, CreateFenced, RestFenced DEF Next
    <3>3. QED BY <3>1, <3>2
  <2>2. \A j \in Jobs : job[j].state \in Terminal => job'[j].state = job[j].state
    BY <2>1 DEF Fenced, Terminal, NonTerminal
  <2>3. QED BY <2>1, <2>2, FenceKept
<1>3. QED BY <1>1, <1>2

\* Where every job is of an async kind, no step takes one out of a terminal
\* state even if workers outlive their leases: the fence on commitStep suffices.
THEOREM FenceSuffices == ASSUME "sync" \notin Kinds PROVE Spec => TerminalIsFinal
<1>1. Init => TypeInv /\ FenceInv
  <2> SUFFICES ASSUME Init PROVE FenceInv
    BY InitType
  <2>1. ASSUME NEW j \in Jobs PROVE ~IsSync(j)
    <3>1. PICK k \in Kinds : job[j] = NewJob(k)
      BY DEF Init
    <3>2. QED BY <3>1 DEF NewJob, IsSync
  <2>2. ASSUME NEW w \in Workers PROVE run[w].pc \notin StepPCs
    <3>1. run[w] = Rest
      BY JobsAssumption DEF Init, Procs
    <3>2. QED BY <3>1 DEF Rest, Task, StepPCs
  <2>3. QED BY <2>1, <2>2 DEF FenceInv, AsyncOnly, FenceFine
<1>2. TypeInv /\ FenceInv /\ [Next]_vars => TypeInv' /\ FenceInv'
  BY TypeStep, FenceStep
<1>3. TypeInv /\ FenceInv /\ [Next]_vars =>
        [\A j \in Jobs : job[j].state \in Terminal => job'[j].state = job[j].state]_vars
  BY FenceStep
<1>4. QED BY <1>1, <1>2, <1>3, PTL DEF Spec, TerminalIsFinal
=============================================================================
