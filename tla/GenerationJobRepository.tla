---------------------- MODULE GenerationJobRepository ----------------------
(***************************************************************************)
(* The stored generation job and the single-document writes of its         *)
(* repository (packages/database GenerationJobModel.ts).  Every write is   *)
(* one findOneAndUpdate or updateOne: a filter, here a predicate on the    *)
(* document, and a $set, here the document it leaves.  MongoDB runs each   *)
(* atomically, so each is a step of its own in the modules that use them.  *)
(*                                                                         *)
(* Dates are kept as what the filters tell apart.  A lease token is the    *)
(* worker whose step acquired it: a worker runs one step at a time, so     *)
(* the token it holds names that step.                                     *)
(***************************************************************************)
EXTENDS Naturals

CONSTANTS
  Workers,          \* queue workers, each running one engine step at a time
  None,             \* the null of a lease and of an idle worker's job
  MaxStepAttempts   \* MAX_STEP_ATTEMPTS: consecutive failures before giving up

ASSUME NoneAssumption == None \notin Workers
ASSUME AttemptsAssumption == MaxStepAttempts \in Nat \ {0}

NonTerminal == {"pending", "running", "storing"}
Terminal == {"succeeded", "failed", "blocked", "cancelled"}
States == NonTerminal \cup Terminal

\* submitMode of the job's handler, and for an async one whether its provider
\* has a cancel: xAI and Veo have none.
JobKinds == {"sync", "async", "nocancel"}

JobDoc ==
  [ kind            : JobKinds,
    state           : States,
    cancelRequested : BOOLEAN,
    submitAttempted : BOOLEAN,                 \* submitAttemptedAt is set
    lease           : Workers \cup {None},     \* whose token leaseUntil holds
    expired         : BOOLEAN,                 \* leaseUntil < now
    nextPoll        : {"none", "later", "due"},\* nextPollAt: null, ahead, reached
    late            : BOOLEAN,                 \* now > deadlineAt
    attempts        : 0 .. MaxStepAttempts - 1,
    handle          : BOOLEAN,                 \* payload.providerHandle is set
    billedBlock     : BOOLEAN,                 \* payload.billedBlock
    claim           : {"none", "fresh", "old"},\* terminalHandlingClaimedAt
    handled         : BOOLEAN,                 \* terminalHandledAt is set
    settled         : {"none", "zero", "charged"} ] \* settledCredits

\* A job as createVideoJob and createMusicJob persist it.
NewJob(k) ==
  [ kind |-> k, state |-> "pending", cancelRequested |-> FALSE, submitAttempted |-> FALSE,
    lease |-> None, expired |-> FALSE, nextPoll |-> "due", late |-> FALSE,
    attempts |-> 0, handle |-> FALSE, billedBlock |-> FALSE,
    claim |-> "none", handled |-> FALSE, settled |-> "none" ]

-----------------------------------------------------------------------------
Unleased(d) == d.lease = None \/ d.expired

\* acquireLease: unleased, and in flight or terminal with handling not done.
\* Mutant: without the unleased filter.
LeasableThoughLeased(d) == d.state \in NonTerminal \/ ~d.handled
Leasable(d) == Unleased(d) /\ (d.state \in NonTerminal \/ ~d.handled)
Leased(d, w) == [d EXCEPT !.lease = w, !.expired = FALSE]

\* markSubmitAttempted: fenced by the cancel flag alone, not by the lease.
\* Mutants: no cancel filter; the attempt itself left out of the write.
CanMarkSubmitAlways(d) == d \in JobDoc
CanMarkSubmit(d) == ~d.cancelRequested
SubmitNotMarked(d, markRunning) ==
  [d EXCEPT !.state = IF markRunning THEN "running" ELSE d.state]
SubmitMarked(d, markRunning) ==
  [d EXCEPT !.submitAttempted = TRUE,
            !.state = IF markRunning THEN "running" ELSE d.state]

\* The two guards of commit.
\* Mutants: a commit by id alone; no lease check on unstarted.
LeaseGuardById(d, w) == d \in JobDoc /\ w \in Workers
UnstartedThoughLeased(d) == d.state = "pending" /\ ~d.submitAttempted
LeaseGuard(d, w) == d.lease = w
UnstartedGuard(d) == d.state = "pending" /\ ~d.submitAttempted /\ Unleased(d)

\* commit always clears leaseUntil.
Released(d) == [d EXCEPT !.lease = None, !.expired = FALSE]

\* requestCancel, with beforeSubmitOnly for a sync kind.
Cancellable(d, beforeSubmitOnly) ==
  IF beforeSubmitOnly
    THEN d.state = "pending" /\ ~d.submitAttempted
    ELSE d.state \in {"pending", "running"}

\* claimTerminalHandling.
\* Mutant: a claim that looks at handled instead of at the earlier claim.
ClaimableUntilHandled(d) == d.state \in Terminal /\ ~d.handled
Claimable(d) == d.state \in Terminal /\ d.claim = "none"

\* findStalled, overdueBefore and the two limits left to the sweep's timing.
\* Mutant: only the in-flight query.
StalledInFlight(d) == d.state \in NonTerminal /\ d.nextPoll = "due"
Stalled(d) ==
  \/ d.state \in NonTerminal /\ d.nextPoll = "due"
  \/ d.state \in Terminal /\ ~d.handled
=============================================================================
