---------------------------- MODULE JobCreation ----------------------------
(***************************************************************************)
(* Creating a generation job (createVideoJob, createMusicJob and the       *)
(* shared createJob.ts, creditHold.ts): concurrent requests of one owner   *)
(* look up their idempotency key, hold credits, insert the job and enqueue *)
(* it, and any of these calls may fail with or without having taken        *)
(* effect.  A request's job has an id of its own, here the request itself. *)
(*                                                                         *)
(* What becomes of a persisted job is left to the contract the engine is   *)
(* shown to keep; here its settlement moves the credits it carries.        *)
(***************************************************************************)
EXTENDS Integers, FiniteSets, Functions

CONSTANTS
  Requests,   \* create calls, retries with the same key included
  Asks,       \* what they may ask for, [key, body, sync, cost]: sync is the
              \* kind of job, a cost of 0 is a hold that is not enforced
  NoKey,      \* the key of a request without an Idempotency-Key
  Initial,    \* the owner's balance
  MaxFaults   \* bound: crashes and failing calls

ASSUME CreditsAssumption ==
  Initial \in Nat /\ MaxFaults \in Nat /\ \A a \in Asks : a.cost \in Nat
ASSUME RequestsAssumption == IsFiniteSet(Requests)

VARIABLES
  ask,        \* what each request asks for
  pc,         \* where it is
  answer,     \* what it was answered, [is, job]
  persisted,  \* the jobs that exist
  state, asked, charges, refunds,  \* of the jobs, as their contract sees them
  balance,    \* the owner's currentCredits
  spent,      \* credits charged
  lost,       \* credits held or returned by a call that failed
  faults

jobs == << state, asked, charges, refunds >>
money == << balance, spent, lost >>
vars == << ask, pc, answer, persisted, jobs, money, faults >>

Engine == INSTANCE JobContract WITH
  Jobs <- Requests, sync <- {r \in Requests : ask[r].sync}

PCs == {"lookup", "admit", "hold", "overdrawn", "insert", "duplicate", "verify",
        "release", "enqueue", "unqueued", "done"}
Outcomes == {"none", "created", "replayed", "reused", "refused", "insufficient", "failed"}
Said(is, r) == [is |-> is, job |-> r]

TypeOK ==
  /\ ask \in [Requests -> Asks]
  /\ pc \in [Requests -> PCs]
  /\ answer \in [Requests -> [is : Outcomes, job : Requests]]
  /\ persisted \subseteq Requests
  /\ balance \in Int /\ spent \in 0 .. Initial /\ lost \in Nat
  /\ faults \in 0 .. MaxFaults

Init ==
  /\ ask \in [Requests -> Asks]
  /\ pc = [r \in Requests |-> "lookup"]
  /\ answer = [r \in Requests |-> Said("none", r)]
  /\ persisted = {}
  /\ Engine!Init
  /\ balance = Initial /\ spent = 0 /\ lost = 0
  /\ faults = 0

Cost(r) == ask[r].cost
At(r, l) == pc[r] = l
GoTo(r, l) == pc' = [pc EXCEPT ![r] = l]
Say(r, is, j) == answer' = [answer EXCEPT ![r] = Said(is, j)]
Finish(r, is) == GoTo(r, "done") /\ Say(r, is, r)
Fault == faults < MaxFaults /\ faults' = faults + 1

\* The jobs that hold the key of r: a unique index allows one.
KeyHolders(r) == {h \in persisted : ask[r].key # NoKey /\ ask[h].key = ask[r].key}

\* replayOrReject.
\* Mutant: any holder of the key is replayed, whatever its body.
ReplayAnyBody(r, h) == Say(r, IF ask[h].key = ask[r].key THEN "replayed" ELSE "reused", h)
ReplayOrReject(r, h) == Say(r, IF ask[h].body = ask[r].body THEN "replayed" ELSE "reused", h)

-----------------------------------------------------------------------------
(* Before anything is written.                                             *)

\* A malformed request, and for music a disabled or retired model too, is
\* refused before the key is looked up.
Reject(r) ==
  /\ At(r, "lookup")
  /\ Finish(r, "refused")
  /\ UNCHANGED << ask, persisted, jobs, money, faults >>

\* findIdempotentReplay.
Lookup(r) ==
  /\ At(r, "lookup")
  /\ IF KeyHolders(r) = {}
       THEN GoTo(r, "admit") /\ UNCHANGED answer
       ELSE /\ GoTo(r, "done")
            /\ \E h \in KeyHolders(r) : ReplayOrReject(r, h)
  /\ UNCHANGED << ask, persisted, jobs, money, faults >>

\* Model, plan, input and spending-cap checks; credits may not be enforced.
Admit(r) ==
  /\ At(r, "admit")
  /\ \/ Finish(r, "refused")
     \/ GoTo(r, IF Cost(r) = 0 THEN "insert" ELSE "hold") /\ UNCHANGED answer
  /\ UNCHANGED << ask, persisted, jobs, money, faults >>

-----------------------------------------------------------------------------
(* holdCredits: decrement first, then look.                                 *)

\* Mutant: the decrement is not looked at.
HoldUnchecked(r) ==
  /\ At(r, "hold")
  /\ balance' = balance - Cost(r)
  /\ GoTo(r, "insert")
  /\ UNCHANGED << ask, answer, persisted, jobs, spent, lost, faults >>

Hold(r) ==
  /\ At(r, "hold")
  /\ balance' = balance - Cost(r)
  /\ GoTo(r, IF balance' < 0 THEN "overdrawn" ELSE "insert")
  /\ UNCHANGED << ask, answer, persisted, jobs, spent, lost, faults >>

\* A balance write that reports an error may have been made.
HoldFails(r) ==
  /\ At(r, "hold")
  /\ Fault
  /\ balance' \in {balance, balance - Cost(r)}
  /\ lost' = lost + (balance - balance')
  /\ Finish(r, "failed")
  /\ UNCHANGED << ask, persisted, jobs, spent >>

Rollback(r) ==
  /\ At(r, "overdrawn")
  /\ balance' = balance + Cost(r)
  /\ Finish(r, "insufficient")
  /\ UNCHANGED << ask, persisted, jobs, spent, lost, faults >>

RollbackFails(r) ==
  /\ At(r, "overdrawn")
  /\ Fault
  /\ balance' \in {balance, balance + Cost(r)}
  /\ lost' = lost + Cost(r) - (balance' - balance)
  /\ Finish(r, "insufficient")
  /\ UNCHANGED << ask, persisted, jobs, spent >>

-----------------------------------------------------------------------------
(* persistAndEnqueueJob: the insert, and what its error may mean.           *)

Insert(r) ==
  /\ At(r, "insert")
  /\ IF KeyHolders(r) = {}
       THEN persisted' = persisted \cup {r} /\ GoTo(r, "enqueue")
       ELSE UNCHANGED persisted /\ GoTo(r, "duplicate")
  /\ UNCHANGED << ask, answer, jobs, money, faults >>

\* A lost acknowledgement: the insert landed or it did not, and the driver's
\* own retry may then have met the key of the insert that landed.
InsertFails(r) ==
  /\ At(r, "insert")
  /\ Fault
  /\ \/ UNCHANGED persisted /\ GoTo(r, "verify")
     \/ /\ KeyHolders(r) = {}
        /\ persisted' = persisted \cup {r}
        /\ GoTo(r, "verify") \/ (ask[r].key # NoKey /\ GoTo(r, "duplicate"))
  /\ UNCHANGED << ask, answer, jobs, money >>

\* findKeyHolder after a duplicate-key error.
\* Mutant: any holder found is taken for the winner of a race.
FindHolderNeverOwn(r) ==
  /\ At(r, "duplicate")
  /\ \E h \in KeyHolders(r) : ReplayOrReject(r, h)
  /\ GoTo(r, "release")
  /\ UNCHANGED << ask, persisted, jobs, money, faults >>

FindHolder(r) ==
  /\ At(r, "duplicate")
  /\ IF r \in KeyHolders(r)
       THEN GoTo(r, "enqueue") /\ UNCHANGED answer
       ELSE /\ GoTo(r, "release")
            /\ \E h \in KeyHolders(r) : ReplayOrReject(r, h)
  /\ UNCHANGED << ask, persisted, jobs, money, faults >>

FindHolderFails(r) ==
  /\ At(r, "duplicate")
  /\ Fault
  /\ GoTo(r, "verify")
  /\ UNCHANGED << ask, answer, persisted, jobs, money >>

\* findById on the id the request chose for its job.
Verify(r) ==
  /\ At(r, "verify")
  /\ IF r \in persisted
       THEN GoTo(r, "enqueue") /\ UNCHANGED answer
       ELSE GoTo(r, "release") /\ Say(r, "failed", r)
  /\ UNCHANGED << ask, persisted, jobs, money, faults >>

\* The outcome stays unknown: the hold is kept and alarmed.
\* Mutant: it is given back, as after a confirmed failure.
VerifyFailsReleases(r) ==
  /\ At(r, "verify")
  /\ Fault
  /\ GoTo(r, "release") /\ Say(r, "failed", r)
  /\ UNCHANGED << ask, persisted, jobs, money >>

VerifyFails(r) ==
  /\ At(r, "verify")
  /\ Fault
  /\ Finish(r, "failed")
  /\ lost' = lost + IF r \in persisted THEN 0 ELSE Cost(r)
  /\ UNCHANGED << ask, persisted, jobs, balance, spent >>

\* releaseCreditHold; its error is only logged.  The answer is decided.
Release(r) ==
  /\ At(r, "release")
  /\ balance' = balance + Cost(r)
  /\ GoTo(r, "done")
  /\ UNCHANGED << ask, answer, persisted, jobs, spent, lost, faults >>

ReleaseFails(r) ==
  /\ At(r, "release")
  /\ Fault
  /\ balance' \in {balance, balance + Cost(r)}
  /\ lost' = lost + Cost(r) - (balance' - balance)
  /\ GoTo(r, "done")
  /\ UNCHANGED << ask, answer, persisted, jobs, spent >>

Enqueue(r) ==
  /\ At(r, "enqueue")
  /\ Finish(r, "created")
  /\ UNCHANGED << ask, persisted, jobs, money, faults >>

EnqueueFails(r) ==
  /\ At(r, "enqueue")
  /\ Fault
  /\ GoTo(r, "unqueued")
  /\ UNCHANGED << ask, answer, persisted, jobs, money >>

\* failBeforeStart: it fails the job, unless a worker has started it.  The hold
\* of a job it failed is given back with the job's settlement (Refund).
FailBeforeStart(r) ==
  /\ At(r, "unqueued")
  /\ \/ state[r] = "pending" /\ state' = [state EXCEPT ![r] = "failed"] /\ Finish(r, "failed")
     \/ UNCHANGED state /\ Finish(r, "created")
  /\ UNCHANGED << ask, persisted, asked, charges, refunds, money, faults >>

\* Its error is only logged: the job stays, for the sweep to find.
FailBeforeStartFails(r) ==
  /\ At(r, "unqueued")
  /\ Fault
  /\ Finish(r, "failed")
  /\ UNCHANGED << ask, persisted, jobs, money >>

-----------------------------------------------------------------------------
(* The job's own life, and a request that stops.                            *)

\* A request that has taken a hold which no job carries yet.
Holding(r) == pc[r] \in {"insert", "duplicate", "verify", "release"} /\ r \notin persisted

Crash(r) ==
  /\ ~At(r, "done")
  /\ Fault
  /\ GoTo(r, "done")
  /\ lost' = lost + IF Holding(r) \/ At(r, "overdrawn") THEN Cost(r) ELSE 0
  /\ UNCHANGED << ask, answer, persisted, jobs, balance, spent >>

Advance(r) ==
  /\ r \in persisted
  /\ Engine!Move(r) \/ Engine!AcceptCancel(r)
  /\ UNCHANGED << ask, pc, answer, persisted, money, faults >>

\* releaseJobHold.
Refund(r) ==
  /\ r \in persisted
  /\ Engine!Refund(r)
  /\ balance' = balance + Cost(r)
  /\ UNCHANGED << ask, pc, answer, persisted, spent, lost, faults >>

\* settleJobHold: the charge is clamped to the hold and the rest goes back; an
\* error of that write is logged and the charge stands.
\* Mutant: the charge is not clamped.
SettleUnclamped(r) ==
  /\ r \in persisted
  /\ Engine!Charge(r)
  /\ \E c \in 0 .. Cost(r) + 1 :
       spent' = spent + c /\ balance' = balance + Cost(r) - c
  /\ UNCHANGED << ask, pc, answer, persisted, lost, faults >>

Settle(r) ==
  /\ r \in persisted
  /\ Engine!Charge(r)
  /\ \E c \in 0 .. Cost(r) :
       spent' = spent + c /\ balance' = balance + Cost(r) - c
  /\ UNCHANGED << ask, pc, answer, persisted, lost, faults >>

SettleFails(r) ==
  /\ r \in persisted
  /\ Fault
  /\ Engine!Charge(r)
  /\ \E c \in 0 .. Cost(r) - 1 :
       spent' = spent + c /\ lost' = lost + Cost(r) - c
  /\ UNCHANGED << ask, pc, answer, persisted, balance >>

-----------------------------------------------------------------------------
Before(r) == Reject(r) \/ Lookup(r) \/ Admit(r)
TakeHold(r) == Hold(r) \/ HoldFails(r) \/ Rollback(r) \/ RollbackFails(r)
Persist(r) ==
  \/ Insert(r) \/ InsertFails(r) \/ FindHolder(r) \/ FindHolderFails(r)
  \/ Verify(r) \/ VerifyFails(r) \/ Release(r) \/ ReleaseFails(r)
  \/ Enqueue(r) \/ EnqueueFails(r) \/ FailBeforeStart(r) \/ FailBeforeStartFails(r)
Life(r) == Advance(r) \/ Refund(r) \/ Settle(r) \/ SettleFails(r)

Next == \E r \in Requests : Before(r) \/ TakeHold(r) \/ Persist(r) \/ Life(r) \/ Crash(r)

Spec == Init /\ [][Next]_vars

-----------------------------------------------------------------------------
\* What each request or its job still keeps of the owner's credits, and what
\* the owner really has left: a decrement about to be rolled back is no hold.
Held(r) ==
  IF Holding(r) \/ (r \in persisted /\ charges[r] + refunds[r] = 0) THEN Cost(r) ELSE 0
held == [r \in Requests |-> Held(r)]
overdrawn == [r \in Requests |-> IF At(r, "overdrawn") THEN Cost(r) ELSE 0]
Pool == balance + SumFunction(overdrawn)

\* Credits are neither made nor silently spent: whatever fails, every credit is
\* in the balance, in one hold, charged, or lost to a call that failed.  A hold
\* follows its job, so it is never returned for a job that exists
\* (recoverFailedCreate, createJob.ts:190-197).
CreditsAccountedFor == Pool + SumFunction(held) + spent + lost = Initial

\* Two answers for one Idempotency-Key name the same job, and that job is the
\* one each of them asked for, whichever request won the race to create it.
AnswersAgree ==
  \A r, s \in Requests :
    /\ answer[r].is \in {"created", "replayed"}
    /\ answer[s].is \in {"created", "replayed"}
    /\ ask[r].key # NoKey /\ ask[r].key = ask[s].key
    => answer[r].job = answer[s].job /\ ask[r].body = ask[s].body

\* A request that was given another's job, or was refused, left none of its own
\* behind, to run and be charged with nobody told of it.
NoHiddenJob ==
  \A r \in Requests :
    answer[r].is \in {"replayed", "reused", "refused", "insufficient"} /\ At(r, "done")
    => r \notin persisted

\* A hold is refused only when the credits nobody has reserved do not cover it
\* (holdCredits, creditHold.ts:69-70).
RefusedOnlyIfShort ==
  [][\A r \in Requests : At(r, "hold") /\ At(r, "overdrawn")' => Pool < Cost(r)]_vars

\* Decrementing first and rolling back is as good as an atomic reservation.
Credits == INSTANCE CreditPool WITH Holds <- Requests, pool <- Pool
KeepsCredits == Credits!Spec
=============================================================================
