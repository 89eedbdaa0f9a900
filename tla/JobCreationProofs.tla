------------------------- MODULE JobCreationProofs -------------------------
(***************************************************************************)
(* Proofs about job creation, for any number of requests, any keys and     *)
(* costs and any number of failing calls: a request that was refused or    *)
(* answered with another's job has left none behind, and two answers for   *)
(* one idempotency key agree.                                              *)
(*                                                                         *)
(* Both follow from where a request's job can be at each point of its      *)
(* code, and from the unique index: one job holds a key.  The balance      *)
(* plays no part, so the argument leaves it out.                           *)
(***************************************************************************)
EXTENDS JobCreation, TLAPS

Answers == [is : Outcomes, job : Requests]

\* Points of the code before the insert, or after it was found not to have landed.
JoblessPCs == {"lookup", "admit", "hold", "overdrawn", "insert", "release"}
Jobless == {"replayed", "reused", "refused", "insufficient"}

\* What holds of a request r at point l with answer a, when it asked for q[r]
\* and the jobs in P exist.
Sound(r, l, a, q, P) ==
  /\ l \in JoblessPCs => r \notin P
  /\ l \in {"enqueue", "unqueued"} => r \in P
  /\ a.is # "none" => l \in {"release", "done"}
  /\ a.is \in Jobless => r \notin P
  /\ a.is = "created" => a.job = r /\ r \in P
  /\ a.is = "replayed" => /\ a.job \in P
                          /\ q[r].key # NoKey
                          /\ q[a.job].key = q[r].key
                          /\ q[a.job].body = q[r].body

\* The unique index: no two jobs hold one key.
OneHolderOf(q, P) ==
  \A h, k \in P : q[h].key # NoKey /\ q[h].key = q[k].key => h = k

Types ==
  /\ ask \in [Requests -> Asks]
  /\ pc \in [Requests -> PCs]
  /\ answer \in [Requests -> Answers]
  /\ persisted \subseteq Requests

Inv ==
  /\ Types
  /\ OneHolderOf(ask, persisted)
  /\ \A r \in Requests : Sound(r, pc[r], answer[r], ask, persisted)

-----------------------------------------------------------------------------
\* A step of r that creates no job keeps the invariant if it keeps r sound:
\* nothing the other requests rely on has changed.
LEMMA OwnStep ==
  ASSUME Inv, NEW r \in Requests, NEW l \in PCs, NEW a \in Answers,
         ask' = ask, persisted' = persisted,
         pc' = [pc EXCEPT ![r] = l], answer' = [answer EXCEPT ![r] = a],
         Sound(r, l, a, ask, persisted)
  PROVE  Inv'
<1>1. Types'
  BY DEF Inv, Types
<1>2. OneHolderOf(ask', persisted')
  BY DEF Inv
<1>3. ASSUME NEW s \in Requests
      PROVE  Sound(s, pc'[s], answer'[s], ask', persisted')
  <2>1. CASE s = r
    <3>1. pc'[s] = l /\ answer'[s] = a
      BY <2>1 DEF Inv, Types
    <3> QED BY <3>1, <2>1
  <2>2. CASE s # r
    <3>1. pc'[s] = pc[s] /\ answer'[s] = answer[s]
      BY <2>2 DEF Inv, Types
    <3> QED BY <3>1 DEF Inv
  <2> QED BY <2>1, <2>2
<1> QED BY <1>1, <1>2, <1>3 DEF Inv

\* A step of r that creates its job, when no job holds the key, likewise.
LEMMA OwnInsert ==
  ASSUME Inv, NEW r \in Requests, NEW l \in {"enqueue", "verify", "duplicate"},
         r \notin persisted, KeyHolders(r) = {}, answer[r].is = "none",
         ask' = ask, persisted' = persisted \cup {r},
         pc' = [pc EXCEPT ![r] = l], answer' = answer
  PROVE  Inv'
<1>1. Types'
  BY DEF Inv, Types, PCs
<1>2. OneHolderOf(ask', persisted')
  BY DEF Inv, OneHolderOf, KeyHolders
<1>3. ASSUME NEW s \in Requests
      PROVE  Sound(s, pc'[s], answer'[s], ask', persisted')
  <2>1. CASE s = r
    <3>1. pc'[s] = l /\ answer'[s].is = "none"
      BY <2>1 DEF Inv, Types
    <3> QED BY <3>1, <2>1 DEF Sound, JoblessPCs, Jobless
  <2>2. CASE s # r
    <3>1. pc'[s] = pc[s] /\ answer'[s] = answer[s]
      BY <2>2 DEF Inv, Types
    <3>2. Sound(s, pc[s], answer[s], ask, persisted)
      BY DEF Inv
    <3> QED BY <3>1, <3>2, <2>2 DEF Sound
  <2> QED BY <2>1, <2>2
<1> QED BY <1>1, <1>2, <1>3 DEF Inv

\* The two ways an action moves on: silently, or with an answer.
LEMMA SilentStep ==
  ASSUME Inv, NEW r \in Requests, NEW l \in PCs,
         ask' = ask, persisted' = persisted, GoTo(r, l), answer' = answer,
         Sound(r, l, answer[r], ask, persisted)
  PROVE  Inv'
<1>1. answer' = [answer EXCEPT ![r] = answer[r]] /\ answer[r] \in Answers
  BY DEF Inv, Types
<1> QED BY <1>1, OwnStep DEF GoTo

LEMMA AnsweredStep ==
  ASSUME Inv, NEW r \in Requests, NEW l \in PCs, NEW is \in Outcomes, NEW j \in Requests,
         ask' = ask, persisted' = persisted, GoTo(r, l), Say(r, is, j),
         Sound(r, l, [is |-> is, job |-> j], ask, persisted)
  PROVE  Inv'
<1>1. [is |-> is, job |-> j] \in Answers
  BY DEF Answers
<1> QED BY <1>1, OwnStep DEF GoTo, Say, Said

-----------------------------------------------------------------------------
(* Every action keeps the invariant.                                        *)

LEMMA RejectKeeps ==
  ASSUME Inv, NEW r \in Requests, Reject(r)
  PROVE  Inv'
<1> USE DEF Reject
<1>1. Sound(r, pc[r], answer[r], ask, persisted)
  BY DEF Inv
<1>2. Sound(r, "done", [is |-> "refused", job |-> r], ask, persisted)
  BY <1>1 DEF Sound, At, JoblessPCs, Jobless
<1> QED
  BY <1>2, AnsweredStep DEF Finish, PCs, Outcomes

LEMMA HoldFailsKeeps ==
  ASSUME Inv, NEW r \in Requests, HoldFails(r)
  PROVE  Inv'
<1> USE DEF HoldFails
<1>1. Sound(r, pc[r], answer[r], ask, persisted)
  BY DEF Inv
<1>2. Sound(r, "done", [is |-> "failed", job |-> r], ask, persisted)
  BY <1>1 DEF Sound, At, JoblessPCs, Jobless
<1> QED
  BY <1>2, AnsweredStep DEF Finish, PCs, Outcomes

LEMMA RollbackKeeps ==
  ASSUME Inv, NEW r \in Requests, Rollback(r)
  PROVE  Inv'
<1> USE DEF Rollback
<1>1. Sound(r, pc[r], answer[r], ask, persisted)
  BY DEF Inv
<1>2. Sound(r, "done", [is |-> "insufficient", job |-> r], ask, persisted)
  BY <1>1 DEF Sound, At, JoblessPCs, Jobless
<1> QED
  BY <1>2, AnsweredStep DEF Finish, PCs, Outcomes

LEMMA RollbackFailsKeeps ==
  ASSUME Inv, NEW r \in Requests, RollbackFails(r)
  PROVE  Inv'
<1> USE DEF RollbackFails
<1>1. Sound(r, pc[r], answer[r], ask, persisted)
  BY DEF Inv
<1>2. Sound(r, "done", [is |-> "insufficient", job |-> r], ask, persisted)
  BY <1>1 DEF Sound, At, JoblessPCs, Jobless
<1> QED
  BY <1>2, AnsweredStep DEF Finish, PCs, Outcomes

LEMMA VerifyFailsKeeps ==
  ASSUME Inv, NEW r \in Requests, VerifyFails(r)
  PROVE  Inv'
<1> USE DEF VerifyFails
<1>1. Sound(r, pc[r], answer[r], ask, persisted)
  BY DEF Inv
<1>2. Sound(r, "done", [is |-> "failed", job |-> r], ask, persisted)
  BY <1>1 DEF Sound, At, JoblessPCs, Jobless
<1> QED
  BY <1>2, AnsweredStep DEF Finish, PCs, Outcomes

LEMMA FailBeforeStartFailsKeeps ==
  ASSUME Inv, NEW r \in Requests, FailBeforeStartFails(r)
  PROVE  Inv'
<1> USE DEF FailBeforeStartFails
<1>1. Sound(r, pc[r], answer[r], ask, persisted)
  BY DEF Inv
<1>2. Sound(r, "done", [is |-> "failed", job |-> r], ask, persisted)
  BY <1>1 DEF Sound, At, JoblessPCs, Jobless
<1> QED
  BY <1>2, AnsweredStep DEF Finish, PCs, Outcomes

LEMMA EnqueueKeeps ==
  ASSUME Inv, NEW r \in Requests, Enqueue(r)
  PROVE  Inv'
<1> USE DEF Enqueue
<1>1. Sound(r, pc[r], answer[r], ask, persisted)
  BY DEF Inv
<1>2. Sound(r, "done", [is |-> "created", job |-> r], ask, persisted)
  BY <1>1 DEF Sound, At, JoblessPCs, Jobless
<1> QED
  BY <1>2, AnsweredStep DEF Finish, PCs, Outcomes

LEMMA FindHolderFailsKeeps ==
  ASSUME Inv, NEW r \in Requests, FindHolderFails(r)
  PROVE  Inv'
<1> USE DEF FindHolderFails
<1>1. Sound(r, pc[r], answer[r], ask, persisted)
  BY DEF Inv
<1>2. Sound(r, "verify", answer[r], ask, persisted)
  BY <1>1 DEF Sound, At, JoblessPCs, Jobless
<1> QED
  BY <1>2, SilentStep DEF PCs

LEMMA ReleaseKeeps ==
  ASSUME Inv, NEW r \in Requests, Release(r)
  PROVE  Inv'
<1> USE DEF Release
<1>1. Sound(r, pc[r], answer[r], ask, persisted)
  BY DEF Inv
<1>2. Sound(r, "done", answer[r], ask, persisted)
  BY <1>1 DEF Sound, At, JoblessPCs, Jobless
<1> QED
  BY <1>2, SilentStep DEF PCs

LEMMA ReleaseFailsKeeps ==
  ASSUME Inv, NEW r \in Requests, ReleaseFails(r)
  PROVE  Inv'
<1> USE DEF ReleaseFails
<1>1. Sound(r, pc[r], answer[r], ask, persisted)
  BY DEF Inv
<1>2. Sound(r, "done", answer[r], ask, persisted)
  BY <1>1 DEF Sound, At, JoblessPCs, Jobless
<1> QED
  BY <1>2, SilentStep DEF PCs

LEMMA EnqueueFailsKeeps ==
  ASSUME Inv, NEW r \in Requests, EnqueueFails(r)
  PROVE  Inv'
<1> USE DEF EnqueueFails
<1>1. Sound(r, pc[r], answer[r], ask, persisted)
  BY DEF Inv
<1>2. Sound(r, "unqueued", answer[r], ask, persisted)
  BY <1>1 DEF Sound, At, JoblessPCs, Jobless
<1> QED
  BY <1>2, SilentStep DEF PCs

LEMMA CrashKeeps ==
  ASSUME Inv, NEW r \in Requests, Crash(r)
  PROVE  Inv'
<1> USE DEF Crash
<1>1. Sound(r, pc[r], answer[r], ask, persisted)
  BY DEF Inv
<1>2. Sound(r, "done", answer[r], ask, persisted)
  BY <1>1 DEF Sound, At, JoblessPCs, Jobless
<1> QED
  BY <1>2, SilentStep DEF PCs

LEMMA HoldKeeps ==
  ASSUME Inv, NEW r \in Requests, Hold(r)
  PROVE  Inv'
<1> USE DEF Hold
<1>1. Sound(r, pc[r], answer[r], ask, persisted)
  BY DEF Inv
<1>2. Sound(r, "overdrawn", answer[r], ask, persisted) /\ Sound(r, "insert", answer[r], ask, persisted)
  BY <1>1 DEF Sound, At, JoblessPCs, Jobless
<1>3. CASE balance' < 0
  BY <1>2, <1>3, SilentStep DEF PCs
<1>4. CASE ~(balance' < 0)
  BY <1>2, <1>4, SilentStep DEF PCs
<1> QED BY <1>3, <1>4

LEMMA AdmitKeeps ==
  ASSUME Inv, NEW r \in Requests, Admit(r)
  PROVE  Inv'
<1> USE DEF Admit
<1>1. Sound(r, pc[r], answer[r], ask, persisted)
  BY DEF Inv
<1>2. CASE Finish(r, "refused")
  <2>1. Sound(r, "done", [is |-> "refused", job |-> r], ask, persisted)
    BY <1>1 DEF Sound, At, JoblessPCs, Jobless
  <2> QED BY <1>2, <2>1, AnsweredStep DEF Finish, PCs, Outcomes
<1>3. CASE GoTo(r, IF Cost(r) = 0 THEN "insert" ELSE "hold") /\ UNCHANGED answer
  <2>1. Sound(r, "insert", answer[r], ask, persisted) /\ Sound(r, "hold", answer[r], ask, persisted)
    BY <1>1 DEF Sound, At, JoblessPCs, Jobless
  <2>2. CASE Cost(r) = 0
    BY <1>3, <2>1, <2>2, SilentStep DEF PCs
  <2>3. CASE Cost(r) # 0
    BY <1>3, <2>1, <2>3, SilentStep DEF PCs
  <2> QED BY <2>2, <2>3
<1> QED BY <1>2, <1>3

\* Answering r with the job of a holder h of its key, when r has no job.
LEMMA ReplayKeeps ==
  ASSUME Inv, NEW r \in Requests, NEW h \in KeyHolders(r), NEW l \in {"release", "done"},
         r \notin persisted, ask' = ask, persisted' = persisted,
         GoTo(r, l), ReplayOrReject(r, h)
  PROVE  Inv'
<1>1. /\ h \in persisted /\ h \in Requests
      /\ ask[r].key # NoKey /\ ask[h].key = ask[r].key
  BY DEF KeyHolders, Inv, Types
<1>2. CASE ask[h].body = ask[r].body
  <2>1. Sound(r, l, [is |-> "replayed", job |-> h], ask, persisted)
    BY <1>1, <1>2 DEF Sound, JoblessPCs, Jobless
  <2>2. Say(r, "replayed", h)
    BY <1>2 DEF ReplayOrReject
  <2> QED BY <1>1, <2>1, <2>2, AnsweredStep DEF PCs, Outcomes
<1>3. CASE ask[h].body # ask[r].body
  <2>1. Sound(r, l, [is |-> "reused", job |-> h], ask, persisted)
    BY DEF Sound, JoblessPCs, Jobless
  <2>2. Say(r, "reused", h)
    BY <1>3 DEF ReplayOrReject
  <2> QED BY <1>1, <2>1, <2>2, AnsweredStep DEF PCs, Outcomes
<1> QED BY <1>2, <1>3

LEMMA LookupKeeps ==
  ASSUME Inv, NEW r \in Requests, Lookup(r)
  PROVE  Inv'
<1> USE DEF Lookup
<1>1. Sound(r, pc[r], answer[r], ask, persisted)
  BY DEF Inv
<1>2. r \notin persisted
  BY <1>1 DEF Sound, At, JoblessPCs
<1>3. CASE KeyHolders(r) = {}
  <2>1. Sound(r, "admit", answer[r], ask, persisted)
    BY <1>1 DEF Sound, At, JoblessPCs, Jobless
  <2> QED BY <1>3, <2>1, SilentStep DEF PCs
<1>4. CASE KeyHolders(r) # {}
  <2>1. PICK h \in KeyHolders(r) : ReplayOrReject(r, h)
    BY <1>4
  <2> QED BY <1>2, <1>4, <2>1, ReplayKeeps
<1> QED BY <1>3, <1>4

LEMMA FindHolderKeeps ==
  ASSUME Inv, NEW r \in Requests, FindHolder(r)
  PROVE  Inv'
<1> USE DEF FindHolder
<1>1. Sound(r, pc[r], answer[r], ask, persisted)
  BY DEF Inv
<1>2. CASE r \in KeyHolders(r)
  <2>1. r \in persisted
    BY <1>2 DEF KeyHolders
  <2>2. Sound(r, "enqueue", answer[r], ask, persisted)
    BY <1>1, <2>1 DEF Sound, At, JoblessPCs, Jobless
  <2> QED BY <1>2, <2>2, SilentStep DEF PCs
<1>3. CASE r \notin KeyHolders(r)
  <2>1. PICK h \in KeyHolders(r) : ReplayOrReject(r, h)
    BY <1>3
  <2>2. r \notin persisted
    BY <1>3, <2>1 DEF KeyHolders
  <2> QED BY <1>3, <2>1, <2>2, ReplayKeeps
<1> QED BY <1>2, <1>3

LEMMA VerifyKeeps ==
  ASSUME Inv, NEW r \in Requests, Verify(r)
  PROVE  Inv'
<1> USE DEF Verify
<1>1. Sound(r, pc[r], answer[r], ask, persisted)
  BY DEF Inv
<1>2. CASE r \in persisted
  <2>1. Sound(r, "enqueue", answer[r], ask, persisted)
    BY <1>1, <1>2 DEF Sound, At, JoblessPCs, Jobless
  <2> QED BY <1>2, <2>1, SilentStep DEF PCs
<1>3. CASE r \notin persisted
  <2>1. Sound(r, "release", [is |-> "failed", job |-> r], ask, persisted)
    BY <1>3 DEF Sound, JoblessPCs, Jobless
  <2> QED BY <1>3, <2>1, AnsweredStep DEF PCs, Outcomes
<1> QED BY <1>2, <1>3

LEMMA InsertKeeps ==
  ASSUME Inv, NEW r \in Requests, Insert(r)
  PROVE  Inv'
<1> USE DEF Insert
<1>1. Sound(r, pc[r], answer[r], ask, persisted)
  BY DEF Inv
<1>2. r \notin persisted /\ answer[r].is = "none"
  BY <1>1 DEF Sound, At, JoblessPCs
<1>3. CASE KeyHolders(r) = {}
  BY <1>2, <1>3, OwnInsert DEF GoTo
<1>4. CASE KeyHolders(r) # {}
  <2>1. Sound(r, "duplicate", answer[r], ask, persisted)
    BY <1>2 DEF Sound, JoblessPCs, Jobless
  <2> QED BY <1>4, <2>1, SilentStep DEF PCs
<1> QED BY <1>3, <1>4

LEMMA InsertFailsKeeps ==
  ASSUME Inv, NEW r \in Requests, InsertFails(r)
  PROVE  Inv'
<1> USE DEF InsertFails
<1>1. Sound(r, pc[r], answer[r], ask, persisted)
  BY DEF Inv
<1>2. r \notin persisted /\ answer[r].is = "none"
  BY <1>1 DEF Sound, At, JoblessPCs
<1>3. CASE persisted' = persisted /\ GoTo(r, "verify")
  <2>1. Sound(r, "verify", answer[r], ask, persisted)
    BY <1>2 DEF Sound, JoblessPCs, Jobless
  <2> QED BY <1>3, <2>1, SilentStep DEF PCs
<1>4. CASE /\ KeyHolders(r) = {}
           /\ persisted' = persisted \cup {r}
           /\ GoTo(r, "verify") \/ GoTo(r, "duplicate")
  BY <1>2, <1>4, OwnInsert DEF GoTo
<1> QED BY <1>3, <1>4

LEMMA FailBeforeStartKeeps ==
  ASSUME Inv, NEW r \in Requests, FailBeforeStart(r)
  PROVE  Inv'
<1> USE DEF FailBeforeStart
<1>1. Sound(r, pc[r], answer[r], ask, persisted)
  BY DEF Inv
<1>2. \A is \in {"failed", "created"} :
        Sound(r, "done", [is |-> is, job |-> r], ask, persisted)
  BY <1>1 DEF Sound, At, JoblessPCs, Jobless
<1>3. PICK is \in {"failed", "created"} : Finish(r, is)
  OBVIOUS
<1> QED
  BY <1>2, <1>3, AnsweredStep DEF Finish, PCs, Outcomes

-----------------------------------------------------------------------------
LEMMA InvInit == Init => Inv
  BY DEF Init, Inv, Types, OneHolderOf, Sound, JoblessPCs, Jobless, Said, Answers, Outcomes, PCs

LEMMA InvNext ==
  ASSUME Inv, [Next]_vars
  PROVE  Inv'
<1>1. CASE UNCHANGED vars
  BY <1>1 DEF vars, Inv, Types
<1>2. ASSUME NEW r \in Requests, Before(r)
      PROVE  Inv'
  BY <1>2, RejectKeeps, LookupKeeps, AdmitKeeps DEF Before
<1>3. ASSUME NEW r \in Requests, TakeHold(r)
      PROVE  Inv'
  BY <1>3, HoldKeeps, HoldFailsKeeps, RollbackKeeps, RollbackFailsKeeps DEF TakeHold
<1>4. ASSUME NEW r \in Requests, Persist(r)
      PROVE  Inv'
  BY <1>4, InsertKeeps, InsertFailsKeeps, FindHolderKeeps, FindHolderFailsKeeps,
     VerifyKeeps, VerifyFailsKeeps, ReleaseKeeps, ReleaseFailsKeeps, EnqueueKeeps,
     EnqueueFailsKeeps, FailBeforeStartKeeps, FailBeforeStartFailsKeeps DEF Persist
<1>5. ASSUME NEW r \in Requests, Life(r)
      PROVE  Inv'
  <2>1. UNCHANGED << ask, pc, answer, persisted >>
    BY <1>5 DEF Life, Advance, Refund, Settle, SettleFails
  <2> QED BY <2>1 DEF Inv, Types
<1>6. ASSUME NEW r \in Requests, Crash(r)
      PROVE  Inv'
  BY <1>6, CrashKeeps
<1> QED BY <1>1, <1>2, <1>3, <1>4, <1>5, <1>6 DEF Next

LEMMA InvHolds == Spec => []Inv
<1> QED BY InvInit, InvNext, PTL DEF Spec

\* A request that was refused, or answered with another's job, has left no job
\* of its own behind (recoverFailedCreate, createJob.ts:190-229).
THEOREM NothingHidden == Spec => []NoHiddenJob
<1>1. Inv => NoHiddenJob
  BY DEF Inv, Sound, Jobless, NoHiddenJob
<1> QED BY <1>1, InvHolds, PTL

\* Two answers for one idempotency key name one job, asked for with one body
\* (replayOrReject, createJob.ts:61-74, and the unique index of the model).
THEOREM RetriesAgree == Spec => []AnswersAgree
<1>1. ASSUME Inv, NEW r \in Requests, NEW s \in Requests,
             answer[r].is \in {"created", "replayed"},
             answer[s].is \in {"created", "replayed"},
             ask[r].key # NoKey, ask[r].key = ask[s].key
      PROVE  answer[r].job = answer[s].job /\ ask[r].body = ask[s].body
  <2>1. \A t \in {r, s} : /\ answer[t].job \in persisted
                          /\ ask[answer[t].job].key = ask[t].key
                          /\ ask[answer[t].job].body = ask[t].body
    BY <1>1 DEF Inv, Sound
  <2>2. answer[r].job = answer[s].job
    BY <1>1, <2>1 DEF Inv, OneHolderOf
  <2> QED BY <2>1, <2>2
<1>2. Inv => AnswersAgree
  BY <1>1 DEF AnswersAgree
<1> QED BY <1>2, InvHolds, PTL
=============================================================================
