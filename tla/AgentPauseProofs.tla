-------------------------- MODULE AgentPauseProofs --------------------------
(***************************************************************************)
(* Proofs about AgentPause, for any calls, executors, tabs, gates,         *)
(* repeated responses, repeated deliveries and faults.                     *)
(*                                                                         *)
(* Most status writes ask nothing, so several invocations and responses    *)
(* may be under way.  As long as none of them has acted late, that is on   *)
(* a pause or a status that had moved on since it was read, at most one    *)
(* executor works (Solo), no pause is open to an answer while it does, and *)
(* a pause whose run can be claimed has not been replayed (PendingOK).     *)
(***************************************************************************)
EXTENDS AgentPause, TLAPS

Working(e) == pc[e] \notin {"idle", "claim"}
Open == pending # NoPause /\ ~pending.approved

\* One executor works, whatever was delivered: the others fail to claim.
Solo == \A e, f \in Executors : Working(e) /\ Working(f) => e = f

\* The calls of the kept pause have not been executed, but for an approved one
\* whose run has been claimed.
PendingOK ==
  /\ pending.approved => pending.call \in yes
  /\ pending.gated \cap fresh = {}
  /\ \A c \in pending.gated :
       c # pending.call \/ Open \/ status \in {"awaiting_permission", "continuing"} => ran[c] = 0

StatusOK ==
  /\ status = "paused" => pending = NoPause
  /\ Open => status \in {"awaiting_permission"} \cup Terminal

\* Each call is asked about once, so a card that is seen again is of one batch.
CardsOK ==
  /\ pending # NoPause => pending.call \in shown
  /\ (pending.gated \ {pending.call}) \cap shown = {}
  /\ fresh \cap shown = {}
  /\ \A e \in Executors : held[e] \cap shown = {}
  /\ \A t \in Tabs : seen[t] # NoPause =>
       /\ seen[t].call \in shown
       /\ pending.call = seen[t].call => pending.gated = seen[t].gated

Approving == {"approve", "reread", "flip", "send", "reflip", "resend"}
TabOK(t) ==
  pos[t] \in Approving /\ seen[t] # NoPause => seen[t].call \in yes

ExecutorOK(e) ==
  /\ pc[e] \in {"idle", "claim"} => held[e] = {}
  /\ pc[e] \in {"replay", "clear"} => mem[e] = pending /\ pending.approved
  /\ pc[e] = "replay" => ran[pending.call] = 0
  /\ pc[e] \in {"gate", "ask", "save", "loop", "turn"} => pending = NoPause
  /\ Working(e) => status \in Terminal \cup
                     {IF pc[e] = "save" THEN "awaiting_permission" ELSE "running"}
  /\ held[e] \cap fresh = {}
  /\ \A c \in held[e] : ran[c] = 0

Counts ==
  /\ \A c \in Calls : ran[c] <= 1 /\ (ran[c] > 0 => c \in yes)
  /\ \A c \in fresh : ran[c] = 0

\* An accepted denial leaves no executor at work, and nothing to answer.
Denied ==
  denied # {} => /\ \A e \in Executors : ~Working(e)
                 /\ pending = NoPause /\ status \in {"failed", "aborted"}

\* A pause that was read is whole, as TypeOK says of the one that is kept.
SeenOK == \A t \in Tabs : seen[t] = NoPause \/ seen[t].call \in seen[t].gated

Core ==
  /\ Solo /\ PendingOK /\ StatusOK /\ CardsOK /\ Counts /\ Denied
  /\ \A t \in Tabs : TabOK(t)
  /\ \A e \in Executors : ExecutorOK(e)
IInv == TypeOK /\ SeenOK /\ (~late => Core)

-----------------------------------------------------------------------------
(* Type correctness.                                                        *)

IType == TypeOK /\ SeenOK

LEMMA Bounds == MaxFaults \in Nat /\ MaxGates \in Nat /\ MaxRetries \in Nat /\ None \notin Calls
  BY PauseAssumption

LEMMA FaultType == TypeOK /\ Fault => faults' \in 0 .. MaxFaults
  BY Bounds DEF TypeOK, Fault

LEMMA RetryType ==
  ASSUME TypeOK, NEW asked, Again(asked) PROVE retries' \in 0 .. MaxRetries
  BY Bounds DEF TypeOK, Again

LEMMA LateType ==
  ASSUME TypeOK, NEW moved \in BOOLEAN, Late(moved) PROVE late' \in BOOLEAN
  BY DEF TypeOK, Late

Places == {"idle", "approve", "reread", "flip", "send", "reflip", "resend",
           "deny", "ungate", "goOn", "regate", "unstop", "stop"}

LEMMA PauseType == NoPause \in Pauses
  BY DEF NoPause, Pauses

LEMMA InitType == Init => IType
  <1> SUFFICES ASSUME Init PROVE IType
    OBVIOUS
  <1>1. faults \in 0 .. MaxFaults /\ gates \in [met : 0 .. MaxGates, open : BOOLEAN]
    BY Bounds DEF Init
  <1>2. /\ pos \in [Tabs -> {"idle"}] /\ seen \in [Tabs -> Pauses] /\ mem \in [Executors -> Pauses]
        /\ \A t \in Tabs : seen[t] = NoPause
    BY PauseType DEF Init
  <1>3. retries \in 0 .. MaxRetries
    BY Bounds DEF Init
  <1>6. late \in BOOLEAN
    BY DEF Init
  <1>4. pending \in Pauses /\ pending = NoPause
    BY PauseType DEF Init
  <1>5. SeenOK
    BY <1>2 DEF SeenOK
  <1> QED BY <1>1, <1>2, <1>3, <1>4, <1>5, <1>6
          DEF Init, IType, TypeOK, Statuses, Parked, Terminal

LEMMA ExecutorType ==
  ASSUME IType, NEW e \in Executors, Advance(e) \/ ReplayFails(e) \/ Stops(e)
  PROVE  IType'
  <1>. USE PauseType DEF IType, TypeOK, SeenOK, Statuses, Parked, Terminal, Leave, Step, owner, doc
  <1>a. CASE Load(e)
    <2>1. faults' \in 0 .. MaxFaults /\ sent' \in Nat
      BY <1>a, FaultType DEF Load
    <2>2. Approved \in Pauses
      BY DEF Approved
    <2> QED BY <1>a, <2>1, <2>2 DEF Load
  <1>b. CASE Claim(e)
    <2>1. late' \in BOOLEAN
      <3>1. late' = late \/ late' = (late \/ mem[e] # Approved)
        BY <1>b DEF Claim, Late
      <3> QED BY <3>1
    <2> QED BY <1>b, <2>1 DEF Claim
  <1>1. CASE Check(e)
    BY <1>1 DEF Check
  <1>2. CASE Replay(e)
    <2>1. mem[e].gated \subseteq Calls
      BY DEF Pauses
    <2>2. ran' \in [Calls -> Nat]
      <3>1. ran \in [Calls -> Nat] /\ ran' = [ran EXCEPT ![mem[e].call] = ran[mem[e].call] + 1]
        BY <1>2 DEF Replay
      <3>2. mem[e].call \in Calls => ran[mem[e].call] + 1 \in Nat
        BY <3>1
      <3> QED BY <3>1, <3>2
    <2> QED BY <1>2, <2>1, <2>2 DEF Replay
  <1>3. CASE ReplayFails(e)
    <2>1. ran' \in [Calls -> Nat]
      <3>1. PICK k \in {0, 1} : ran' = [ran EXCEPT ![mem[e].call] = ran[mem[e].call] + k]
        BY <1>3 DEF ReplayFails
      <3>2. mem[e].call \in Calls => ran[mem[e].call] + k \in Nat
        BY <3>1
      <3> QED BY <3>1, <3>2
    <2> QED BY <1>3, <2>1, FaultType DEF ReplayFails
  <1>4. CASE Clear(e)
    BY <1>4 DEF Clear
  <1>5. CASE Withhold(e)
    BY <1>5 DEF Withhold
  <1>6. CASE Refuse(e) \/ Park(e)
    BY <1>6 DEF Refuse, Park
  <1>7. CASE Save(e)
    <2>1. PICK c \in held[e] : /\ pending' = [call |-> c, gated |-> held[e], approved |-> FALSE]
                               /\ shown' = shown \cup {c}
      BY <1>7 DEF Save
    <2>2. held[e] \subseteq Calls /\ c \in Calls
      OBVIOUS
    <2>3. pending' \in Pauses /\ pending'.call \in pending'.gated
      BY <2>1, <2>2 DEF Pauses
    <2> QED BY <1>7, <2>1, <2>2, <2>3 DEF Save
  <1>8. CASE Gate(e)
    <2>1. gates' \in [met : 0 .. MaxGates, open : BOOLEAN]
      <3>1. gates \in [met : 0 .. MaxGates, open : BOOLEAN]
        OBVIOUS
      <3>2. gates.met < MaxGates => gates.met + 1 \in 0 .. MaxGates
        BY <3>1, Bounds
      <3>3. \/ gates' = gates
            \/ gates.met < MaxGates /\ gates' = [met |-> gates.met + 1, open |-> TRUE]
        BY <1>8 DEF Gate
      <3>4. CASE gates' = gates
        BY <3>1, <3>4
      <3>5. CASE gates.met < MaxGates /\ gates' = [met |-> gates.met + 1, open |-> TRUE]
        BY <3>2, <3>5
      <3> QED BY <3>3, <3>4, <3>5
    <2> QED BY <1>8, <2>1 DEF Gate
  <1>9. CASE Handoff(e) \/ Finish(e)
    BY <1>9 DEF Handoff, Finish
  <1>10. CASE Stops(e)
    BY <1>10, FaultType DEF Stops
  <1> QED BY <1>a, <1>b, <1>1, <1>2, <1>3, <1>4, <1>5, <1>6, <1>7, <1>8, <1>9, <1>10 DEF Advance

LEMMA TabType ==
  ASSUME IType, NEW t \in Tabs,
         \/ Proceed(t) \/ Approve(t) \/ Deny(t) \/ AnswerGate(t) \/ SendFails(t)
         \/ Rejected(t) \/ Dies(t)
  PROVE  IType'
  <1>. USE PauseType DEF IType, TypeOK, SeenOK, Statuses, Parked, Terminal, At, executor, doc
  <1>1. CASE Approve(t)
    <2>1. PICK c \in shown :
            /\ yes' = yes \cup {c}
            /\ Takes(t, c, "reflip") \/ Takes(t, c, "approve") \/ Ignores
      BY <1>1 DEF Approve
    <2>2. retries' \in 0 .. MaxRetries
      BY <2>1, RetryType DEF Takes, Ignores
    <2>3. /\ pos' \in [Tabs -> Places] /\ seen' \in [Tabs -> Pauses]
          /\ \A u \in Tabs : seen'[u] \in {seen[u], pending}
      BY <2>1 DEF Takes, Ignores, Places
    <2> QED BY <1>1, <2>1, <2>2, <2>3 DEF Approve, Places
  <1>2. CASE Deny(t)
    <2>1. PICK c \in shown : Takes(t, c, "deny") \/ Ignores
      BY <1>2 DEF Deny
    <2>2. retries' \in 0 .. MaxRetries
      BY <2>1, RetryType DEF Takes, Ignores
    <2>3. /\ pos' \in [Tabs -> Places] /\ seen' \in [Tabs -> Pauses]
          /\ \A u \in Tabs : seen'[u] \in {seen[u], pending}
      BY <2>1 DEF Takes, Ignores, Places
    <2> QED BY <1>2, <2>2, <2>3 DEF Deny, Places
  <1>3. CASE Mark(t)
    <2>0. late' \in BOOLEAN
      BY <1>3 DEF Mark, Late
    <2>1. CASE Asks(t)
      <3>0. pending' = [pending EXCEPT !.approved = TRUE] /\ pending.call \in pending.gated
        BY <1>3, <2>1 DEF Mark, Asks, NoPause
      <3>1. pending' \in Pauses /\ pending'.call \in pending'.gated
        BY <3>0 DEF Pauses
      <3>2. At(t, "flip")
        BY <1>3, <2>1 DEF Mark
      <3>3. pos' \in [Tabs -> Places] /\ seen' = seen
        BY <3>2 DEF Places
      <3> QED BY <1>3, <2>0, <3>1, <3>3 DEF Mark, Places
    <2>2. CASE ~Asks(t)
      BY <1>3, <2>0, <2>2 DEF Mark
    <2> QED BY <2>1, <2>2
  <1>4. CASE Reread(t) \/ ClearGate(t)
    BY <1>4 DEF Reread, ClearGate
  <1>5. CASE Flip(t)
    <2>1. late' \in BOOLEAN
      <3>1. CASE pos[t] = "goOn"
        BY <1>5, <3>1 DEF Flip, Late
      <3>2. CASE pos[t] # "goOn"
        BY <1>5, <3>2 DEF Flip, Late
      <3> QED BY <3>1, <3>2
    <2>2. pos' \in [Tabs -> Places] /\ \A u \in Tabs : seen'[u] \in {seen[u], NoPause}
      <3>1. CASE pos[t] = "flip"
        BY <1>5, <3>1 DEF Flip, Places
      <3>2. CASE pos[t] = "reflip"
        BY <1>5, <3>2 DEF Flip, Places
      <3>3. CASE pos[t] = "goOn"
        BY <1>5, <3>3 DEF Flip, Places
      <3> QED BY <1>5, <3>1, <3>2, <3>3 DEF Flip
    <2>3. seen' \in [Tabs -> Pauses]
      BY <1>5 DEF Flip
    <2> QED BY <1>5, <2>1, <2>2, <2>3 DEF Flip, Places
  <1>6. CASE Send(t)
    BY <1>6 DEF Send
  <1>7. CASE SendFails(t)
    BY <1>7, FaultType DEF SendFails
  <1>8. CASE Rejected(t)
    <2>1. /\ status' \in Statuses
          /\ pending' \in Pauses /\ (pending' # NoPause => pending'.call \in pending'.gated)
      BY <1>8 DEF Rejected
    <2>2. gates' \in [met : 0 .. MaxGates, open : BOOLEAN]
      <3>1. gates \in [met : 0 .. MaxGates, open : BOOLEAN]
        OBVIOUS
      <3>2. [gates EXCEPT !.open = TRUE] \in [met : 0 .. MaxGates, open : BOOLEAN]
        BY <3>1
      <3> QED BY <1>8, <3>1, <3>2 DEF Rejected
    <2>3. late' \in BOOLEAN
      BY <1>8 DEF Rejected, Late
    <2>4. faults' \in 0 .. MaxFaults
      BY <1>8, FaultType DEF Rejected
    <2>5. At(t, "idle")
      BY <1>8 DEF Rejected
    <2> QED BY <1>8, <2>1, <2>2, <2>3, <2>4, <2>5 DEF Rejected
  <1>9. CASE RefuseIt(t)
    <2>1. Asks(t) => pending.call \in Calls
      BY DEF Asks, Pauses
    <2> QED BY <1>9, <2>1 DEF RefuseIt
  <1>10. CASE AnswerGate(t)
    <2>1. retries' \in 0 .. MaxRetries
      BY <1>10, RetryType DEF AnswerGate
    <2>2. gates' \in [met : 0 .. MaxGates, open : BOOLEAN]
      BY <1>10 DEF AnswerGate
    <2> QED BY <1>10, <2>1, <2>2 DEF AnswerGate
  <1>11. CASE StopAtGate(t)
    <2>1. late' \in BOOLEAN
      BY <1>11 DEF StopAtGate, Late
    <2> QED BY <1>11, <2>1 DEF StopAtGate
  <1>12. CASE Dies(t)
    BY <1>12, FaultType DEF Dies
  <1> QED BY <1>1, <1>2, <1>3, <1>4, <1>5, <1>6, <1>7, <1>8, <1>9, <1>10, <1>11, <1>12 DEF Proceed

LEMMA EndType ==
  ASSUME IType, AbortRead \/ Abort \/ Sweep
  PROVE  IType'
  BY DEF IType, TypeOK, SeenOK, AbortRead, Abort, AbortFlag, AbortMark, Sweep, Statuses, Parked,
         Terminal, owner, executor, doc

LEMMA NextType == IType /\ [Next]_vars => IType'
  <1> SUFFICES ASSUME IType, [Next]_vars PROVE IType'
    OBVIOUS
  <1>1. CASE UNCHANGED vars
    BY <1>1 DEF IType, TypeOK, SeenOK, vars, owner, executor, doc
  <1> QED BY <1>1, ExecutorType, TabType, EndType DEF Next

\* Every reachable state is well typed, also when responses are sent again: a
\* pause that is put back by restoreRejectedResume is a whole one.
THEOREM TypeCorrect == Spec => []TypeOK
  <1>1. IType => TypeOK
    BY DEF IType
  <1> QED BY <1>1, InitType, NextType, PTL DEF Spec

-----------------------------------------------------------------------------
(* The executor's steps.                                                    *)

LEMMA Whole ==
  ASSUME IType
  PROVE  /\ pending = NoPause \/ (pending.call \in pending.gated /\ pending.call \in Calls)
         /\ pending.gated \subseteq Calls
         /\ \A t \in Tabs : seen[t] = NoPause \/ (seen[t].call \in seen[t].gated /\ seen[t].call \in Calls)
  BY DEF IType, TypeOK, SeenOK, Pauses

LEMMA StepAlone ==
  ASSUME IType, NEW e \in Executors, NEW l, Step(e, l)
  PROVE  pc'[e] = l /\ \A f \in Executors : f # e => pc'[f] = pc[f]
  BY DEF IType, TypeOK, Step

LEMMA LeaveAlone ==
  ASSUME IType, NEW e \in Executors, Leave(e)
  PROVE  /\ pc'[e] = "idle" /\ mem'[e] = NoPause /\ held'[e] = {}
         /\ \A f \in Executors : f # e => pc'[f] = pc[f] /\ mem'[f] = mem[f] /\ held'[f] = held[f]
  BY DEF IType, TypeOK, Leave, Step

\* While an executor works, nothing is open to an answer and nobody else works.
LEMMA Alone ==
  ASSUME IType, Core, NEW e \in Executors, Working(e)
  PROVE  /\ ~Open /\ denied = {}
         /\ \A f \in Executors : f # e => ~Working(f) /\ held[f] = {}
  <1>1. \A f \in Executors : f # e => ~Working(f)
    BY DEF Core, Solo
  <1>2. \A f \in Executors : f # e => held[f] = {}
    BY <1>1 DEF Core, ExecutorOK, Working
  <1>3. ~Open
    BY DEF Core, ExecutorOK, Working, Open, IType, TypeOK
  <1>4. denied = {}
    BY DEF Core, Denied
  <1> QED BY <1>1, <1>2, <1>3, <1>4

LEMMA Resting ==
  ASSUME NEW f \in Executors, ~Working(f), held[f] = {}
  PROVE  ExecutorOK(f)
  BY DEF Working, ExecutorOK

\* A response rests on owner, pending, shown, fresh and what is withheld.
LEMMA TabsStay ==
  ASSUME Core, pos' = pos, seen' = seen, yes' = yes
  PROVE  \A t \in Tabs : TabOK(t)'
  BY DEF Core, TabOK

LEMMA CardsStay ==
  ASSUME Core, pending' = pending, seen' = seen, shown' = shown, fresh' = fresh,
         \A f \in Executors : held'[f] \subseteq held[f]
  PROVE  CardsOK'
  BY DEF Core, CardsOK

LEMMA CountsStay ==
  ASSUME Core, ran' = ran, fresh' \subseteq fresh, yes \subseteq yes'
  PROVE  Counts'
  BY DEF Core, Counts

\* An executor that goes, by itself, by a fault or because it found nothing to do.
LEMMA LeaveCore ==
  ASSUME IType, Core, NEW e \in Executors, Leave(e),
         UNCHANGED << pending, ran, fresh, pos, seen, yes, denied, shown >>,
         \/ status' \in {status, "failed", "aborted"}
         \/ Working(e) /\ pending = NoPause /\ status' \in Statuses
  PROVE  Core'
  <1>1. /\ pc'[e] = "idle" /\ held'[e] = {}
        /\ \A f \in Executors : f # e => pc'[f] = pc[f] /\ mem'[f] = mem[f] /\ held'[f] = held[f]
    BY LeaveAlone
  <1>2. Solo'
    BY <1>1 DEF Core, Solo, Working
  <1>3. PendingOK' /\ StatusOK'
    BY DEF Core, PendingOK, StatusOK, Open, NoPause, Terminal
  <1>4. CardsOK'
    <2>1. \A f \in Executors : held'[f] \subseteq held[f]
      BY <1>1
    <2> QED BY <2>1, CardsStay
  <1>5. Counts'
    BY CountsStay
  <1>6. Denied'
    BY <1>1 DEF Core, Denied, Working
  <1>7. \A t \in Tabs : TabOK(t)'
    BY TabsStay
  <1>8. ASSUME NEW f \in Executors PROVE ExecutorOK(f)'
    <2>1. CASE f = e
      BY <1>1, <2>1 DEF ExecutorOK, Working
    <2>2. CASE f # e /\ Working(e)
      BY <1>1, <2>2, Alone DEF ExecutorOK, Working
    <2>3. CASE f # e /\ ~Working(e)
      BY <1>1, <2>3 DEF Core, ExecutorOK, Working, Terminal
    <2> QED BY <2>1, <2>2, <2>3
  <1> QED BY <1>2, <1>3, <1>4, <1>5, <1>6, <1>7, <1>8 DEF Core

\* A step of the executor at work that changes neither the pause nor what has run.
LEMMA GoesOn ==
  ASSUME IType, Core, NEW e \in Executors, NEW l, Working(e), Step(e, l),
         pending = NoPause, UNCHANGED << pending, ran, pos, seen, yes, denied, shown >>,
         l \in {"ask", "save", "turn"},
         (held' = held /\ fresh' = fresh) \/ \E batch \in SUBSET fresh :
           held' = [held EXCEPT ![e] = batch] /\ fresh' = fresh \ batch,
         status' = IF l = "save" THEN "awaiting_permission" ELSE status,
         pc[e] # "save"
  PROVE  Core'
  <1>1. pc'[e] = l /\ \A f \in Executors : f # e => pc'[f] = pc[f]
    BY StepAlone
  <1>2. /\ held'[e] \subseteq held[e] \cup fresh /\ fresh' \subseteq fresh
        /\ held'[e] \cap fresh' = {}
        /\ \A f \in Executors : f # e => held'[f] = held[f]
    <2>1. CASE held' = held /\ fresh' = fresh
      BY <2>1 DEF Core, ExecutorOK
    <2>2. CASE \E batch \in SUBSET fresh :
                 held' = [held EXCEPT ![e] = batch] /\ fresh' = fresh \ batch
      BY <2>2 DEF IType, TypeOK
    <2> QED BY <2>1, <2>2
  <1>3. \A c \in held'[e] : ran[c] = 0
    BY <1>2 DEF Core, ExecutorOK, Counts
  <1>4. Solo'
    BY <1>1 DEF Core, Solo, Working
  <1>5. PendingOK' /\ StatusOK'
    BY DEF Core, PendingOK, StatusOK, Open, NoPause
  <1>6. CardsOK'
    <2>1. /\ fresh \cap shown = {}
          /\ \A t \in Tabs : seen[t] # NoPause =>
               /\ seen[t].call \in shown
               /\ pending.call = seen[t].call => pending.gated = seen[t].gated
          /\ (pending.gated \ {pending.call}) \cap shown = {}
      BY DEF Core, CardsOK
    <2>2. \A f \in Executors : held'[f] \cap shown = {}
      <3>1. \A f \in Executors : held[f] \cap shown = {}
        BY DEF Core, CardsOK
      <3> QED BY <1>2, <2>1, <3>1
    <2> QED BY <1>2, <2>1, <2>2 DEF CardsOK
  <1>7. Counts'
    BY <1>2, CountsStay
  <1>8. Denied'
    BY Alone DEF Denied
  <1>9. \A t \in Tabs : TabOK(t)'
    BY TabsStay
  <1>10. ASSUME NEW f \in Executors PROVE ExecutorOK(f)'
    <2>1. CASE f = e
      <3>1. Working(e) => status \in Terminal \cup {"running"}
        BY DEF Core, ExecutorOK
      <3> QED BY <1>1, <1>2, <1>3, <2>1, <3>1 DEF ExecutorOK, Working
    <2>2. CASE f # e
      BY <1>1, <1>2, <2>2, Alone DEF ExecutorOK, Working
    <2> QED BY <2>1, <2>2
  <1> QED BY <1>4, <1>5, <1>6, <1>7, <1>8, <1>9, <1>10 DEF Core

LEMMA LoadCore ==
  ASSUME IType, Core, NEW e \in Executors, Load(e)
  PROVE  Core'
  <1>1. UNCHANGED << pending, ran, fresh, pos, seen, yes, denied, shown, held >> /\ ~Working(e)
    BY DEF Load, owner, Working
  <1>2. \A f \in Executors :
          \/ pc'[f] = pc[f] /\ mem'[f] = mem[f]
          \/ pc'[f] = "claim" /\ f = e
    BY DEF Load, Step, IType, TypeOK
  <1>3. status' \in {status, "aborted"}
    BY DEF Load
  <1>4. \A f \in Executors : Working(f)' => Working(f)
    BY <1>2 DEF Working
  <1>5. Solo'
    BY <1>4 DEF Core, Solo
  <1>6. PendingOK' /\ StatusOK'
    BY <1>1, <1>3 DEF Core, PendingOK, StatusOK, Open, Terminal
  <1>7. CardsOK' /\ Counts'
    BY <1>1, CardsStay, CountsStay
  <1>8. Denied'
    BY <1>1, <1>3, <1>4 DEF Core, Denied
  <1>9. \A t \in Tabs : TabOK(t)'
    BY <1>1, TabsStay
  <1>10. ASSUME NEW f \in Executors PROVE ExecutorOK(f)'
    <2>1. CASE pc'[f] = pc[f] /\ mem'[f] = mem[f]
      BY <1>1, <1>2, <1>3, <2>1 DEF Core, ExecutorOK, Working, Terminal
    <2>2. CASE pc'[f] = "claim" /\ f = e
      <3>1. held[e] = {}
        BY <1>1 DEF Core, ExecutorOK, Working
      <3> QED BY <1>1, <1>2, <2>2, <3>1 DEF ExecutorOK, Working
    <2> QED BY <1>2, <2>1, <2>2
  <1> QED BY <1>5, <1>6, <1>7, <1>8, <1>9, <1>10 DEF Core

LEMMA ClaimCore ==
  ASSUME IType, Core, NEW e \in Executors, Claim(e), ~late'
  PROVE  Core'
  <1>1. CASE status # "continuing"
    BY <1>1, LeaveCore DEF Claim, owner
  <1>2. CASE status = "continuing"
    <2>1. /\ UNCHANGED << pending, ran, fresh, pos, seen, yes, denied, shown, held, mem >>
          /\ status' = "running" /\ pc[e] = "claim" /\ mem[e] = Approved
          /\ Step(e, IF mem[e] = NoPause THEN "loop" ELSE "replay")
      BY <1>2 DEF Claim, owner, Late
    <2>2. /\ pc'[e] = IF mem[e] = NoPause THEN "loop" ELSE "replay"
          /\ \A f \in Executors : f # e => pc'[f] = pc[f]
      BY <2>1, StepAlone
    <2>3. \A f \in Executors : ~Working(f) /\ held[f] = {}
      BY <1>2 DEF Core, ExecutorOK, Working, Terminal
    <2>4. pending = NoPause \/ pending.approved
      BY <1>2 DEF Core, StatusOK, Open, Terminal
    <2>5. Solo'
      BY <2>2, <2>3 DEF Solo, Working
    <2>6. PendingOK' /\ StatusOK'
      BY <2>1, <2>4 DEF Core, PendingOK, StatusOK, Open, NoPause
    <2>7. CardsOK' /\ Counts'
      BY <2>1, CardsStay, CountsStay
    <2>8. Denied'
      BY <1>2, <2>1 DEF Core, Denied
    <2>9. \A t \in Tabs : TabOK(t)'
      BY <2>1, TabsStay
    <2>10. ASSUME NEW f \in Executors PROVE ExecutorOK(f)'
      <3>1. CASE f # e
        BY <2>1, <2>2, <2>3, <3>1 DEF ExecutorOK, Working
      <3>2. CASE f = e /\ mem[e] = NoPause
        <4>1. pending = NoPause
          BY <2>1, <2>4, <3>2 DEF Approved
        <4> QED BY <2>1, <2>2, <2>3, <3>2, <4>1 DEF ExecutorOK, Working
      <3>3. CASE f = e /\ mem[e] # NoPause
        <4>1. mem[e] = pending /\ pending.approved
          BY <2>1, <3>3 DEF Approved
        <4>2. ran[pending.call] = 0
          BY <1>2, <4>1, Whole DEF Core, PendingOK, NoPause
        <4> QED BY <2>1, <2>2, <2>3, <3>3, <4>1, <4>2 DEF ExecutorOK, Working
      <3> QED BY <3>1, <3>2, <3>3
    <2> QED BY <2>5, <2>6, <2>7, <2>8, <2>9, <2>10 DEF Core
  <1> QED BY <1>1, <1>2

LEMMA ReplayCore ==
  ASSUME IType, Core, NEW e \in Executors, Replay(e)
  PROVE  Core'
  <1>1. /\ UNCHANGED << pending, status, mem, fresh, pos, seen, yes, denied, shown >>
        /\ pc[e] = "replay" /\ Step(e, "clear")
        /\ ran' = [ran EXCEPT ![mem[e].call] = ran[mem[e].call] + 1]
        /\ held' = [held EXCEPT ![e] = mem[e].gated \ {mem[e].call}]
    BY DEF Replay, owner, doc
  <1>2. pc'[e] = "clear" /\ \A f \in Executors : f # e => pc'[f] = pc[f]
    BY <1>1, StepAlone
  <1>3. Working(e) /\ mem[e] = pending /\ pending.approved /\ ran[pending.call] = 0
        /\ status \in Terminal \cup {"running"}
    BY <1>1 DEF Core, ExecutorOK, Working
  <1>4. pending.call \in pending.gated /\ pending.call \in Calls /\ pending.gated \subseteq Calls
        /\ pending # NoPause
    BY <1>3, Whole DEF NoPause
  <1>5. /\ held'[e] = pending.gated \ {pending.call}
        /\ \A f \in Executors : f # e => held'[f] = held[f]
    BY <1>1, <1>3 DEF IType, TypeOK
  <1>6. ran'[pending.call] = 1 /\ \A c \in Calls : c # pending.call => ran'[c] = ran[c]
    BY <1>1, <1>3, <1>4 DEF IType, TypeOK
  <1>7. pending.gated \cap fresh = {} /\ pending.call \in yes
    BY <1>3 DEF Core, PendingOK
  <1>8. \A c \in pending.gated : c # pending.call => ran'[c] = 0
    BY <1>4, <1>6 DEF Core, PendingOK
  <1>9. Solo'
    BY <1>2, <1>3 DEF Core, Solo, Working
  <1>10. PendingOK' /\ StatusOK'
    <2>1. status \notin {"awaiting_permission", "continuing", "paused"} /\ ~Open
      BY <1>3, Alone DEF Terminal
    <2>2. ~Open'
      BY <1>1, <2>1 DEF Open
    <2> QED BY <1>1, <1>7, <1>8, <2>1, <2>2 DEF PendingOK, StatusOK
  <1>11. CardsOK'
    <2>1. \A f \in Executors : held'[f] \cap shown = {}
      BY <1>5 DEF Core, CardsOK
    <2> QED BY <1>1, <2>1 DEF Core, CardsOK
  <1>12. Counts'
    <2>1. ASSUME NEW c \in Calls PROVE ran'[c] <= 1 /\ (ran'[c] > 0 => c \in yes)
      BY <1>6, <1>7 DEF Core, Counts
    <2>2. \A c \in fresh : ran'[c] = 0
      BY <1>4, <1>6, <1>7 DEF Core, Counts, IType, TypeOK
    <2> QED BY <1>1, <2>1, <2>2 DEF Counts
  <1>13. Denied'
    BY <1>1, <1>3, Alone DEF Denied
  <1>14. \A t \in Tabs : TabOK(t)'
    BY <1>1, TabsStay
  <1>15. ASSUME NEW f \in Executors PROVE ExecutorOK(f)'
    <2>1. CASE f = e
      BY <1>1, <1>2, <1>3, <1>5, <1>7, <1>8, <2>1 DEF ExecutorOK, Working
    <2>2. CASE f # e
      BY <1>2, <1>3, <1>5, <2>2, Alone DEF ExecutorOK, Working
    <2> QED BY <2>1, <2>2
  <1> QED BY <1>9, <1>10, <1>11, <1>12, <1>13, <1>14, <1>15 DEF Core

LEMMA ReplayFailsCore ==
  ASSUME IType, Core, NEW e \in Executors, ReplayFails(e)
  PROVE  Core'
  <1>1. /\ UNCHANGED << pending, fresh, pos, seen, yes, denied, shown >>
        /\ pc[e] = "replay" /\ Leave(e) /\ status' = "failed"
    BY DEF ReplayFails, owner
  <1>2. /\ pc'[e] = "idle" /\ held'[e] = {}
        /\ \A f \in Executors : f # e => pc'[f] = pc[f] /\ mem'[f] = mem[f] /\ held'[f] = held[f]
    BY <1>1, LeaveAlone
  <1>3. Working(e) /\ mem[e] = pending /\ pending.approved /\ ran[pending.call] = 0
    BY <1>1 DEF Core, ExecutorOK, Working
  <1>4. pending.call \in pending.gated /\ pending.call \in Calls /\ pending.gated \subseteq Calls
        /\ pending # NoPause
    BY <1>3, Whole DEF NoPause
  <1>6. /\ ran'[pending.call] \in {0, 1}
        /\ \A c \in Calls : c # pending.call => ran'[c] = ran[c]
    <2>1. PICK k \in {0, 1} : ran' = [ran EXCEPT ![mem[e].call] = ran[mem[e].call] + k]
      BY DEF ReplayFails
    <2> QED BY <2>1, <1>3, <1>4 DEF IType, TypeOK
  <1>7. pending.gated \cap fresh = {} /\ pending.call \in yes
    BY <1>3 DEF Core, PendingOK
  <1>8. \A c \in pending.gated : c # pending.call => ran'[c] = 0
    BY <1>4, <1>6 DEF Core, PendingOK
  <1>9. Solo'
    BY <1>2 DEF Core, Solo, Working
  <1>10. PendingOK' /\ StatusOK'
    <2>1. ~Open'
      BY <1>1, <1>3 DEF Open
    <2> QED BY <1>1, <1>7, <1>8, <2>1 DEF PendingOK, StatusOK
  <1>11. CardsOK'
    <2>1. \A f \in Executors : held'[f] \subseteq held[f]
      BY <1>2
    <2> QED BY <1>1, <2>1, CardsStay
  <1>12. Counts'
    <2>1. ASSUME NEW c \in Calls PROVE ran'[c] <= 1 /\ (ran'[c] > 0 => c \in yes)
      BY <1>6, <1>7 DEF Core, Counts
    <2>2. \A c \in fresh : ran'[c] = 0
      BY <1>4, <1>6, <1>7 DEF Core, Counts, IType, TypeOK
    <2> QED BY <1>1, <2>1, <2>2 DEF Counts
  <1>13. Denied'
    BY <1>1, <1>3, Alone DEF Denied
  <1>14. \A t \in Tabs : TabOK(t)'
    BY <1>1, TabsStay
  <1>15. ASSUME NEW f \in Executors PROVE ExecutorOK(f)'
    BY <1>2, <1>3, Alone DEF ExecutorOK, Working
  <1> QED BY <1>9, <1>10, <1>11, <1>12, <1>13, <1>14, <1>15 DEF Core

LEMMA ClearCore ==
  ASSUME IType, Core, NEW e \in Executors, Clear(e)
  PROVE  Core'
  <1>1. /\ UNCHANGED << status, held, ran, fresh, pos, seen, yes, denied, shown >>
        /\ pc[e] = "clear" /\ pending' = NoPause
        /\ Step(e, IF held[e] = {} THEN "gate" ELSE "ask")
    BY DEF Clear, owner
  <1>2. pc'[e] \in {"gate", "ask"} /\ \A f \in Executors : f # e => pc'[f] = pc[f]
    BY <1>1, StepAlone
  <1>3. Working(e) /\ status \in Terminal \cup {"running"}
    BY <1>1 DEF Core, ExecutorOK, Working
  <1>9. Solo'
    BY <1>2, <1>3 DEF Core, Solo, Working
  <1>10. PendingOK' /\ StatusOK'
    BY <1>1 DEF PendingOK, StatusOK, NoPause, Open
  <1>11. CardsOK'
    <2>1. \A t \in Tabs : seen[t] # NoPause => seen[t].call \in shown /\ seen[t].call # None
      BY Whole, Bounds DEF Core, CardsOK
    <2> QED BY <1>1, <2>1 DEF Core, CardsOK, NoPause
  <1>12. Counts'
    BY <1>1, CountsStay
  <1>13. Denied'
    BY <1>1, <1>3, Alone DEF Denied
  <1>14. \A t \in Tabs : TabOK(t)'
    BY <1>1, TabsStay
  <1>15. ASSUME NEW f \in Executors PROVE ExecutorOK(f)'
    <2>1. CASE f = e
      BY <1>1, <1>2, <1>3, <2>1 DEF Core, ExecutorOK, Working
    <2>2. CASE f # e
      BY <1>1, <1>2, <1>3, <2>2, Alone DEF ExecutorOK, Working
    <2> QED BY <2>1, <2>2
  <1> QED BY <1>9, <1>10, <1>11, <1>12, <1>13, <1>14, <1>15 DEF Core

LEMMA SaveCore ==
  ASSUME IType, Core, NEW e \in Executors, Save(e)
  PROVE  Core'
  <1>1. /\ UNCHANGED << status, ran, fresh, pos, seen, yes, denied >>
        /\ pc[e] = "save" /\ Leave(e)
    BY DEF Save, owner
  <1>2. /\ pc'[e] = "idle" /\ held'[e] = {}
        /\ \A f \in Executors : f # e => pc'[f] = pc[f] /\ mem'[f] = mem[f] /\ held'[f] = held[f]
    BY <1>1, LeaveAlone
  <1>3. /\ Working(e) /\ status \in Terminal \cup {"awaiting_permission"}
        /\ held[e] \cap fresh = {} /\ \A c \in held[e] : ran[c] = 0
    BY <1>1 DEF Core, ExecutorOK, Working
  <1>4. PICK c \in held[e] : /\ pending' = [call |-> c, gated |-> held[e], approved |-> FALSE]
                             /\ shown' = shown \cup {c}
    BY DEF Save
  <1>5. pending'.call = c /\ pending'.gated = held[e] /\ ~pending'.approved /\ pending' # NoPause
    BY <1>4 DEF NoPause
  <1>9. Solo'
    BY <1>2 DEF Core, Solo, Working
  <1>10. PendingOK' /\ StatusOK'
    BY <1>1, <1>3, <1>5 DEF PendingOK, StatusOK, Terminal, Open
  <1>11. CardsOK'
    <2>1. /\ held[e] \cap shown = {} /\ fresh \cap shown = {}
          /\ \A t \in Tabs : seen[t] # NoPause => seen[t].call \in shown
      BY DEF Core, CardsOK
    <2>2. \A f \in Executors : held'[f] = {}
      BY <1>2, <1>3, Alone
    <2> QED BY <1>1, <1>3, <1>4, <1>5, <2>1, <2>2 DEF CardsOK
  <1>12. Counts'
    BY <1>1, CountsStay
  <1>13. Denied'
    BY <1>1, <1>3, Alone DEF Denied
  <1>14. \A t \in Tabs : TabOK(t)'
    BY <1>1, TabsStay
  <1>15. ASSUME NEW f \in Executors PROVE ExecutorOK(f)'
    BY <1>2, <1>3, Alone DEF ExecutorOK, Working
  <1> QED BY <1>9, <1>10, <1>11, <1>12, <1>13, <1>14, <1>15 DEF Core

LEMMA ExecutorCore ==
  ASSUME IType, Core, NEW e \in Executors, Advance(e) \/ ReplayFails(e) \/ Stops(e), ~late'
  PROVE  Core'
  <1>1. Working(e) /\ pc[e] \notin {"replay", "clear"} => pending = NoPause
    BY DEF Core, ExecutorOK, Working, IType, TypeOK
  <1>2. CASE Load(e) \/ Claim(e)
    BY <1>2, LoadCore, ClaimCore
  <1>3. CASE Check(e)
    <2>1. CASE aborted
      BY <1>3, <2>1, LeaveCore DEF Check, owner
    <2>2. CASE ~aborted
      BY <1>1, <1>3, <2>2, GoesOn DEF Check, owner, Working
    <2> QED BY <2>1, <2>2
  <1>4. CASE Replay(e) \/ ReplayFails(e) \/ Clear(e) \/ Save(e)
    BY <1>4, ReplayCore, ReplayFailsCore, ClearCore, SaveCore
  <1>5. CASE Withhold(e)
    <2>1. \E batch \in SUBSET fresh : held' = [held EXCEPT ![e] = batch] /\ fresh' = fresh \ batch
      BY <1>5 DEF Withhold
    <2> QED BY <1>1, <1>5, <2>1, GoesOn DEF Withhold, owner, doc, Working
  <1>6. CASE Park(e)
    BY <1>1, <1>6, GoesOn DEF Park, owner, Working
  <1>7. CASE Refuse(e) \/ Gate(e) \/ Handoff(e) \/ Finish(e)
    <2>1. Working(e) /\ pending = NoPause
      BY <1>1, <1>7 DEF Refuse, Gate, Handoff, Finish, Working
    <2>2. /\ Leave(e) /\ status' \in Statuses
          /\ UNCHANGED << pending, ran, fresh, pos, seen, yes, denied, shown >>
      BY <1>7 DEF Refuse, Gate, Handoff, Finish, owner, Statuses, Parked, Terminal, IType, TypeOK
    <2> QED BY <2>1, <2>2, LeaveCore
  <1>8. CASE Stops(e)
    BY <1>8, LeaveCore DEF Stops, owner
  <1> QED BY <1>2, <1>3, <1>4, <1>5, <1>6, <1>7, <1>8 DEF Advance

-----------------------------------------------------------------------------
(* The steps of the responses, of the abort and of the sweeps.              *)

LEMMA Quiet ==
  ASSUME IType, Core,
         \/ pending.approved /\ status \in {"awaiting_permission", "continuing"}
         \/ Open /\ status = "awaiting_permission"
         \/ status \in {"paused", "continuing"}
  PROVE  denied = {} /\ \A e \in Executors : ~Working(e)
  <1>1. denied = {}
    BY DEF Core, Denied
  <1>2. ASSUME NEW e \in Executors PROVE ~Working(e)
    <2>1. Working(e) => /\ status \in Terminal \cup {IF pc[e] = "save" THEN "awaiting_permission" ELSE "running"}
                        /\ pc[e] = "save" => pending = NoPause
      BY DEF Core, ExecutorOK
    <2> QED BY <2>1 DEF Terminal, Open, NoPause
  <1> QED BY <1>1, <1>2

\* The owner's part, and a pause or a status that changes while nobody works.
LEMMA OwnerCore ==
  ASSUME IType, Core, UNCHANGED << pc, mem, held, ran, fresh, shown, denied >>,
         yes \subseteq yes', \A u \in Tabs : TabOK(u)',
         \A u \in Tabs : seen'[u] \in {seen[u], NoPause, pending},
         \/ pending' = pending /\ status' = status
         \/ /\ denied = {} /\ \A e \in Executors : ~Working(e)
            /\ \A c \in pending.gated : ran[c] = 0
            /\ pending'.call = pending.call /\ pending'.gated = pending.gated
            /\ pending = NoPause => pending' = NoPause
            /\ pending'.approved => pending.call \in yes'
            /\ StatusOK'
  PROVE  Core'
  <1>1. Solo'
    BY DEF Core, Solo, Working
  <1>2. PendingOK'
    BY DEF Core, PendingOK, Open
  <1>3. StatusOK'
    BY DEF Core, StatusOK, Open
  <1>4. CardsOK'
    <2>1. /\ pending'.call = pending.call /\ pending'.gated = pending.gated
          /\ pending' # NoPause => pending # NoPause
      OBVIOUS
    <2>2. ASSUME NEW u \in Tabs, seen'[u] # NoPause
          PROVE  /\ seen'[u].call \in shown
                 /\ pending.call = seen'[u].call => pending.gated = seen'[u].gated
      BY <2>2 DEF Core, CardsOK
    <2>3. /\ pending # NoPause => pending.call \in shown
          /\ (pending.gated \ {pending.call}) \cap shown = {}
          /\ fresh \cap shown = {}
          /\ \A e \in Executors : held[e] \cap shown = {}
      BY DEF Core, CardsOK
    <2> QED BY <2>1, <2>2, <2>3 DEF CardsOK
  <1>5. Counts'
    BY CountsStay
  <1>6. Denied'
    BY DEF Core, Denied, Working
  <1>7. ASSUME NEW e \in Executors PROVE ExecutorOK(e)'
    <2>1. CASE pending' = pending /\ status' = status
      BY <2>1 DEF Core, ExecutorOK, Working
    <2>2. CASE ~Working(e)
      BY <2>2 DEF Core, ExecutorOK, Working
    <2> QED BY <2>1, <2>2
  <1> QED BY <1>1, <1>2, <1>3, <1>4, <1>5, <1>6, <1>7 DEF Core

LEMMA TabGoes ==
  ASSUME IType, Core, NEW t \in Tabs, NEW l, At(t, l), yes' = yes,
         l \in Approving => pos[t] \in Approving
  PROVE  /\ \A u \in Tabs : TabOK(u)'
         /\ \A u \in Tabs : seen'[u] \in {seen[u], NoPause, pending}
  <1>1. \A u \in Tabs : seen'[u] \in {seen[u], NoPause}
    BY DEF At, IType, TypeOK
  <1>2. ASSUME NEW u \in Tabs, pos'[u] \in Approving PROVE pos[u] \in Approving
    BY <1>2 DEF At, IType, TypeOK
  <1>3. \A u \in Tabs : TabOK(u)'
    BY <1>1, <1>2 DEF Core, TabOK
  <1> QED BY <1>1, <1>3

\* A response that only gets on: nothing it is about changes.
LEMMA MoveCore ==
  ASSUME IType, Core, NEW t \in Tabs, NEW l, At(t, l), l \in Approving => pos[t] \in Approving,
         UNCHANGED << pc, mem, held, ran, fresh, shown, denied, yes, pending, status >>
  PROVE  Core'
  <1>1. /\ \A u \in Tabs : TabOK(u)'
        /\ \A u \in Tabs : seen'[u] \in {seen[u], NoPause, pending}
    BY TabGoes
  <1> QED BY <1>1, OwnerCore

LEMMA RespondCore ==
  ASSUME IType, Core, NEW t \in Tabs, Approve(t) \/ Deny(t)
  PROVE  Core'
  <1>1. UNCHANGED << pc, mem, held, ran, fresh, shown, denied, pending, status >>
    BY DEF Approve, Deny, doc, executor
  <1>2. CASE Deny(t)
    <2>1. PICK c \in shown : Takes(t, c, "deny") \/ Ignores
      BY <1>2 DEF Deny
    <2>2. /\ \A u \in Tabs : seen'[u] \in {seen[u], pending}
          /\ \A u \in Tabs : pos'[u] \in Approving => pos'[u] = pos[u] /\ seen'[u] = seen[u]
          /\ yes' = yes
      BY <1>2, <2>1 DEF Deny, Takes, Ignores, Approving, IType, TypeOK
    <2>3. \A u \in Tabs : TabOK(u)'
      BY <2>2 DEF Core, TabOK
    <2> QED BY <1>1, <2>2, <2>3, OwnerCore
  <1>3. CASE Approve(t)
    <2>1. PICK c \in shown :
            /\ yes' = yes \cup {c}
            /\ \/ pending.call \in {None, c} /\ (Takes(t, c, "reflip") \/ Takes(t, c, "approve"))
               \/ Ignores
      BY <1>3 DEF Approve
    <2>2. \A u \in Tabs :
            \/ seen'[u] = seen[u] /\ pos'[u] = pos[u]
            \/ seen'[u] = pending /\ pending.call \in {None, c}
      BY <2>1 DEF Takes, Ignores, IType, TypeOK
    <2>3. ASSUME NEW u \in Tabs PROVE TabOK(u)'
      <3>1. CASE seen'[u] = seen[u] /\ pos'[u] = pos[u]
        BY <2>1, <3>1 DEF Core, TabOK
      <3>2. CASE seen'[u] = pending /\ pending.call \in {None, c}
        BY <2>1, <3>2, Whole, Bounds DEF TabOK
      <3> QED BY <2>2, <3>1, <3>2
    <2> QED BY <1>1, <2>1, <2>2, <2>3, OwnerCore
  <1> QED BY <1>2, <1>3

LEMMA MarkCore ==
  ASSUME IType, Core, NEW t \in Tabs, Mark(t), ~late'
  PROVE  Core'
  <1>1. /\ UNCHANGED << pc, mem, held, ran, fresh, shown, denied, yes, status >>
        /\ pos[t] = "approve"
    BY DEF Mark, executor
  <1>2. CASE ~Asks(t)
    BY <1>1, <1>2, MoveCore DEF Mark, Approving
  <1>3. CASE Asks(t)
    <2>1. /\ pending' = [pending EXCEPT !.approved = TRUE] /\ At(t, "flip")
          /\ seen[t] # NoPause /\ status = "awaiting_permission" /\ Open
      <3>1. pending' = [pending EXCEPT !.approved = TRUE] /\ At(t, "flip")
        BY <1>3 DEF Mark
      <3>2. seen[t] # NoPause
        BY <1>3 DEF Mark, Late
      <3>3. status = "awaiting_permission" /\ pending.call # None /\ ~pending.approved
        BY <1>3 DEF Asks
      <3>4. Open
        BY <3>3 DEF Open, NoPause
      <3> QED BY <3>1, <3>2, <3>3, <3>4
    <2>2. pending.call \in yes
      <3>1. seen[t].call \in yes
        BY <1>1, <2>1 DEF Core, TabOK, Approving
      <3>2. seen[t].call = pending.call
        BY <1>3, <2>1, Whole, Bounds DEF Asks
      <3> QED BY <3>1, <3>2
    <2>3. pending'.call = pending.call /\ pending'.gated = pending.gated /\ pending'.approved
      BY <2>1 DEF IType, TypeOK, Pauses
    <2>4. denied = {} /\ \A e \in Executors : ~Working(e)
      BY <2>1, Quiet
    <2>5. \A c \in pending.gated : ran[c] = 0
      BY <2>1 DEF Core, PendingOK
    <2>6. StatusOK'
      BY <1>1, <2>1, <2>3 DEF StatusOK, Open
    <2>7. /\ \A u \in Tabs : TabOK(u)'
          /\ \A u \in Tabs : seen'[u] \in {seen[u], NoPause, pending}
      BY <1>1, <2>1, TabGoes DEF Approving
    <2>8. pending # NoPause
      BY <2>1 DEF Open
    <2> QED BY <1>1, <2>2, <2>3, <2>4, <2>5, <2>6, <2>7, <2>8, OwnerCore
  <1> QED BY <1>2, <1>3

LEMMA FlipCore ==
  ASSUME IType, Core, NEW t \in Tabs, Flip(t), ~late'
  PROVE  Core'
  <1>1. /\ UNCHANGED << pc, mem, held, ran, fresh, shown, denied, yes, pending >>
        /\ status' = "continuing" /\ pos[t] \in {"flip", "reflip", "goOn"}
    BY DEF Flip, executor
  <1>2. /\ \A u \in Tabs : TabOK(u)'
        /\ \A u \in Tabs : seen'[u] \in {seen[u], NoPause, pending}
    <2>1. CASE pos[t] = "flip"
      <3>1. At(t, "send")
        BY <2>1 DEF Flip
      <3> QED BY <1>1, <2>1, <3>1, TabGoes DEF Approving
    <2>2. CASE pos[t] = "reflip"
      <3>1. At(t, "resend")
        BY <2>2 DEF Flip
      <3> QED BY <1>1, <2>2, <3>1, TabGoes DEF Approving
    <2>3. CASE pos[t] = "goOn"
      <3>1. At(t, "regate")
        BY <2>3 DEF Flip
      <3> QED BY <1>1, <2>3, <3>1, TabGoes DEF Approving
    <2> QED BY <1>1, <2>1, <2>2, <2>3
  <1>3. \/ status = "paused" /\ pending = NoPause
        \/ status \in {"awaiting_permission", "continuing"} /\ pending.approved
    <2>1. CASE pos[t] = "goOn"
      BY <2>1 DEF Flip, Late, Core, StatusOK
    <2>2. CASE pos[t] # "goOn"
      BY <2>2 DEF Flip, Late, StillApproved
    <2> QED BY <2>1, <2>2
  <1>4. denied = {} /\ \A e \in Executors : ~Working(e)
    BY <1>3, Quiet
  <1>5. \A c \in pending.gated : ran[c] = 0
    BY <1>3 DEF Core, PendingOK, NoPause
  <1>6. StatusOK'
    BY <1>1, <1>3 DEF StatusOK, Open
  <1>7. pending.approved => pending.call \in yes
    BY DEF Core, PendingOK
  <1> QED BY <1>1, <1>2, <1>4, <1>5, <1>6, <1>7, OwnerCore

LEMMA RejectedCore ==
  ASSUME IType, Core, NEW t \in Tabs, Rejected(t), ~late'
  PROVE  Core'
  <1>1. /\ UNCHANGED << pc, mem, held, ran, fresh, shown, denied, yes >>
        /\ At(t, "idle") /\ pos[t] \in Sending
    BY DEF Rejected, executor
  <1>2. /\ \A u \in Tabs : TabOK(u)'
        /\ \A u \in Tabs : seen'[u] \in {seen[u], NoPause, pending}
    BY <1>1, TabGoes DEF Approving
  <1>3. CASE ~(pos[t] # "resend" /\ status = "continuing" /\ ~aborted)
    BY <1>1, <1>3, MoveCore DEF Rejected, Approving
  <1>4. CASE pos[t] # "resend" /\ status = "continuing" /\ ~aborted
    <2>1. denied = {} /\ \A e \in Executors : ~Working(e)
      BY <1>4, Quiet
    <2>2. \A c \in pending.gated : ran[c] = 0
      <3>1. pending = NoPause \/ pending.approved
        BY <1>4 DEF Core, StatusOK, Open, Terminal
      <3> QED BY <1>4, <3>1 DEF Core, PendingOK, NoPause
    <2>3. CASE pos[t] = "send"
      <3>1. /\ status' = "awaiting_permission"
            /\ pending' = IF seen[t] = NoPause THEN pending ELSE seen[t]
            /\ pending.approved /\ pending.call = seen[t].call
        BY <1>4, <2>3 DEF Rejected, Late, StillApproved
      <3>2. /\ pending'.call = pending.call /\ pending'.gated = pending.gated
            /\ pending # NoPause
        <4>1. pending # NoPause
          BY <3>1 DEF NoPause
        <4>2. seen[t] # NoPause => pending.gated = seen[t].gated
          BY <3>1 DEF Core, CardsOK
        <4> QED BY <3>1, <4>1, <4>2
      <3>3. pending.call \in yes
        BY <3>1 DEF Core, PendingOK
      <3>4. StatusOK'
        BY <3>1 DEF StatusOK
      <3> QED BY <1>1, <1>2, <2>1, <2>2, <3>2, <3>3, <3>4, OwnerCore
    <2>4. CASE pos[t] # "send"
      <3>1. status' = "paused" /\ pending' = pending /\ pending = NoPause
        BY <1>4, <2>4 DEF Rejected, Late
      <3>2. StatusOK' /\ ~pending.approved
        BY <3>1 DEF StatusOK, Open, NoPause
      <3> QED BY <1>1, <1>2, <2>1, <2>2, <3>1, <3>2, OwnerCore
    <2> QED BY <2>3, <2>4
  <1> QED BY <1>3, <1>4

LEMMA RefuseCore ==
  ASSUME IType, Core, NEW t \in Tabs, RefuseIt(t)
  PROVE  Core'
  <1>1. /\ UNCHANGED << pc, mem, held, ran, fresh, shown, yes >>
        /\ At(t, "idle")
    BY DEF RefuseIt, executor
  <1>2. CASE ~Asks(t)
    BY <1>1, <1>2, MoveCore DEF RefuseIt, Approving
  <1>3. CASE Asks(t)
    <2>1. status' = "failed" /\ pending' = NoPause /\ Open /\ status = "awaiting_permission"
      BY <1>3 DEF RefuseIt, Asks, Open, NoPause
    <2>2. \A e \in Executors : ~Working(e)
      BY <2>1, Quiet
    <2>3. /\ \A u \in Tabs : TabOK(u)'
          /\ \A u \in Tabs : seen'[u] \in {seen[u], NoPause, pending}
      BY <1>1, TabGoes DEF Approving
    <2>4. Solo'
      BY <1>1, <2>2 DEF Solo, Working
    <2>5. PendingOK' /\ StatusOK'
      BY <2>1 DEF PendingOK, StatusOK, NoPause, Open
    <2>6. CardsOK'
      <3>1. ASSUME NEW u \in Tabs, seen'[u] # NoPause
            PROVE  seen'[u].call \in shown /\ seen'[u].call # None
        <4>1. seen'[u] \in {seen[u], pending}
          BY <2>3, <3>1
        <4> QED BY <3>1, <4>1, Whole, Bounds DEF Core, CardsOK
      <3> QED BY <1>1, <2>1, <3>1 DEF Core, CardsOK, NoPause
    <2>7. Counts'
      BY <1>1, CountsStay
    <2>8. Denied'
      BY <1>1, <2>1, <2>2 DEF Denied, Working
    <2>9. ASSUME NEW e \in Executors PROVE ExecutorOK(e)'
      BY <1>1, <2>2 DEF Core, ExecutorOK, Working
    <2> QED BY <2>3, <2>4, <2>5, <2>6, <2>7, <2>8, <2>9 DEF Core
  <1> QED BY <1>2, <1>3

LEMMA TabCore ==
  ASSUME IType, Core, NEW t \in Tabs, ~late',
         \/ Proceed(t) \/ Approve(t) \/ Deny(t) \/ AnswerGate(t) \/ SendFails(t)
         \/ Rejected(t) \/ Dies(t)
  PROVE  Core'
  <1>1. CASE Approve(t) \/ Deny(t) \/ Mark(t) \/ Flip(t) \/ Rejected(t) \/ RefuseIt(t)
    BY <1>1, RespondCore, MarkCore, FlipCore, RejectedCore, RefuseCore
  <1>2. CASE Reread(t)
    BY <1>2, MoveCore DEF Reread, Approving, doc, executor
  <1>3. CASE Send(t) \/ SendFails(t) \/ Dies(t)
    <2>1. /\ At(t, "idle") /\ "idle" \notin Approving
          /\ UNCHANGED << pc, mem, held, ran, fresh, shown, denied, yes, pending, status >>
      BY <1>3 DEF Send, SendFails, Dies, Approving, doc, executor
    <2> QED BY <2>1, MoveCore
  <1>4. CASE ClearGate(t) \/ AnswerGate(t)
    <2>1. PICK l \in {"idle", "goOn", "stop", "ungate", "unstop"} : At(t, l)
      BY <1>4 DEF ClearGate, AnswerGate
    <2>2. UNCHANGED << pc, mem, held, ran, fresh, shown, denied, yes, pending, status >>
      BY <1>4 DEF ClearGate, AnswerGate, doc, executor
    <2> QED BY <2>1, <2>2, MoveCore DEF Approving
  <1>5. CASE StopAtGate(t)
    <2>1. /\ UNCHANGED << pc, mem, held, ran, fresh, shown, denied, yes, pending >>
          /\ At(t, "idle") /\ status = "paused" /\ status' = "completed"
      BY <1>5 DEF StopAtGate, Late, executor
    <2>2. denied = {} /\ \A e \in Executors : ~Working(e)
      BY <2>1, Quiet
    <2>3. pending = NoPause
      BY <2>1 DEF Core, StatusOK
    <2>4. StatusOK' /\ \A c \in pending.gated : ran[c] = 0
      BY <2>1, <2>3 DEF StatusOK, Open, NoPause
    <2>5. /\ \A u \in Tabs : TabOK(u)'
          /\ \A u \in Tabs : seen'[u] \in {seen[u], NoPause, pending}
      BY <2>1, TabGoes DEF Approving
    <2>6. ~pending.approved
      BY <2>3 DEF NoPause
    <2> QED BY <2>1, <2>2, <2>3, <2>4, <2>5, <2>6, OwnerCore
  <1> QED BY <1>1, <1>2, <1>3, <1>4, <1>5 DEF Proceed

LEMMA EndCore ==
  ASSUME IType, Core, AbortRead \/ Abort \/ Sweep
  PROVE  Core'
  <1>1. /\ UNCHANGED << pending, pc, mem, held, ran, fresh, pos, seen, yes, denied, shown >>
        /\ status' \in {status, "failed", "aborted"}
    BY DEF AbortRead, Abort, AbortFlag, AbortMark, Sweep, doc, executor, owner
  <1>2. Solo' /\ Denied'
    BY <1>1 DEF Core, Solo, Denied, Working
  <1>3. PendingOK' /\ StatusOK'
    BY <1>1 DEF Core, PendingOK, StatusOK, Open, Terminal
  <1>4. CardsOK' /\ Counts'
    BY <1>1, CardsStay, CountsStay
  <1>5. \A t \in Tabs : TabOK(t)'
    BY <1>1, TabsStay
  <1>6. ASSUME NEW e \in Executors PROVE ExecutorOK(e)'
    BY <1>1 DEF Core, ExecutorOK, Working, Terminal
  <1> QED BY <1>2, <1>3, <1>4, <1>5, <1>6 DEF Core

-----------------------------------------------------------------------------
(* The invariant is inductive, and what it gives.                           *)

\* Once somebody has acted late, the history says so for ever.
LEMMA LateStays == ASSUME TypeOK, [Next]_vars, late PROVE late'
  <1> USE DEF Late
  <1>1. CASE UNCHANGED vars
    BY <1>1 DEF vars
  <1>2. ASSUME NEW e \in Executors, Advance(e) \/ ReplayFails(e) \/ Stops(e) PROVE late'
    BY <1>2 DEF Advance, ReplayFails, Stops, Load, Claim, Check, Replay, Clear, Withhold, Refuse,
                Park, Save, Gate, Handoff, Finish
  <1>3. ASSUME NEW t \in Tabs,
               \/ Proceed(t) \/ Approve(t) \/ Deny(t) \/ AnswerGate(t) \/ SendFails(t)
               \/ Rejected(t) \/ Dies(t)
        PROVE  late'
    <2>1. CASE Mark(t) \/ StopAtGate(t) \/ Rejected(t)
      BY <2>1 DEF Mark, StopAtGate, Rejected
    <2>2. CASE Flip(t)
      BY <2>2 DEF Flip
    <2>3. CASE ~(Mark(t) \/ StopAtGate(t) \/ Rejected(t) \/ Flip(t))
      BY <1>3, <2>3 DEF Proceed, Reread, Send, RefuseIt, ClearGate, Approve, Deny, AnswerGate,
                        SendFails, Dies
    <2> QED BY <2>1, <2>2, <2>3
  <1>4. CASE AbortRead \/ Abort \/ Sweep
    BY <1>4 DEF AbortRead, Abort, AbortFlag, AbortMark, Sweep
  <1> QED BY <1>1, <1>2, <1>3, <1>4 DEF Next

LEMMA InitInv == Init => IInv
  <1> SUFFICES ASSUME Init PROVE IInv
    OBVIOUS
  <1>1. \A e \in Executors : pc[e] = "idle" /\ held[e] = {} /\ mem[e] = NoPause
    BY DEF Init
  <1>2. \A t \in Tabs : pos[t] = "idle" /\ seen[t] = NoPause
    BY DEF Init
  <1>3. \A c \in Calls : ran[c] = 0
    BY DEF Init
  <1>4. Solo /\ StatusOK /\ PendingOK /\ Denied
    BY <1>1 DEF Init, Solo, Working, StatusOK, PendingOK, Denied, Open, NoPause, Terminal
  <1>5. CardsOK /\ Counts
    BY <1>1, <1>2, <1>3 DEF Init, CardsOK, Counts, NoPause
  <1>6. \A e \in Executors : ExecutorOK(e)
    BY <1>1 DEF ExecutorOK, Working
  <1>7. \A t \in Tabs : TabOK(t)
    BY <1>2 DEF TabOK
  <1> QED BY <1>4, <1>5, <1>6, <1>7, InitType DEF IInv, Core, IType

LEMMA NextInv == IInv /\ [Next]_vars => IInv'
  <1> SUFFICES ASSUME IInv, [Next]_vars PROVE IInv'
    OBVIOUS
  <1>1. IType /\ IType'
    BY NextType DEF IInv, IType
  <1>2. ASSUME ~late' PROVE Core'
    <2>1. Core
      BY <1>1, <1>2, LateStays DEF IInv, IType
    <2>2. CASE UNCHANGED vars
      BY <2>1, <2>2 DEF vars, doc, executor, owner, Core, Solo, PendingOK, StatusOK, CardsOK,
                        Counts, Denied, TabOK, ExecutorOK, Working, Open
    <2>3. ASSUME NEW e \in Executors, Advance(e) \/ ReplayFails(e) \/ Stops(e) PROVE Core'
      BY <1>1, <1>2, <2>1, <2>3, ExecutorCore
    <2>4. ASSUME NEW t \in Tabs,
                 \/ Proceed(t) \/ Approve(t) \/ Deny(t) \/ AnswerGate(t) \/ SendFails(t)
                 \/ Rejected(t) \/ Dies(t)
          PROVE  Core'
      BY <1>1, <1>2, <2>1, <2>4, TabCore
    <2>5. CASE AbortRead \/ Abort \/ Sweep
      BY <1>1, <2>1, <2>5, EndCore
    <2> QED BY <2>2, <2>3, <2>4, <2>5 DEF Next
  <1> QED BY <1>1, <1>2 DEF IInv, IType

THEOREM InvHolds == Spec => []IInv
  BY InitInv, NextInv, PTL DEF Spec

\* However answers, repeated answers, replays, hand-offs, repeated deliveries and
\* failures interleave, a withheld call is executed twice only after somebody has
\* acted on what had moved on since it was read (updateStatus, claimExecution and
\* restoreRejectedResume do not look again).
THEOREM CalledOnce == Spec => []OnceUnlessLate
  <1>1. IInv => OnceUnlessLate
    BY DEF IInv, OnceUnlessLate, RunsOnce, Core, Counts
  <1> QED BY <1>1, InvHolds, PTL

\* Under the same condition no call is executed that the owner was not asked
\* about by name: a batch is never approved as a whole.
THEOREM AskedFirst == Spec => []OnlyApproved
  <1>1. IInv => OnlyApproved
    BY DEF IInv, OnlyApproved, Core, Counts
  <1> QED BY <1>1, InvHolds, PTL

LEMMA DeniedKept ==
  ASSUME IInv, IInv', [Next]_vars
  PROVE  denied # {} /\ ~late' => ran' = ran /\ status' \in {"failed", "aborted"}
  <1> SUFFICES ASSUME denied # {}, ~late' PROVE ran' = ran /\ status' \in {"failed", "aborted"}
    OBVIOUS
  <1>1. Core
    BY LateStays DEF IInv
  <1>2. \A e \in Executors : ~Working(e)
    BY <1>1 DEF Core, Denied
  <1>3. pending = NoPause /\ status \in {"failed", "aborted"}
    BY <1>1 DEF Core, Denied
  <1>4. denied \subseteq denied'
    BY DEF Next, vars, doc, executor, owner, Advance, ReplayFails, Stops, Load, Claim, Check, Replay,
           Clear, Withhold, Refuse, Park, Save, Gate, Handoff, Finish, Proceed, Mark, Reread, Flip,
           Send, RefuseIt, ClearGate, StopAtGate, Approve, Deny, AnswerGate, SendFails, Rejected,
           Dies, AbortRead, Abort, AbortFlag, AbortMark, Sweep
  <1>5. status' \in {"failed", "aborted"}
    BY <1>4 DEF IInv, Core, Denied
  <1>6. ran' = ran
    BY <1>2 DEF Working, Next, vars, doc, executor, owner, Advance, ReplayFails, Stops, Load, Claim,
           Check, Replay, Clear, Withhold, Refuse, Park, Save, Gate, Handoff, Finish, Proceed, Mark,
           Reread, Flip, Send, RefuseIt, ClearGate, StopAtGate, Approve, Deny, AnswerGate, SendFails,
           Rejected, Dies, AbortRead, Abort, AbortFlag, AbortMark, Sweep
  <1> QED BY <1>5, <1>6

\* An accepted denial is the last word on the run: nothing is executed after it
\* and no response, invocation or failure brings it back, unless somebody acts on
\* what had moved on since it was read.
THEOREM DenialKept == Spec => DenialStops
  <1>1. IInv /\ IInv' /\ [Next]_vars =>
          [denied # {} /\ ~late' => ran' = ran /\ status' \in {"failed", "aborted"}]_vars
    BY DeniedKept
  <1> QED BY <1>1, InvHolds, PTL DEF Spec, DenialStops

=============================================================================
