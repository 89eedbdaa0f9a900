----------------------------- MODULE AgentPause -----------------------------
(***************************************************************************)
(* How an agent run stops to ask and goes on: the executor withholds a     *)
(* tool call and parks the run (settleGatedCall), or parks it at a         *)
(* confidence gate (setPendingGate); the owner's responses, from several   *)
(* tabs, mark the run and dispatch a new executor, which replays the       *)
(* approved call and may ask again (resumeApprovedPause).  Most of the     *)
(* status writes are unconditional.                                        *)
(*                                                                         *)
(* Approvals remembered for the session are left out: they only let one    *)
(* response cover more of the withheld calls.                              *)
(***************************************************************************)
EXTENDS Integers, FiniteSets

CONSTANTS
  Calls,      \* the gated tool calls the run may make
  Executors,  \* concurrent executor invocations
  Tabs,       \* concurrent responses of the owner
  None,
  CanAbort,   \* whether the owner aborts
  MaxGates,   \* bound: confidence gates
  MaxRetries, \* bound: responses to what is not asked any more
  MaxFaults   \* bound: failing calls, killed processes, repeated deliveries

ASSUME PauseAssumption ==
  /\ None \notin Calls /\ CanAbort \in BOOLEAN
  /\ MaxGates \in Nat /\ MaxRetries \in Nat /\ MaxFaults \in Nat

VARIABLES
  status,   \* the run's
  aborted,  \* its abortedAt is set
  pending,  \* its pendingPermission, [call, gated, approved]
  pc,       \* what each executor is doing
  mem,      \* the approved pause it read before its claim
  held,     \* the calls it has withheld and not settled
  sent,     \* dispatched invocations
  ran,      \* how often each call has been executed
  fresh,    \* the calls the model has not made yet
  pos,      \* where each response is
  seen,     \* the pendingPermission it read
  shown,    \* the calls a card has asked about
  yes,      \* the calls it was answered yes for
  denied,   \* the denials that were accepted
  gates,    \* gates met, and whether the last one was answered
  retries,
  abort,    \* where the abort command is
  faults,
  late      \* somebody has acted on a pause or a status that had moved on since it
            \* was read; no action depends on it

doc == << status, aborted, pending >>
executor == << pc, mem, held, sent, ran, fresh >>
owner == << pos, seen, yes, denied, retries >>
vars == << doc, executor, owner, shown, gates, abort, faults, late >>

Terminal == {"completed", "failed", "aborted"}
Parked == {"awaiting_permission", "paused"}
Statuses == {"continuing", "running"} \cup Parked \cup Terminal
NoPause == [call |-> None, gated |-> {}, approved |-> FALSE]
Pauses == [call : Calls \cup {None}, gated : SUBSET Calls, approved : BOOLEAN]

TypeOK ==
  /\ status \in Statuses /\ aborted \in BOOLEAN /\ pending \in Pauses
  /\ pending # NoPause => pending.call \in pending.gated
  /\ pc \in [Executors -> {"idle", "claim", "replay", "clear", "gate", "ask", "save", "loop", "turn"}]
  /\ mem \in [Executors -> Pauses]
  /\ held \in [Executors -> SUBSET Calls]
  /\ sent \in Nat /\ ran \in [Calls -> Nat] /\ fresh \subseteq Calls
  /\ pos \in [Tabs -> {"idle", "approve", "reread", "flip", "send", "reflip", "resend",
                       "deny", "ungate", "goOn", "regate", "unstop", "stop"}]
  /\ seen \in [Tabs -> Pauses]
  /\ shown \subseteq Calls /\ yes \subseteq Calls /\ denied \subseteq Calls
  /\ gates \in [met : 0 .. MaxGates, open : BOOLEAN]
  /\ abort \in {"ready", "flag", "flagAndMark", "mark", "done"}
  /\ retries \in 0 .. MaxRetries /\ faults \in 0 .. MaxFaults /\ late \in BOOLEAN

Init ==
  /\ status = "continuing" /\ aborted = FALSE /\ pending = NoPause
  /\ pc = [e \in Executors |-> "idle"]
  /\ mem = [e \in Executors |-> NoPause]
  /\ held = [e \in Executors |-> {}]
  /\ sent = 1 /\ ran = [c \in Calls |-> 0] /\ fresh = Calls
  /\ pos = [t \in Tabs |-> "idle"] /\ seen = [t \in Tabs |-> NoPause]
  /\ shown = {} /\ yes = {} /\ denied = {}
  /\ gates = [met |-> 0, open |-> FALSE]
  /\ retries = 0 /\ abort = "ready" /\ faults = 0 /\ late = FALSE

Fault == faults < MaxFaults /\ faults' = faults + 1
Late(moved) == late' = (late \/ moved)

-----------------------------------------------------------------------------
(* The executor (processExecution).                                         *)

Step(e, l) == pc' = [pc EXCEPT ![e] = l]
Leave(e) ==
  /\ Step(e, "idle")
  /\ mem' = [mem EXCEPT ![e] = NoPause] /\ held' = [held EXCEPT ![e] = {}]

\* Mutant: the pause is looked for only while the run is still parked.
ApprovedWhileParked ==
  IF pending.approved /\ status = "awaiting_permission" THEN pending ELSE NoPause

\* What is left to be replayed.
Approved == IF pending.approved THEN pending ELSE NoPause

\* The document is read; the approved pause that will be replayed is this one.
\* An invocation may be delivered again.
Load(e) ==
  /\ pc[e] = "idle" /\ sent > 0
  /\ \/ sent' = sent - 1 /\ UNCHANGED faults
     \/ Fault /\ UNCHANGED sent
  /\ IF aborted
       THEN status' = "aborted" /\ UNCHANGED << pc, mem >>
       ELSE Step(e, "claim") /\ mem' = [mem EXCEPT ![e] = Approved] /\ UNCHANGED status
  /\ UNCHANGED << aborted, pending, held, ran, fresh, owner, shown, gates, abort, late >>

\* claimExecution.
\* Mutant: a duplicate invocation is not told from the first.
ClaimAny(e) ==
  /\ pc[e] = "claim"
  /\ status' = "running" /\ Step(e, IF mem[e] = NoPause THEN "loop" ELSE "replay")
  /\ Late(mem[e] # Approved)
  /\ UNCHANGED << aborted, pending, mem, held, sent, ran, fresh, owner, shown, gates, abort, faults >>

Claim(e) ==
  /\ pc[e] = "claim"
  /\ IF status = "continuing"
       THEN /\ status' = "running"
            /\ Step(e, IF mem[e] = NoPause THEN "loop" ELSE "replay")
            /\ Late(mem[e] # Approved)
            /\ UNCHANGED << mem, held >>
       ELSE Leave(e) /\ UNCHANGED << status, late >>
  /\ UNCHANGED << aborted, pending, sent, ran, fresh, owner, shown, gates, abort, faults >>

\* The top of an iteration, where the abort flag is polled.
Check(e) ==
  /\ pc[e] \in {"loop", "gate"}
  /\ IF aborted THEN status' = "aborted" /\ Leave(e)
                 ELSE Step(e, "turn") /\ UNCHANGED << status, mem, held >>
  /\ UNCHANGED << aborted, pending, sent, ran, fresh, owner, shown, gates, abort, faults, late >>

\* The approved call is executed; an error may come after its effect.
\* Mutant: the whole batch is executed, not only the call the card named.
ReplayBatch(e) ==
  /\ pc[e] = "replay"
  /\ ran' = [c \in Calls |-> IF c \in mem[e].gated THEN ran[c] + 1 ELSE ran[c]]
  /\ held' = [held EXCEPT ![e] = {}]
  /\ Step(e, "clear")
  /\ UNCHANGED << doc, mem, sent, fresh, owner, shown, gates, abort, faults, late >>

Replay(e) ==
  /\ pc[e] = "replay"
  /\ ran' = [ran EXCEPT ![mem[e].call] = @ + 1]
  /\ held' = [held EXCEPT ![e] = mem[e].gated \ {mem[e].call}]
  /\ Step(e, "clear")
  /\ UNCHANGED << doc, mem, sent, fresh, owner, shown, gates, abort, faults, late >>

ReplayFails(e) ==
  /\ pc[e] = "replay" /\ Fault
  /\ \E k \in {0, 1} : ran' = [ran EXCEPT ![mem[e].call] = @ + k]
  /\ status' = "failed" /\ Leave(e)
  /\ UNCHANGED << aborted, pending, sent, fresh, owner, shown, gates, abort, late >>

\* updatePermissionState(null), whatever pause is there now; the rest of the
\* batch is asked about next.
\* Mutant: an approval of one call settles the rest of the batch, and the pause
\* stays.
ClearForgets(e) ==
  /\ pc[e] = "clear"
  /\ Step(e, IF held[e] = {} THEN "gate" ELSE "ask")
  /\ mem' = [mem EXCEPT ![e] = NoPause]
  /\ UNCHANGED << doc, held, sent, ran, fresh, owner, shown, gates, abort, faults, late >>

Clear(e) ==
  /\ pc[e] = "clear"
  /\ pending' = NoPause
  /\ Step(e, IF held[e] = {} THEN "gate" ELSE "ask")
  /\ mem' = [mem EXCEPT ![e] = NoPause]
  /\ UNCHANGED << status, aborted, held, sent, ran, fresh, owner, shown, gates, abort, faults, late >>

\* The model makes gated calls (the rest of an iteration changes nothing here).
Withhold(e) ==
  /\ pc[e] = "turn"
  /\ \E batch \in SUBSET fresh \ {{}} :
       held' = [held EXCEPT ![e] = batch] /\ fresh' = fresh \ batch
  /\ Step(e, "ask")
  /\ UNCHANGED << doc, mem, sent, ran, owner, shown, gates, abort, faults, late >>

\* settleGatedCall: refused, or parked in two writes that ask nothing of the
\* status they overwrite.
Refuse(e) ==
  /\ pc[e] = "ask"
  /\ status' = "failed" /\ Leave(e)
  /\ UNCHANGED << aborted, pending, sent, ran, fresh, owner, shown, gates, abort, faults, late >>

Park(e) ==
  /\ pc[e] = "ask"
  /\ status' = "awaiting_permission" /\ Step(e, "save")
  /\ UNCHANGED << aborted, pending, mem, held, sent, ran, fresh, owner, shown, gates, abort, faults, late >>

\* Mutant: the call on the card is not kept with the rest of its batch.
SaveRest(e) ==
  /\ pc[e] = "save"
  /\ \E c \in held[e] :
       /\ pending' = [call |-> c, gated |-> held[e] \ {c}, approved |-> FALSE]
       /\ shown' = shown \cup {c}
  /\ Leave(e)
  /\ UNCHANGED << status, aborted, sent, ran, fresh, owner, gates, abort, faults, late >>

Save(e) ==
  /\ pc[e] = "save"
  /\ \E c \in held[e] :
       /\ pending' = [call |-> c, gated |-> held[e], approved |-> FALSE]
       /\ shown' = shown \cup {c}
  /\ Leave(e)
  /\ UNCHANGED << status, aborted, sent, ran, fresh, owner, gates, abort, faults, late >>

\* setPendingGate, after a replay or an iteration.
Gate(e) ==
  /\ pc[e] \in {"gate", "turn"} /\ gates.met < MaxGates
  /\ IF aborted THEN UNCHANGED << status, gates >>
     ELSE status' = "paused" /\ gates' = [met |-> gates.met + 1, open |-> TRUE]
  /\ Leave(e)
  /\ UNCHANGED << aborted, pending, sent, ran, fresh, owner, shown, abort, faults, late >>

\* selfDispatchContinuation.
Handoff(e) ==
  /\ pc[e] = "turn"
  /\ status' = "continuing" /\ sent' = sent + 1
  /\ Leave(e)
  /\ UNCHANGED << aborted, pending, ran, fresh, owner, shown, gates, abort, faults, late >>

Finish(e) ==
  /\ pc[e] = "turn"
  /\ status' \in {"completed", "failed"} /\ Leave(e)
  /\ UNCHANGED << aborted, pending, sent, ran, fresh, owner, shown, gates, abort, faults, late >>

\* A call of the executor fails, or the Lambda is killed.
Stops(e) ==
  /\ pc[e] # "idle" /\ Fault
  /\ status' \in {status, "failed"}
  /\ Leave(e)
  /\ UNCHANGED << aborted, pending, sent, ran, fresh, owner, shown, gates, abort, late >>
-----------------------------------------------------------------------------
(* The owner's responses (handlePermissionResponse, handleGateResponse).    *)

At(t, l) ==
  /\ pos' = [pos EXCEPT ![t] = l]
  /\ seen' = IF l = "idle" THEN [seen EXCEPT ![t] = NoPause] ELSE seen

Again(asked) ==
  IF asked THEN UNCHANGED retries ELSE retries < MaxRetries /\ retries' = retries + 1
Takes(t, c, l) ==
  /\ pos' = [pos EXCEPT ![t] = l] /\ seen' = [seen EXCEPT ![t] = pending]
  /\ Again(pending.call = c /\ ~pending.approved)
Ignores == UNCHANGED << pos, seen, retries >>

\* Recovery of an approval whose dispatch failed; ignored; or on to the mark.
Approve(t) ==
  /\ pos[t] = "idle"
  /\ \E c \in shown :
       /\ yes' = yes \cup {c}
       /\ IF status = "continuing" /\ pending.approved /\ pending.call = c
            THEN Takes(t, c, "reflip")
          ELSE IF status = "awaiting_permission" /\ pending.call \in {None, c}
            THEN Takes(t, c, "approve")
            ELSE Ignores
  /\ UNCHANGED << doc, executor, denied, shown, gates, abort, faults, late >>

\* The filter of approvePendingPermission and denyPendingPermission: a pause
\* that was absent when it was read is not filtered by its call.
Asks(t) ==
  /\ status = "awaiting_permission"
  /\ pending.call # None /\ ~pending.approved
  /\ seen[t].call \in {None, pending.call}

Mark(t) ==
  /\ pos[t] = "approve"
  /\ IF Asks(t)
       THEN /\ pending' = [pending EXCEPT !.approved = TRUE] /\ At(t, "flip")
            /\ Late(seen[t] = NoPause)
       ELSE At(t, "reread") /\ UNCHANGED << pending, late >>
  /\ UNCHANGED << status, aborted, executor, yes, denied, retries, shown, gates, abort, faults >>

Reread(t) ==
  /\ pos[t] = "reread"
  /\ IF /\ status \in {"awaiting_permission", "continuing"}
        /\ pending.approved /\ seen[t].call \in {None, pending.call}
       THEN At(t, "reflip") ELSE At(t, "idle")
  /\ UNCHANGED << doc, executor, yes, denied, retries, shown, gates, abort, faults, late >>

\* updateStatus asks nothing of the status it overwrites, nor whether the pause is
\* still the approved one the response is about.
StillApproved(t) == pending.approved /\ pending.call = seen[t].call
Flip(t) ==
  /\ pos[t] \in {"flip", "reflip", "goOn"}
  /\ status' = "continuing"
  /\ At(t, [flip |-> "send", reflip |-> "resend", goOn |-> "regate"][pos[t]])
  /\ Late(IF pos[t] = "goOn" THEN status # "paused"
          ELSE status \notin {"awaiting_permission", "continuing"} \/ ~StillApproved(t))
  /\ UNCHANGED << aborted, pending, executor, yes, denied, retries, shown, gates, abort, faults >>

Sending == {"send", "resend", "regate"}

Send(t) ==
  /\ pos[t] \in Sending
  /\ sent' = sent + 1 /\ At(t, "idle")
  /\ UNCHANGED << doc, pc, mem, held, ran, fresh, yes, denied, retries, shown, gates, abort, faults, late >>

\* The dispatch may have arrived.
SendFails(t) ==
  /\ pos[t] \in Sending /\ Fault
  /\ sent' \in {sent, sent + 1} /\ At(t, "idle")
  /\ UNCHANGED << doc, pc, mem, held, ran, fresh, yes, denied, retries, shown, gates, abort, late >>

\* It has not: restoreRejectedResume puts the pause back as it was read, if one
\* was, and the owner is asked again.
Rejected(t) ==
  /\ pos[t] \in Sending /\ Fault
  /\ At(t, "idle")
  /\ IF pos[t] # "resend" /\ status = "continuing" /\ ~aborted
       THEN IF pos[t] = "send"
              THEN /\ status' = "awaiting_permission"
                   /\ pending' = IF seen[t] = NoPause THEN pending ELSE seen[t]
                   /\ Late(~StillApproved(t)) /\ UNCHANGED gates
              ELSE /\ status' = "paused" /\ gates' = [gates EXCEPT !.open = TRUE]
                   /\ Late(pending # NoPause) /\ UNCHANGED pending
       ELSE UNCHANGED << status, pending, gates, late >>
  /\ UNCHANGED << aborted, executor, yes, denied, retries, shown, abort >>

Deny(t) ==
  /\ pos[t] = "idle"
  /\ \E c \in shown :
       IF status = "awaiting_permission" /\ pending.call \in {None, c}
         THEN Takes(t, c, "deny") ELSE Ignores
  /\ UNCHANGED << doc, executor, yes, denied, shown, gates, abort, faults, late >>

RefuseIt(t) ==
  /\ pos[t] = "deny" /\ At(t, "idle")
  /\ IF Asks(t)
       THEN /\ status' = "failed" /\ pending' = NoPause
            /\ denied' = denied \cup {pending.call}
       ELSE UNCHANGED << status, pending, denied >>
  /\ UNCHANGED << aborted, executor, yes, retries, shown, gates, abort, faults, late >>

\* A gate is answered: go on, or stop with the partial answer.
AnswerGate(t) ==
  /\ pos[t] = "idle" /\ status = "paused" /\ Again(gates.open)
  /\ gates' = [gates EXCEPT !.open = FALSE]
  /\ At(t, "ungate") \/ At(t, "unstop")
  /\ UNCHANGED << doc, executor, yes, denied, shown, abort, faults, late >>

\* clearPendingGate.
ClearGate(t) ==
  /\ pos[t] \in {"ungate", "unstop"}
  /\ At(t, IF aborted THEN "idle" ELSE IF pos[t] = "ungate" THEN "goOn" ELSE "stop")
  /\ UNCHANGED << doc, executor, yes, denied, retries, shown, gates, abort, faults, late >>

StopAtGate(t) ==
  /\ pos[t] = "stop"
  /\ status' = "completed" /\ At(t, "idle") /\ Late(status # "paused")
  /\ UNCHANGED << aborted, pending, executor, yes, denied, retries, shown, gates, abort, faults >>

\* The handler dies, or one of its reads and writes throws.
Dies(t) ==
  /\ pos[t] # "idle" /\ Fault /\ At(t, "idle")
  /\ UNCHANGED << doc, executor, yes, denied, retries, shown, gates, abort, late >>

-----------------------------------------------------------------------------
(* handleAbort, and the sweeps.                                             *)

AbortRead ==
  /\ CanAbort /\ abort = "ready"
  /\ abort' = IF status \in Parked THEN "flagAndMark" ELSE "flag"
  /\ UNCHANGED << doc, executor, owner, shown, gates, faults, late >>

AbortFlag ==
  /\ abort \in {"flag", "flagAndMark"}
  /\ aborted' = TRUE /\ abort' = IF abort = "flag" THEN "done" ELSE "mark"
  /\ UNCHANGED << status, pending, executor, owner, shown, gates, faults, late >>

AbortMark ==
  /\ abort = "mark"
  /\ status' = "aborted" /\ abort' = "done"
  /\ UNCHANGED << aborted, pending, executor, owner, shown, gates, faults, late >>

\* A run that has been silent too long, with nobody at work on it: aborted when
\* its owner starts another (cleanupStaleActive), or failed (markAbandoned).
\* Mutant: a run that waits for an answer may wait for ever.
SweepRunning ==
  /\ status \in {"continuing", "running"} /\ sent = 0
  /\ \A e \in Executors : pc[e] = "idle"
  /\ \A t \in Tabs : pos[t] = "idle"
  /\ \/ status' = "aborted" /\ aborted' = TRUE
     \/ status' = "failed" /\ UNCHANGED aborted
  /\ UNCHANGED << pending, executor, owner, shown, gates, abort, faults, late >>

Sweep ==
  /\ status \notin Terminal /\ sent = 0
  /\ \A e \in Executors : pc[e] = "idle"
  /\ \A t \in Tabs : pos[t] = "idle"
  /\ \/ status' = "aborted" /\ aborted' = TRUE
     \/ status' = "failed" /\ UNCHANGED aborted
  /\ UNCHANGED << pending, executor, owner, shown, gates, abort, faults, late >>

-----------------------------------------------------------------------------
Advance(e) ==
  \/ Load(e) \/ Claim(e) \/ Check(e) \/ Replay(e) \/ Clear(e) \/ Withhold(e)
  \/ Refuse(e) \/ Park(e) \/ Save(e) \/ Gate(e) \/ Handoff(e) \/ Finish(e)
Proceed(t) ==
  \/ Mark(t) \/ Reread(t) \/ Flip(t) \/ Send(t) \/ RefuseIt(t)
  \/ ClearGate(t) \/ StopAtGate(t)
Abort == AbortFlag \/ AbortMark

Next ==
  \/ \E e \in Executors : Advance(e) \/ ReplayFails(e) \/ Stops(e)
  \/ \E t \in Tabs : Proceed(t) \/ Approve(t) \/ Deny(t) \/ AnswerGate(t)
                       \/ SendFails(t) \/ Rejected(t) \/ Dies(t)
  \/ AbortRead \/ Abort \/ Sweep

Spec == Init /\ [][Next]_vars

\* Invocations and responses get on, and the sweeps come back; an owner may
\* never answer.
FairSpec ==
  /\ Spec
  /\ \A e \in Executors : WF_vars(Advance(e))
  /\ \A t \in Tabs : WF_vars(Proceed(t))
  /\ WF_vars(Abort) /\ WF_vars(Sweep)

-----------------------------------------------------------------------------
\* A withheld call is executed at most once.  A response that is sent again can
\* break it: the status flip asks nothing.
RunsOnce == \A c \in Calls : ran[c] <= 1

\* Only that way: however the answers, their repetitions, the replays, the
\* hand-offs and repeated deliveries meet, a call is executed twice only after a
\* flip, a claim or a restore that acted on what had moved on since it was read.
OnceUnlessLate == ~late => RunsOnce

\* Only a call the owner said yes to is executed: of a withheld batch each call
\* needs its own card.
OnlyApproved == ~late => \A c \in Calls : ran[c] > 0 => c \in yes

\* An accepted denial is the last word: no call is executed after it, and the
\* run stays over, whatever responses, deliveries and failures were under way.
DenialStops ==
  [][denied # {} /\ ~late' => ran' = ran /\ status' \in {"failed", "aborted"}]_vars

\* An abort ends the run for good, also one that parks, is resumed or is
\* answered while the abort command is under way.
AbortEnds == aborted ~> [](status \in Terminal)

\* An approval that was accepted is honoured: unless something fails, the run is
\* aborted or a late act got in between, the call is executed.
ApprovalHonoured ==
  \A c \in Calls :
    pending.approved /\ pending.call = c ~> ran[c] > 0 \/ aborted \/ faults > 0 \/ late
=============================================================================
