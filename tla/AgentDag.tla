------------------------------ MODULE AgentDag ------------------------------
(***************************************************************************)
(* The coordinate_task fan-out of an agent run: the parent's executor      *)
(* creates a child execution per node, dispatches the roots, and only at   *)
(* the end of its iteration persists the decomposition and starts to wait. *)
(* Each child ends in a handler of its own, which unblocks its siblings or *)
(* wakes the parent (onDagNodeTerminal) from what it reads of them.  All   *)
(* of it goes through one queue and status writes, some of them            *)
(* compare-and-swap and most of them not; the owner may abort the parent   *)
(* at any point.                                                           *)
(***************************************************************************)
EXTENDS Integers, FiniteSets

CONSTANTS
  Nodes,        \* the nodes of the decomposition, one child execution each
  Dags,         \* decompositions, [deps, isolate]: dependsOn, and the nodes with
                \* onFailure 'isolate'
  Leftover,     \* nodes named like completed ones of an earlier decomposition
  Workers,      \* concurrent handlers of child messages
  CanAbort,     \* whether the owner aborts
  None,
  MaxFaults     \* bound: failing calls, killed handlers, reaped executions, repeated
                \* deliveries of a continuation

ASSUME DagAssumption ==
  /\ \A g \in Dags : g.deps \in [Nodes -> SUBSET Nodes] /\ g.isolate \subseteq Nodes
  /\ None \notin Nodes
  /\ CanAbort \in BOOLEAN /\ MaxFaults \in Nat

VARIABLES
  dag,      \* the decomposition
  status,   \* of each child
  flag,     \* the children with abortedAt set
  msgs,     \* dispatch messages in the queue, per child
  at, on,   \* what each handler is doing, and for which child
  todo,     \* what its hook has still to do, [doomed, ready, wake]
  parent,   \* the parent's status
  pabort,   \* its abortedAt is set
  spec,     \* its dagSpec is set
  pc,       \* where its executor is
  pmsgs,    \* continuations of it in the queue
  abort,    \* where the abort command is, and what it has read
  early,    \* history: a child ended before the parent waited for it
  astray,   \* history: a continuation was delivered again, or a hook met a name of
            \* an earlier decomposition or was to sweep a node that may fail alone
  faults

children == << status, flag, msgs >>
handlers == << at, on, todo >>
run == << parent, pabort, spec, pc, pmsgs >>
history == << early, astray >>
vars == << dag, children, handlers, run, abort, history, faults >>

Terminal == {"completed", "failed", "aborted"}
Failures == {"failed", "aborted"}
NodeStatuses == {"absent", "pending", "running"} \cup Terminal
ParentStatuses == {"running", "continuing", "awaiting_dag_children"} \cup Terminal
Nothing == [doomed |-> {}, ready |-> {}, wake |-> FALSE]

TypeOK ==
  /\ dag \in Dags
  /\ status \in [Nodes -> NodeStatuses]
  /\ flag \subseteq Nodes
  /\ msgs \in [Nodes -> Nat]
  /\ at \in [Workers -> {"idle", "run", "hook", "tell"}]
  /\ on \in [Workers -> Nodes \cup {None}]
  /\ todo \in [Workers -> [doomed : SUBSET Nodes, ready : SUBSET Nodes, wake : BOOLEAN]]
  /\ parent \in ParentStatuses
  /\ pabort \in BOOLEAN /\ spec \in BOOLEAN /\ early \in BOOLEAN /\ astray \in BOOLEAN
  /\ pc \in {"iterate", "spec", "wait", "aggregate", "clear", "none"}
  /\ pmsgs \in Nat
  /\ abort \in [at : {"ready", "flag", "mark", "list", "nodes", "done"},
                waiting : BOOLEAN, spec : BOOLEAN,
                listed : SUBSET Nodes, left : SUBSET Nodes]
  /\ faults \in 0 .. MaxFaults

\* An earlier decomposition has left its dagSpec, and children of its own.
Init ==
  /\ dag \in Dags
  /\ status = [n \in Nodes |-> "absent"] /\ flag = {}
  /\ msgs = [n \in Nodes |-> 0]
  /\ at = [w \in Workers |-> "idle"] /\ on = [w \in Workers |-> None]
  /\ todo = [w \in Workers |-> Nothing]
  /\ parent = "running" /\ pabort = FALSE /\ spec = (Leftover # {})
  /\ pc = "iterate" /\ pmsgs = 0
  /\ abort = [at |-> "ready", waiting |-> FALSE, spec |-> FALSE, listed |-> {}, left |-> {}]
  /\ early = FALSE /\ astray = FALSE /\ faults = 0

Fault == faults < MaxFaults /\ faults' = faults + 1
Write(n, s) == status' = [status EXCEPT ![n] = s]
Roots == {n \in Nodes : dag.deps[n] = {}}

-----------------------------------------------------------------------------
(* The parent's executor (processExecution, coordinate_task).               *)

\* The children are created and the roots dispatched while the tool runs; a
\* send that fails ends the tool, and the iteration goes on without a signal.
FanOut ==
  /\ pc = "iterate" /\ \A n \in Nodes : status[n] = "absent"
  /\ status' = [n \in Nodes |-> "pending"]
  /\ \/ msgs' = [n \in Nodes |-> IF n \in Roots THEN 1 ELSE 0] /\ pc' = "spec" /\ UNCHANGED faults
     \/ /\ Fault /\ UNCHANGED pc
        /\ \E sent \in SUBSET Roots : msgs' = [n \in Nodes |-> IF n \in sent THEN 1 ELSE 0]
  /\ UNCHANGED << dag, flag, handlers, parent, pabort, spec, pmsgs, abort, history >>

\* setDagSpec, when the iteration has ended.
PersistSpec ==
  /\ pc = "spec"
  /\ pc' = "wait" /\ spec' = TRUE
  /\ UNCHANGED << dag, children, handlers, parent, pabort, pmsgs, abort, history, faults >>

\* Or the iteration ends otherwise: markFailed, for a tool call withheld in the same
\* turn or a call of coordinate_task that is not found again.
LoseSpec ==
  /\ pc = "spec"
  /\ pc' = "none" /\ parent' = "failed"
  /\ UNCHANGED << dag, children, handlers, pabort, spec, pmsgs, abort, history, faults >>

\* setWaitingOnDagChildren: whatever has become of the parent meanwhile.
Wait ==
  /\ pc = "wait"
  /\ pc' = "none" /\ parent' = "awaiting_dag_children"
  /\ UNCHANGED << dag, children, handlers, pabort, spec, pmsgs, abort, history, faults >>

\* selfDispatchContinuation, near the end of the Lambda's time, before an iteration
\* or in the middle of one.
Handoff ==
  /\ pc \in {"iterate", "spec"}
  /\ pc' = "none" /\ parent' = "continuing" /\ pmsgs' = pmsgs + 1
  /\ UNCHANGED << dag, children, handlers, pabort, spec, abort, history, faults >>

\* The run ends; an abort is seen at the top of an iteration or not at all.
Finish ==
  /\ pc = "iterate"
  /\ parent' \in {"completed", "failed"} \cup IF pabort THEN {"aborted"} ELSE {}
  /\ pc' = "none"
  /\ UNCHANGED << dag, children, handlers, pabort, spec, pmsgs, abort, history, faults >>

\* A continuation is delivered: the status read says which one the claim expects.
Continue ==
  /\ pmsgs > 0
  /\ \/ pmsgs' = pmsgs - 1 /\ UNCHANGED << astray, faults >>
     \/ Fault /\ astray' = TRUE /\ UNCHANGED pmsgs
  /\ IF pabort THEN parent' = "aborted" /\ UNCHANGED pc
     ELSE IF parent \in {"continuing", "awaiting_dag_children"}
       THEN /\ parent' = "running"
            /\ pc' = IF parent = "continuing" THEN "iterate" ELSE "aggregate"
       ELSE UNCHANGED << parent, pc >>
  /\ UNCHANGED << dag, children, handlers, pabort, spec, abort, early >>

\* Reads the children and puts their report in place of the placeholder.
Aggregate ==
  /\ pc = "aggregate"
  /\ \/ pc' = "clear" /\ UNCHANGED parent
     \/ pc' = "none" /\ parent' = "failed"
  /\ UNCHANGED << dag, children, handlers, pabort, spec, pmsgs, abort, history, faults >>

\* clearWaitingOnDagChildren; bailing out leaves the status as it is.
\* Mutant: whether the parent was aborted is not asked.
ClearUnguarded ==
  /\ pc = "clear"
  /\ pc' = "iterate" /\ parent' = "running"
  /\ UNCHANGED << dag, children, handlers, pabort, spec, pmsgs, abort, history, faults >>

Clear ==
  /\ pc = "clear"
  /\ IF pabort THEN pc' = "none" /\ UNCHANGED parent
               ELSE pc' = "iterate" /\ parent' = "running"
  /\ UNCHANGED << dag, children, handlers, pabort, spec, pmsgs, abort, history, faults >>

\* A call of the executor fails, or the Lambda is killed.
ParentStops ==
  /\ pc # "none" /\ Fault
  /\ pc' = "none" /\ parent' \in {parent, "failed"}
  /\ UNCHANGED << dag, children, handlers, pabort, spec, pmsgs, abort, history >>

\* Mutant: the operator's sweep writes its reason for a status.
ReapParentAbandons ==
  /\ pc = "none" /\ parent = "running"
  /\ parent' \in {"abandoned", "aborted"} /\ pabort' = (pabort \/ parent' = "aborted")
  /\ UNCHANGED << dag, children, handlers, spec, pc, pmsgs, abort, history, faults >>

\* The sweeps take a silent parent, but not one that waits for its children.
ReapParent ==
  /\ pc = "none" /\ parent = "running"
  /\ parent' \in Failures /\ pabort' = (pabort \/ parent' = "aborted")
  /\ UNCHANGED << dag, children, handlers, spec, pc, pmsgs, abort, history, faults >>

-----------------------------------------------------------------------------
(* A child's handler (processSubagentDispatch).                             *)

Busy(w, n, l) == at' = [at EXCEPT ![w] = l] /\ on' = [on EXCEPT ![w] = n]

\* Mutant: every delivery runs the child.
TakeUnclaimed(w, n) ==
  /\ at[w] = "idle" /\ msgs[n] > 0
  /\ msgs' = [msgs EXCEPT ![n] = @ - 1]
  /\ IF n \in flag
       THEN Write(n, "aborted") /\ Busy(w, n, "hook")
       ELSE Write(n, "running") /\ Busy(w, n, "run")
  /\ UNCHANGED << dag, flag, todo, run, abort, history, faults >>

\* A message is delivered.  The abort flag is read before the claim; an abort
\* between the two is as one after the claim, which does not look at the flag.
\* Mutant: a child aborted before its start ends without its hook.
TakeSilently(w, n) ==
  /\ at[w] = "idle" /\ msgs[n] > 0
  /\ msgs' = [msgs EXCEPT ![n] = @ - 1]
  /\ IF n \in flag THEN Write(n, "aborted") /\ UNCHANGED << at, on >>
     ELSE IF status[n] = "pending"
       THEN Write(n, "running") /\ Busy(w, n, "run")
       ELSE UNCHANGED << status, at, on >>
  /\ UNCHANGED << dag, flag, todo, run, abort, history, faults >>

Take(w, n) ==
  /\ at[w] = "idle" /\ msgs[n] > 0
  /\ msgs' = [msgs EXCEPT ![n] = @ - 1]
  /\ IF n \in flag
       THEN Write(n, "aborted") /\ Busy(w, n, "hook")
     ELSE IF status[n] = "pending"
       THEN Write(n, "running") /\ Busy(w, n, "run")
       ELSE UNCHANGED << status, at, on >>
  /\ UNCHANGED << dag, flag, todo, run, abort, history, faults >>

\* The run ends, whatever has been written over its status: an answer, an
\* error or a refusal, or the abort its poller saw.
End(w) ==
  /\ at[w] = "run"
  /\ \E s \in {"completed", "failed"} \cup IF on[w] \in flag THEN {"aborted"} ELSE {} :
       Write(on[w], s)
  /\ at' = [at EXCEPT ![w] = "hook"]
  /\ UNCHANGED << dag, flag, msgs, on, todo, run, abort, history, faults >>

-----------------------------------------------------------------------------
(* onDagNodeTerminal.                                                       *)

\* The buckets are sets of names, over the children of every decomposition.
completedIds == {n \in Nodes : status[n] = "completed"} \cup Leftover
isolatedFailedIds == {n \in dag.isolate : status[n] \in Failures}
cascadeFailedIds == {n \in Nodes \ dag.isolate : status[n] \in Failures}
pendingIds == {n \in Nodes : status[n] = "pending"}
anyRunning == \E n \in Nodes : status[n] = "running"

\* findCascadeDoomed, repeated until it finds nothing: the least set that is
\* closed under it.
Closed(D) == \A n \in pendingIds : dag.deps[n] \cap (cascadeFailedIds \cup D) # {} => n \in D
Doomed == {n \in pendingIds : \A D \in SUBSET pendingIds : Closed(D) => n \in D}

\* findReadyTasks, over what the sweep leaves pending.
\* Mutant: one dependency that is done is enough.
ReadyAnyDone ==
  {n \in pendingIds \ Doomed : dag.deps[n] \cap (completedIds \cup isolatedFailedIds) # {}}
Ready ==
  {n \in pendingIds \ Doomed : dag.deps[n] \subseteq completedIds \cup isolatedFailedIds}

\* Mutant: a node the sweep has just failed still counts as pending.
AllEndedForgetsSweep == pendingIds = {} /\ ~anyRunning /\ Ready = {}
AllEnded == pendingIds = Doomed /\ ~anyRunning /\ Ready = {}

\* What the hook does next, and when it is done.
Do(w, t) ==
  /\ todo' = [todo EXCEPT ![w] = t]
  /\ IF t = Nothing THEN Busy(w, None, "idle") ELSE Busy(w, on[w], "tell")

\* Without a dagSpec to read there is nothing to do.
Hook(w) ==
  /\ at[w] = "hook"
  /\ Do(w, IF spec THEN [doomed |-> Doomed, ready |-> Ready, wake |-> AllEnded] ELSE Nothing)
  /\ early' = (early \/ pc \in {"spec", "wait"})
  /\ astray' = (astray \/ (spec /\ (Leftover # {} \/ Doomed \cap dag.isolate # {})))
  /\ UNCHANGED << dag, children, run, abort, faults >>

\* The child a name stands for is the first one found: the oldest.
Own(n) == n \notin Leftover

\* markFailed on each doomed child, unguarded.
Sweep(w) ==
  /\ at[w] = "tell"
  /\ \E n \in todo[w].doomed :
       /\ status' = IF Own(n) THEN [status EXCEPT ![n] = "failed"] ELSE status
       /\ Do(w, [todo[w] EXCEPT !.doomed = @ \ {n}])
  /\ UNCHANGED << dag, flag, msgs, run, abort, history, faults >>

Dispatch(w) ==
  /\ at[w] = "tell" /\ todo[w].doomed = {}
  /\ \E n \in todo[w].ready :
       /\ msgs' = IF Own(n) THEN [msgs EXCEPT ![n] = @ + 1] ELSE msgs
       /\ Do(w, [todo[w] EXCEPT !.ready = @ \ {n}])
  /\ UNCHANGED << dag, status, flag, run, abort, history, faults >>

Wake(w) ==
  /\ at[w] = "tell" /\ todo[w].doomed = {} /\ todo[w].wake
  /\ pmsgs' = pmsgs + 1
  /\ Do(w, Nothing)
  /\ UNCHANGED << dag, children, parent, pabort, spec, pc, abort, history, faults >>

\* A call of the hook fails: the parent is marked failed instead
\* (fireDagNodeTerminalOnRefusal).
HookFails(w) ==
  /\ at[w] \in {"hook", "tell"} /\ Fault
  /\ parent' = "failed"
  /\ Do(w, Nothing)
  /\ UNCHANGED << dag, children, pabort, spec, pc, pmsgs, abort, history >>

\* The handler is killed and its message comes back.
Kill(w) ==
  /\ at[w] # "idle" /\ Fault
  /\ Do(w, Nothing)
  /\ msgs' = [msgs EXCEPT ![on[w]] = @ + 1]
  /\ UNCHANGED << dag, status, flag, run, abort, history >>

\* cleanupStaleActive, on a child whose record has not changed for 20 minutes:
\* one whose handler is gone, or one that still waits for its dependencies.
ReapChild(n) ==
  /\ \/ status[n] = "pending"
     \/ status[n] = "running" /\ \A w \in Workers : ~(at[w] = "run" /\ on[w] = n)
  /\ Fault
  /\ Write(n, "aborted") /\ flag' = flag \cup {n}
  /\ UNCHANGED << dag, msgs, handlers, run, abort, history >>

-----------------------------------------------------------------------------
(* handleAbort: the parent first, then what was read of it decides.         *)

AbortRead ==
  /\ abort.at = "ready" /\ CanAbort
  /\ abort' = [abort EXCEPT !.at = "flag", !.spec = spec,
                            !.waiting = (parent = "awaiting_dag_children")]
  /\ UNCHANGED << dag, children, handlers, run, history, faults >>

AbortFlag ==
  /\ abort.at = "flag"
  /\ pabort' = TRUE
  /\ abort' = [abort EXCEPT !.at = IF abort.waiting THEN "mark" ELSE "list", !.waiting = FALSE]
  /\ UNCHANGED << dag, children, handlers, parent, spec, pc, pmsgs, history, faults >>

AbortMark ==
  /\ abort.at = "mark"
  /\ parent' = "aborted"
  /\ abort' = [abort EXCEPT !.at = "list"]
  /\ UNCHANGED << dag, children, handlers, pabort, spec, pc, pmsgs, history, faults >>

AbortList ==
  /\ abort.at = "list"
  /\ abort' = IF abort.spec
       THEN [abort EXCEPT !.at = "nodes", !.spec = FALSE, !.listed = pendingIds,
                          !.left = {n \in Nodes : status[n] # "absent"}]
       ELSE [abort EXCEPT !.at = "done"]
  /\ UNCHANGED << dag, children, handlers, run, history, faults >>

\* A child that was listed as pending is marked, whatever it is by now.
AbortNode ==
  /\ abort.at = "nodes"
  /\ \E n \in abort.left :
       /\ flag' = flag \cup {n}
       /\ status' = IF n \in abort.listed THEN [status EXCEPT ![n] = "aborted"] ELSE status
       /\ abort' = [abort EXCEPT !.left = @ \ {n}, !.listed = @ \ {n},
                                 !.at = IF abort.left = {n} THEN "done" ELSE "nodes"]
  /\ UNCHANGED << dag, msgs, handlers, run, history, faults >>

-----------------------------------------------------------------------------
Parent == PersistSpec \/ LoseSpec \/ Wait \/ Finish \/ Continue \/ Aggregate \/ Clear \/ ReapParent
Deliver(w) == \E n \in Nodes : Take(w, n)
Handler(w) == Deliver(w) \/ End(w) \/ Hook(w) \/ Sweep(w) \/ Dispatch(w) \/ Wake(w)
Abort == AbortRead \/ AbortFlag \/ AbortMark \/ AbortList \/ AbortNode
Breaks == ParentStops \/ \E n \in Nodes : ReapChild(n)

Next ==
  \/ FanOut \/ Handoff \/ Parent \/ Abort \/ Breaks
  \/ \E w \in Workers : Handler(w) \/ HookFails(w) \/ Kill(w)

Spec == Init /\ [][Next]_vars

\* Executors and handlers run on, their messages are delivered, an abort command
\* that has started goes through, and the hourly sweep comes round.
FairSpec ==
  /\ Spec
  /\ WF_vars(PersistSpec) /\ WF_vars(Wait) /\ WF_vars(Finish) /\ WF_vars(Continue)
  /\ WF_vars(Aggregate) /\ WF_vars(Clear) /\ WF_vars(ReapParent)
  /\ \A w \in Workers : WF_vars(Handler(w))
  /\ WF_vars(abort.at # "ready" /\ Abort)

-----------------------------------------------------------------------------
\* One executor runs a child: a duplicate dispatch, by two siblings that end
\* together or by a redelivery, is lost in the claim (agentExecutorDag.ts:157-160).
OneRunner ==
  \A v, w \in Workers : at[v] = "run" /\ at[w] = "run" /\ on[v] = on[w] => v = w

\* An aborted parent is not brought back by the wake of its children
\* (clearWaitingOnDagChildren, AgentExecutionModel.ts:2050-2054).
AbortedNotResumed == [][parent = "aborted" => parent' # "running"]_vars

\* Until it is aborted the fan-out keeps its promise: children start after what
\* they depend on, end for good, and are all over before they are gathered.  What
\* is delivered again, the sweep of a node that may fail alone, and names of an
\* earlier decomposition can break it, and nothing else does.
Node(s) ==
  CASE s \in {"absent", "pending"} -> "waiting"
    [] s = "running" -> "started"
    [] s = "completed" -> "ok"
    [] OTHER -> "bad"
Promise == INSTANCE ForkJoin WITH
  node <- [n \in Nodes |-> Node(status[n])], joining <- (pc = "clear"), stopped <- (pabort \/ astray)
KeepsPromise == Promise!Spec

\* A parent that waits is woken, when every hook found it waiting and nothing
\* broke: the last child to end starts it again, whatever failed or was swept.
Orderly == ~early /\ faults = 0
Wakes == []Orderly => (parent = "awaiting_dag_children" ~> parent # "awaiting_dag_children")

\* An accepted abort ends the parent, wherever it was met.
AbortEnds == []Orderly => (pabort ~> parent \in Terminal)

\* What the executor relies on: a parent that waits for its children is woken,
\* since no sweep ever looks at it (agentExecutorDag.ts:165-167, 241-243).
AlwaysWoken == parent = "awaiting_dag_children" ~> parent # "awaiting_dag_children"
=============================================================================
