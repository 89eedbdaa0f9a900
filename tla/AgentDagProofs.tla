--------------------------- MODULE AgentDagProofs ---------------------------
(***************************************************************************)
(* Proofs about AgentDag, for any decompositions, handlers and faults.     *)
(*                                                                         *)
(* Until the parent is aborted or the run has gone astray the children     *)
(* only move forwards, so what a hook read of them stays true enough: a    *)
(* node is dispatched after what it depends on for good, and one that is   *)
(* to be swept depends on a node that will never let it start (Kids).  A   *)
(* continuation is then either the one hand-off of a parent that does not  *)
(* wait, or comes when all has ended (Whole).                              *)
(***************************************************************************)
EXTENDS AgentDag, TLAPS

Over(n) == status[n] \in Terminal
AllOver == \A n \in Nodes : Over(n)
Satisfies(d) == status[d] = "completed" \/ (status[d] \in Failures /\ d \in dag.isolate)
MayStart(n) == \A d \in dag.deps[n] : Satisfies(d)

\* A node that w is to sweep waits for one that has failed or will be swept.
HasCause(w, n) ==
  \E d \in dag.deps[n] \ dag.isolate : status[d] \in Failures \/ d \in todo[w].doomed

Kids ==
  /\ \A m, n \in Nodes : status[m] = "absent" => status[n] = "absent"
  /\ \A n \in flag : status[n] \in Failures
  /\ \A n \in Nodes : msgs[n] > 0 /\ status[n] \in {"absent", "pending"} => MayStart(n)

Hands(w) ==
  /\ at[w] # "idle" => on[w] \in Nodes
  /\ at[w] = "run" => status[on[w]] = "running"
  /\ at[w] \in {"hook", "tell"} => Over(on[w])
  /\ \A n \in todo[w].ready : MayStart(n)
  /\ \A n \in todo[w].doomed : status[n] \in {"pending"} \cup Failures /\ HasCause(w, n)
  /\ todo[w].wake => \A n \in Nodes : Over(n) \/ n \in todo[w].doomed
  /\ Leftover # {} => todo[w].doomed = {} /\ todo[w].ready = {}

Whole ==
  /\ pmsgs > 0 => AllOver \/ (pmsgs = 1 /\ pc = "none" /\ parent \in {"continuing"} \cup Terminal)
  /\ parent \in {"continuing", "awaiting_dag_children"} => pc = "none"
  /\ pc \in {"aggregate", "clear"} => AllOver

-----------------------------------------------------------------------------
(* Type correctness.                                                        *)

LEMMA DagType ==
  ASSUME dag \in Dags
  PROVE  dag.deps \in [Nodes -> SUBSET Nodes] /\ dag.isolate \subseteq Nodes
  BY DagAssumption

LEMMA ReadType ==
  /\ Doomed \subseteq Nodes /\ Ready \subseteq Nodes
  /\ AllEnded \in BOOLEAN
  /\ pendingIds = {n \in Nodes : status[n] = "pending"}
  BY DEF Doomed, Ready, AllEnded, pendingIds

LEMMA Bounds == MaxFaults \in Nat
  BY DagAssumption

LEMMA FaultType == TypeOK /\ Fault => faults' \in 0 .. MaxFaults
  BY Bounds DEF TypeOK, Fault

LEMMA InitType == Init => TypeOK
  <1> SUFFICES ASSUME Init PROVE TypeOK
    OBVIOUS
  <1>1. abort \in [at : {"ready", "flag", "mark", "list", "nodes", "done"},
                  waiting : BOOLEAN, spec : BOOLEAN,
                  listed : SUBSET Nodes, left : SUBSET Nodes]
    BY DEF Init
  <1>2. todo \in [Workers -> [doomed : SUBSET Nodes, ready : SUBSET Nodes, wake : BOOLEAN]]
    BY DEF Init, Nothing
  <1>3. faults \in 0 .. MaxFaults
    BY Bounds DEF Init
  <1> QED BY <1>1, <1>2, <1>3 DEF Init, TypeOK, NodeStatuses, ParentStatuses, Terminal

LEMMA ParentType ==
  ASSUME TypeOK, \/ FanOut \/ PersistSpec \/ LoseSpec \/ Wait \/ Handoff \/ Finish \/ Continue \/ Aggregate
                 \/ Clear \/ ParentStops \/ ReapParent
  PROVE  TypeOK'
  <1>. USE DEF TypeOK, NodeStatuses, ParentStatuses, Terminal, Failures, children, handlers, run, history
  <1>1. CASE FanOut
    BY <1>1, FaultType DEF FanOut
  <1>2. CASE PersistSpec \/ LoseSpec \/ Wait
    BY <1>2 DEF PersistSpec, LoseSpec, Wait
  <1>6. CASE Aggregate \/ Clear
    BY <1>6 DEF Aggregate, Clear
  <1>3. CASE Handoff \/ Finish
    BY <1>3 DEF Handoff, Finish
  <1>4. CASE Continue
    <2>1. astray' \in BOOLEAN /\ faults' \in 0 .. MaxFaults /\ pmsgs' \in Nat
      <3>1. CASE pmsgs' = pmsgs - 1 /\ UNCHANGED << astray, faults >>
        BY <1>4, <3>1 DEF Continue
      <3>2. CASE Fault /\ astray' = TRUE /\ UNCHANGED pmsgs
        BY <3>2, FaultType
      <3> QED BY <1>4, <3>1, <3>2 DEF Continue
    <2>2. parent' \in ParentStatuses /\ pc' \in {pc, "iterate", "aggregate"}
      BY <1>4 DEF Continue
    <2>3. UNCHANGED << dag, children, handlers, pabort, spec, abort, early >>
      BY <1>4 DEF Continue
    <2> QED BY <2>1, <2>2, <2>3
  <1>5. CASE ParentStops
    BY <1>5, FaultType DEF ParentStops
  <1>7. CASE ReapParent
    BY <1>7 DEF ReapParent
  <1> QED BY <1>1, <1>2, <1>3, <1>4, <1>5, <1>6, <1>7

Todos == [doomed : SUBSET Nodes, ready : SUBSET Nodes, wake : BOOLEAN]

LEMMA DoType ==
  ASSUME TypeOK, NEW w \in Workers, NEW t \in Todos, Do(w, t)
  PROVE  /\ at' \in [Workers -> {"idle", "run", "hook", "tell"}]
         /\ on' \in [Workers -> Nodes \cup {None}]
         /\ todo' \in [Workers -> Todos]
  BY DEF TypeOK, Do, Busy, Todos

LEMMA HandlerType ==
  ASSUME TypeOK, NEW w \in Workers, Handler(w) \/ HookFails(w) \/ Kill(w)
  PROVE  TypeOK'
  <1>. USE DEF NodeStatuses, Terminal, Failures, children, handlers, run, history
  <1>0. Nothing \in Todos /\ todo[w] \in Todos
    BY DEF Nothing, Todos, TypeOK
  <1>1. ASSUME NEW n \in Nodes, Take(w, n) PROVE TypeOK'
    <2>1. status' \in [Nodes -> NodeStatuses] /\ msgs' \in [Nodes -> Nat]
      <3>1. status \in [Nodes -> NodeStatuses] /\ msgs \in [Nodes -> Nat]
        BY DEF TypeOK
      <3>2. status' \in [Nodes -> NodeStatuses]
        BY <1>1, <3>1 DEF Take, Write
      <3>3. msgs' = [msgs EXCEPT ![n] = msgs[n] - 1] /\ msgs[n] > 0
        BY <1>1 DEF Take
      <3> QED BY <3>1, <3>2, <3>3
    <2>2. /\ at' \in [Workers -> {"idle", "run", "hook", "tell"}]
          /\ on' \in [Workers -> Nodes \cup {None}]
      <3>1. /\ at \in [Workers -> {"idle", "run", "hook", "tell"}]
            /\ on \in [Workers -> Nodes \cup {None}]
        BY DEF TypeOK
      <3>2. UNCHANGED << at, on >> \/ \E l \in {"run", "hook"} : Busy(w, n, l)
        BY <1>1 DEF Take
      <3> QED BY <3>1, <3>2 DEF Busy
    <2>3. UNCHANGED << dag, flag, todo, run, abort, history, faults >>
      BY <1>1 DEF Take
    <2> QED BY <2>1, <2>2, <2>3 DEF TypeOK
  <1>2. CASE End(w)
    <2>1. PICK s \in Terminal : status' = [status EXCEPT ![on[w]] = s]
      BY <1>2 DEF End, Write
    <2>2. status' \in [Nodes -> NodeStatuses]
      BY <2>1 DEF TypeOK
    <2>3. at' \in [Workers -> {"idle", "run", "hook", "tell"}]
      BY <1>2 DEF End, TypeOK
    <2> QED BY <1>2, <2>2, <2>3 DEF TypeOK, End
  <1>3. CASE Hook(w)
    <2>1. PICK t \in Todos : Do(w, t)
      BY <1>0, <1>3, ReadType DEF Hook, Todos
    <2> QED BY <1>3, <2>1, DoType DEF TypeOK, Hook, Todos
  <1>4. CASE Sweep(w)
    <2>1. PICK n \in Nodes : /\ status' = (IF Own(n) THEN [status EXCEPT ![n] = "failed"] ELSE status)
                             /\ Do(w, [todo[w] EXCEPT !.doomed = @ \ {n}])
      BY <1>0, <1>4 DEF Sweep, Todos
    <2>2. [todo[w] EXCEPT !.doomed = @ \ {n}] \in Todos
      BY <1>0 DEF Todos
    <2> QED BY <1>4, <2>1, <2>2, DoType DEF TypeOK, Sweep, Todos
  <1>5. CASE Dispatch(w)
    <2>1. PICK n \in Nodes : /\ msgs' = (IF Own(n) THEN [msgs EXCEPT ![n] = @ + 1] ELSE msgs)
                             /\ Do(w, [todo[w] EXCEPT !.ready = @ \ {n}])
      BY <1>0, <1>5 DEF Dispatch, Todos
    <2>2. [todo[w] EXCEPT !.ready = @ \ {n}] \in Todos
      BY <1>0 DEF Todos
    <2> QED BY <1>5, <2>1, <2>2, DoType DEF TypeOK, Dispatch, Todos
  <1>6. CASE Wake(w)
    BY <1>0, <1>6, DoType DEF TypeOK, Wake, Todos
  <1>7. CASE HookFails(w)
    BY <1>0, <1>7, DoType, FaultType DEF TypeOK, HookFails, Todos, ParentStatuses
  <1>8. CASE Kill(w)
    <2>1. msgs' \in [Nodes -> Nat]
      <3>1. msgs \in [Nodes -> Nat] /\ msgs' = [msgs EXCEPT ![on[w]] = msgs[on[w]] + 1]
        BY <1>8 DEF TypeOK, Kill
      <3>2. on[w] \in Nodes => msgs[on[w]] + 1 \in Nat
        BY <3>1
      <3> QED BY <3>1, <3>2
    <2>2. Do(w, Nothing) /\ faults' \in 0 .. MaxFaults
      BY <1>8, FaultType DEF Kill
    <2>3. /\ at' \in [Workers -> {"idle", "run", "hook", "tell"}]
          /\ on' \in [Workers -> Nodes \cup {None}]
          /\ todo' \in [Workers -> Todos]
      BY <1>0, <2>2, DoType
    <2>4. UNCHANGED << dag, status, flag, parent, pabort, spec, pc, pmsgs, abort, history >>
      BY <1>8 DEF Kill
    <2> QED BY <2>1, <2>2, <2>3, <2>4 DEF TypeOK, Todos
  <1> QED BY <1>1, <1>2, <1>3, <1>4, <1>5, <1>6, <1>7, <1>8 DEF Handler, Deliver

Aborts == [at : {"ready", "flag", "mark", "list", "nodes", "done"},
           waiting : BOOLEAN, spec : BOOLEAN, listed : SUBSET Nodes, left : SUBSET Nodes]

LEMMA AbortType ==
  ASSUME TypeOK, Abort
  PROVE  TypeOK'
  <1>0. abort \in Aborts /\ spec \in BOOLEAN /\ (parent = "awaiting_dag_children") \in BOOLEAN
    BY DEF TypeOK, Aborts
  <1>1. CASE AbortRead
    <2>1. abort' \in Aborts
      BY <1>0, <1>1 DEF AbortRead, Aborts
    <2>2. UNCHANGED << dag, children, handlers, run, history, faults >>
      BY <1>1 DEF AbortRead
    <2> QED BY <2>1, <2>2 DEF TypeOK, Aborts, children, handlers, run, history
  <1>2. CASE AbortFlag
    <2>1. abort' \in Aborts /\ pabort' \in BOOLEAN
      BY <1>0, <1>2 DEF AbortFlag, Aborts
    <2>2. UNCHANGED << dag, children, handlers, parent, spec, pc, pmsgs, history, faults >>
      BY <1>2 DEF AbortFlag
    <2> QED BY <2>1, <2>2 DEF TypeOK, Aborts, children, handlers, history
  <1>3. CASE AbortMark
    <2>1. abort' \in Aborts /\ parent' \in ParentStatuses
      BY <1>0, <1>3 DEF AbortMark, Aborts, ParentStatuses, Terminal
    <2>2. UNCHANGED << dag, children, handlers, pabort, spec, pc, pmsgs, history, faults >>
      BY <1>3 DEF AbortMark
    <2> QED BY <2>1, <2>2 DEF TypeOK, Aborts, children, handlers, history
  <1>4. CASE AbortList
    <2>1. abort' \in Aborts
      <3>1. pendingIds \in SUBSET Nodes /\ {n \in Nodes : status[n] # "absent"} \in SUBSET Nodes
        BY ReadType
      <3> QED BY <1>0, <1>4, <3>1 DEF AbortList, Aborts
    <2>2. UNCHANGED << dag, children, handlers, run, history, faults >>
      BY <1>4 DEF AbortList
    <2> QED BY <2>1, <2>2 DEF TypeOK, Aborts, children, handlers, run, history
  <1>5. CASE AbortNode
    <2>1. PICK n \in abort.left :
            /\ flag' = flag \cup {n}
            /\ status' = IF n \in abort.listed THEN [status EXCEPT ![n] = "aborted"] ELSE status
            /\ abort' = [abort EXCEPT !.left = @ \ {n}, !.listed = @ \ {n},
                                      !.at = IF abort.left = {n} THEN "done" ELSE "nodes"]
      BY <1>5 DEF AbortNode
    <2>2. n \in Nodes /\ abort' \in Aborts
      BY <1>0, <2>1 DEF Aborts
    <2>3. flag' \subseteq Nodes /\ status' \in [Nodes -> NodeStatuses]
      BY <2>1, <2>2 DEF TypeOK, NodeStatuses, Terminal
    <2>4. UNCHANGED << dag, msgs, handlers, run, history, faults >>
      BY <1>5 DEF AbortNode
    <2> QED BY <2>2, <2>3, <2>4 DEF TypeOK, Aborts, handlers, run, history
  <1> QED BY <1>1, <1>2, <1>3, <1>4, <1>5 DEF Abort

LEMMA NextType == TypeOK /\ [Next]_vars => TypeOK'
  <1> SUFFICES ASSUME TypeOK, [Next]_vars PROVE TypeOK'
    OBVIOUS
  <1>1. ASSUME NEW n \in Nodes, ReapChild(n) PROVE TypeOK'
    BY <1>1, FaultType DEF TypeOK, ReapChild, Write, NodeStatuses, Terminal, handlers, run, history
  <1>2. CASE UNCHANGED vars
    BY <1>2 DEF TypeOK, vars, children, handlers, run, history
  <1> QED BY <1>1, <1>2, ParentType, HandlerType, AbortType DEF Next, Parent, Breaks

\* Every reachable state is well typed: what a hook has still to do is always
\* made of nodes, and the abort command is where its record says.
THEOREM TypeCorrect == Spec => []TypeOK
  BY InitType, NextType, PTL DEF Spec

-----------------------------------------------------------------------------
(* A child is run by one handler, and an abort is kept.                     *)

\* What is run has been claimed, and nothing makes it claimable again.
Claimed == \A w \in Workers :
  at[w] = "run" => on[w] \in Nodes /\ status[on[w]] \notin {"absent", "pending"}

\* Handlers that may move, without claiming a child.
LEMMA NoClaim ==
  ASSUME TypeOK, Claimed, OneRunner,
         \A w \in Workers : at'[w] = "run" => at[w] = "run" /\ on'[w] = on[w],
         \A n \in Nodes : status'[n] \in {"absent", "pending"} => status[n] \in {"absent", "pending"}
  PROVE  Claimed' /\ OneRunner'
  BY DEF Claimed, OneRunner

LEMMA NextClaims == TypeOK /\ Claimed /\ OneRunner /\ [Next]_vars => Claimed' /\ OneRunner'
  <1> SUFFICES ASSUME TypeOK, Claimed, OneRunner, [Next]_vars PROVE Claimed' /\ OneRunner'
    OBVIOUS
  <1>1. CASE FanOut
    BY <1>1, NoClaim DEF FanOut, handlers
  <1>2. CASE \/ PersistSpec \/ LoseSpec \/ Wait \/ Handoff \/ Finish \/ Continue \/ Aggregate
             \/ Clear \/ ParentStops \/ ReapParent
    BY <1>2, NoClaim DEF PersistSpec, LoseSpec, Wait, Handoff, Finish, Continue, Aggregate, Clear,
       ParentStops, ReapParent, children, handlers
  <1>3. ASSUME NEW w \in Workers, NEW n \in Nodes, Take(w, n) PROVE Claimed' /\ OneRunner'
    <2>1. CASE n \notin flag /\ status[n] = "pending"
      <3>1. /\ status' = [status EXCEPT ![n] = "running"]
            /\ at' = [at EXCEPT ![w] = "run"] /\ on' = [on EXCEPT ![w] = n]
        BY <1>3, <2>1 DEF Take, Write, Busy
      <3>2. \A v \in Workers : at[v] = "run" => on[v] # n
        BY <2>1 DEF Claimed
      <3> QED BY <3>1, <3>2 DEF TypeOK, Claimed, OneRunner
    <2>2. CASE n \in flag
      <3>1. /\ status' = [status EXCEPT ![n] = "aborted"]
            /\ at' = [at EXCEPT ![w] = "hook"] /\ on' = [on EXCEPT ![w] = n]
        BY <1>3, <2>2 DEF Take, Write, Busy
      <3> QED BY <3>1, NoClaim DEF TypeOK
    <2>3. CASE n \notin flag /\ status[n] # "pending"
      BY <1>3, <2>3, NoClaim DEF Take
    <2> QED BY <2>1, <2>2, <2>3
  <1>4. ASSUME NEW w \in Workers, End(w) PROVE Claimed' /\ OneRunner'
    <2>1. PICK s \in Terminal : status' = [status EXCEPT ![on[w]] = s]
      BY <1>4 DEF End, Write, Terminal
    <2>2. at' = [at EXCEPT ![w] = "hook"] /\ on' = on
      BY <1>4 DEF End
    <2> QED BY <2>1, <2>2, NoClaim DEF TypeOK, Terminal
  <1>5. ASSUME NEW w \in Workers, NEW t, Do(w, t),
               \A n \in Nodes : status'[n] \in {status[n], "failed"}
        PROVE  Claimed' /\ OneRunner'
    <2>1. \A v \in Workers : at'[v] = "run" => v # w /\ at[v] = "run" /\ on'[v] = on[v]
      BY <1>5 DEF Do, Busy, TypeOK
    <2> QED BY <1>5, <2>1, NoClaim
  <1>6. ASSUME NEW w \in Workers, Hook(w) \/ Sweep(w) \/ Dispatch(w) \/ Wake(w) \/ HookFails(w) \/ Kill(w)
        PROVE  Claimed' /\ OneRunner'
    <2>1. \E t : Do(w, t)
      BY <1>6 DEF Hook, Sweep, Dispatch, Wake, HookFails, Kill
    <2>2. \A n \in Nodes : status'[n] \in {status[n], "failed"}
      BY <1>6 DEF Hook, Sweep, Dispatch, Wake, HookFails, Kill, TypeOK, children
    <2> QED BY <1>5, <2>1, <2>2
  <1>7. ASSUME NEW n \in Nodes, ReapChild(n) PROVE Claimed' /\ OneRunner'
    BY <1>7, NoClaim DEF ReapChild, Write, TypeOK, handlers
  <1>8. CASE Abort
    BY <1>8, NoClaim DEF Abort, AbortRead, AbortFlag, AbortMark, AbortList, AbortNode, TypeOK, children, handlers
  <1>9. CASE UNCHANGED vars
    BY <1>9, NoClaim DEF vars, children, handlers
  <1> QED BY <1>1, <1>2, <1>3, <1>4, <1>6, <1>7, <1>8, <1>9 DEF Next, Parent, Breaks, Handler, Deliver

\* However many messages name a child, and whatever hooks, redeliveries and
\* killed handlers sent them, one handler runs it.
THEOREM RunsInOnePlace == Spec => []OneRunner
  <1>1. Init => Claimed /\ OneRunner
    BY DEF Init, Claimed, OneRunner
  <1> QED BY TypeCorrect, NextClaims, <1>1, PTL DEF Spec

\* The status of an aborted parent comes after the flag its continuations read.
Flagged == parent = "aborted" \/ abort.at \in {"mark", "list", "nodes"} => pabort

LEMMA NextFlags == TypeOK /\ Flagged /\ [Next]_vars => Flagged' /\ (parent = "aborted" => parent' # "running")
  <1> SUFFICES ASSUME TypeOK, Flagged, [Next]_vars
               PROVE  Flagged' /\ (parent = "aborted" => parent' # "running")
    OBVIOUS
  <1>. USE DEF Flagged, run
  <1>1. CASE \/ FanOut \/ PersistSpec \/ LoseSpec \/ Wait \/ Handoff \/ Finish \/ Aggregate \/ Clear \/ ReapParent
    BY <1>1 DEF FanOut, PersistSpec, LoseSpec, Wait, Handoff, Finish, Aggregate, Clear, ReapParent, Failures
  <1>2. CASE Continue \/ ParentStops
    BY <1>2 DEF Continue, ParentStops
  <1>3. ASSUME NEW w \in Workers, Handler(w) \/ HookFails(w) \/ Kill(w)
        PROVE  Flagged' /\ (parent = "aborted" => parent' # "running")
    BY <1>3 DEF Handler, Deliver, Take, End, Hook, Sweep, Dispatch, Wake, HookFails, Kill
  <1>4. ASSUME NEW n \in Nodes, ReapChild(n)
        PROVE  Flagged' /\ (parent = "aborted" => parent' # "running")
    BY <1>4 DEF ReapChild
  <1>5. CASE Abort
    <2>1. CASE AbortRead
      BY <1>5, <2>1 DEF AbortRead, TypeOK
    <2>2. CASE AbortFlag \/ AbortMark
      BY <2>2 DEF AbortFlag, AbortMark, TypeOK
    <2>3. CASE AbortList
      BY <2>3 DEF AbortList, TypeOK
    <2>4. CASE AbortNode
      <3>1. abort'.at # "mark"
        BY <2>4 DEF AbortNode, TypeOK
      <3> QED BY <2>4, <3>1 DEF AbortNode
    <2> QED BY <1>5, <2>1, <2>2, <2>3, <2>4 DEF Abort
  <1>6. CASE UNCHANGED vars
    BY <1>6 DEF vars
  <1> QED BY <1>1, <1>2, <1>3, <1>4, <1>5, <1>6 DEF Next, Parent, Breaks

\* A parent that was aborted is not made to run again, by a continuation that
\* its children or a hand-off sent, whenever the abort came between.
THEOREM AbortKept == Spec => AbortedNotResumed
  <1>1. Init => Flagged
    BY DEF Init, Flagged
  <1>2. TypeOK /\ Flagged /\ [Next]_vars => [parent = "aborted" => parent' # "running"]_vars
    BY NextFlags
  <1> QED BY TypeCorrect, NextFlags, <1>1, <1>2, PTL DEF Spec, AbortedNotResumed

-----------------------------------------------------------------------------
(* What a hook reads: the nodes that are doomed, and those that are ready.  *)

LEMMA DoomedClosed ==
  ASSUME NEW n \in pendingIds, dag.deps[n] \cap (cascadeFailedIds \cup Doomed) # {}
  PROVE  n \in Doomed
  <1> SUFFICES ASSUME NEW D \in SUBSET pendingIds, Closed(D) PROVE n \in D
    BY DEF Doomed
  <1>1. Doomed \subseteq D
    BY DEF Doomed
  <1> QED BY <1>1 DEF Closed

\* Nothing is doomed without a cause that it depends on.
LEMMA DoomedCause ==
  ASSUME NEW n \in Doomed
  PROVE  dag.deps[n] \cap (cascadeFailedIds \cup Doomed) # {}
  <1> SUFFICES ASSUME dag.deps[n] \cap (cascadeFailedIds \cup Doomed) = {} PROVE FALSE
    OBVIOUS
  <1> DEFINE E == Doomed \ {n}
  <1>1. E \subseteq pendingIds
    BY DEF Doomed
  <1>2. ASSUME NEW m \in pendingIds, dag.deps[m] \cap (cascadeFailedIds \cup E) # {} PROVE m \in E
    BY <1>2, DoomedClosed
  <1>3. Closed(E)
    BY <1>2 DEF Closed
  <1>4. n \in E
    BY <1>1, <1>3 DEF Doomed
  <1> QED BY <1>4

-----------------------------------------------------------------------------
(* The children only move forwards.                                         *)

Grows ==
  /\ dag' = dag
  /\ \A n \in Nodes :
       \/ status'[n] = status[n]
       \/ status[n] = "absent" /\ status'[n] = "pending"
       \/ status[n] = "pending" /\ status'[n] = "running"
       \/ status[n] = "running" /\ status'[n] \in Terminal
       \/ status[n] \in {"pending"} \cup Failures /\ status'[n] \in Failures

LEMMA Stable ==
  ASSUME TypeOK, Grows, NEW n \in Nodes
  PROVE  /\ Over(n) => Over(n)'
         /\ Satisfies(n) => Satisfies(n)'
         /\ status[n] \in Failures => status'[n] \in Failures
         /\ MayStart(n) => MayStart(n)'
  <1>1. \A d \in Nodes : Satisfies(d) => Satisfies(d)'
    BY DEF Grows, Satisfies, Failures, Terminal
  <1>2. dag.deps[n] \subseteq Nodes
    BY DagType DEF TypeOK
  <1> QED BY <1>1, <1>2 DEF Grows, Over, MayStart, Failures, Terminal

\* Whom a node waits for that is to be swept, it waits for in vain.
LEMMA CauseHolds ==
  ASSUME TypeOK, NEW w \in Workers, Hands(w), NEW n \in todo[w].doomed
  PROVE  ~MayStart(n)
  <1>1. PICK d \in dag.deps[n] \ dag.isolate : status[d] \in Failures \/ d \in todo[w].doomed
    BY DEF Hands, HasCause
  <1>2. status[d] \in {"pending"} \cup Failures
    BY <1>1 DEF Hands
  <1> QED BY <1>1, <1>2 DEF MayStart, Satisfies, Failures

\* A handler that does nothing meanwhile keeps what it knows.
LEMMA HandsKept ==
  ASSUME TypeOK, Grows, NEW w \in Workers, Hands(w),
         at'[w] = at[w], on'[w] = on[w], todo'[w] = todo[w],
         at[w] = "run" => status'[on[w]] = status[on[w]],
         \A n \in todo[w].doomed : status[n] = "pending" => status'[n] # "running"
  PROVE  Hands(w)'
  <1>1. todo[w].ready \subseteq Nodes /\ todo[w].doomed \subseteq Nodes
    BY DEF TypeOK
  <1>2. ASSUME NEW n \in todo[w].doomed PROVE status'[n] \in {"pending"} \cup Failures /\ HasCause(w, n)'
    <2>1. status'[n] \in {"pending"} \cup Failures
      BY <1>1 DEF Hands, Grows, Failures
    <2>2. PICK d \in dag.deps[n] \ dag.isolate : status[d] \in Failures \/ d \in todo[w].doomed
      BY DEF Hands, HasCause
    <2>3. d \in Nodes
      BY <1>1, <2>2, DagType DEF TypeOK
    <2> QED BY <2>1, <2>2, <2>3, Stable DEF HasCause, Grows
  <1>3. \A n \in todo[w].ready : MayStart(n)'
    BY <1>1, Stable DEF Hands
  <1>4. todo[w].wake => \A n \in Nodes : Over(n)' \/ n \in todo[w].doomed
    BY Stable DEF Hands
  <1>5. at[w] \in {"hook", "tell"} => Over(on[w])'
    BY Stable DEF Hands
  <1> QED BY <1>2, <1>3, <1>4, <1>5 DEF Hands, Over

LEMMA WholeKept ==
  ASSUME TypeOK, Grows, Whole, pc' = pc, parent' \in {parent, "failed"},
         pmsgs' = pmsgs \/ AllOver
  PROVE  Whole'
  <1>1. AllOver => AllOver'
    BY Stable DEF AllOver
  <1> QED BY <1>1 DEF Whole, Terminal

-----------------------------------------------------------------------------
(* The invariant, while the parent is not aborted and nothing has gone      *)
(* astray.                                                                  *)

Sound == Kids /\ (\A w \in Workers : Hands(w)) /\ Whole

LEMMA FanOutSound ==
  ASSUME TypeOK, Sound, FanOut
  PROVE  Sound' /\ Grows
  <1>1. Grows
    BY DEF FanOut, Grows, TypeOK
  <1>2. \A w \in Workers : Hands(w)'
    <2> SUFFICES ASSUME NEW w \in Workers PROVE Hands(w)'
      OBVIOUS
    <2>1. at[w] = "idle" /\ \A n \in todo[w].doomed : FALSE
      BY DEF FanOut, Sound, Hands, Over, Terminal, Failures, TypeOK
    <2> QED BY <1>1, <2>1, HandsKept DEF FanOut, handlers, Sound
  <1>3. Kids'
    <2>1. \A n \in Nodes : msgs'[n] > 0 => n \in Roots
      BY DEF FanOut, TypeOK
    <2>2. \A n \in Roots : MayStart(n)'
      BY <1>1 DEF Roots, MayStart, Grows
    <2>3. flag' = flag /\ flag = {}
      BY DEF FanOut, Sound, Kids, TypeOK, Failures
    <2> QED BY <2>1, <2>2, <2>3 DEF Kids, FanOut
  <1>4. Whole'
    <2>1. CASE pmsgs = 0
      BY <2>1 DEF FanOut, Sound, Whole
    <2>2. CASE AllOver
      BY <2>2, <1>1, Stable DEF FanOut, Sound, Whole, AllOver
    <2> QED BY <2>1, <2>2 DEF FanOut, Sound, Whole, TypeOK
  <1> QED BY <1>1, <1>2, <1>3, <1>4 DEF Sound

\* The steps of the parent's executor leave the children alone.
LEMMA ParentSound ==
  ASSUME TypeOK, Sound, ~pabort, ~astray',
         \/ PersistSpec \/ LoseSpec \/ Wait \/ Handoff \/ Finish \/ Continue \/ Aggregate
         \/ Clear \/ ParentStops \/ ReapParent
  PROVE  Sound'
  <1>1. UNCHANGED << dag, status, flag, msgs, at, on, todo >>
    BY DEF PersistSpec, LoseSpec, Wait, Handoff, Finish, Continue, Aggregate, Clear, ParentStops,
       ReapParent, children, handlers
  <1>2. Kids' /\ \A w \in Workers : Hands(w)'
    BY <1>1 DEF Sound, Kids, Hands, MayStart, Satisfies, HasCause, Over
  <1>3. AllOver' <=> AllOver
    BY <1>1 DEF AllOver, Over
  <1>4. Whole'
    <2>. USE <1>3 DEF Sound, Whole, Terminal, Failures, TypeOK
    <2>1. CASE PersistSpec \/ LoseSpec \/ Wait
      BY <2>1 DEF PersistSpec, LoseSpec, Wait
    <2>2. CASE Handoff
      BY <2>2 DEF Handoff
    <2>3. CASE Finish \/ Aggregate
      BY <2>3 DEF Finish, Aggregate
    <2>4. CASE Continue
      BY <2>4 DEF Continue
    <2>5. CASE Clear
      BY <2>5 DEF Clear
    <2>6. CASE ParentStops \/ ReapParent
      BY <2>6 DEF ParentStops, ReapParent
    <2> QED BY <2>1, <2>2, <2>3, <2>4, <2>5, <2>6
  <1> QED BY <1>2, <1>4 DEF Sound

LEMMA TakeSound ==
  ASSUME TypeOK, Sound, NEW w \in Workers, NEW n \in Nodes, Take(w, n)
  PROVE  Sound' /\ Grows
  <1>1. CASE n \notin flag /\ status[n] # "pending"
    <2>1. UNCHANGED << dag, status, flag, at, on, todo >>
      BY <1>1 DEF Take
    <2>2. Grows
      BY <2>1 DEF Grows
    <2>3. \A m \in Nodes : msgs'[m] > 0 => msgs[m] > 0
      BY DEF Take, TypeOK
    <2>4. Kids'
      BY <2>1, <2>3 DEF Sound, Kids, MayStart, Satisfies
    <2> QED BY <2>1, <2>2, <2>4, HandsKept, WholeKept DEF Sound, Take, run
  <1>2. CASE n \in flag \/ status[n] = "pending"
    <2> DEFINE s == IF n \in flag THEN "aborted" ELSE "running"
    <2>1. /\ status' = [status EXCEPT ![n] = s]
          /\ at' = [at EXCEPT ![w] = IF n \in flag THEN "hook" ELSE "run"]
          /\ on' = [on EXCEPT ![w] = n]
          /\ msgs' = [msgs EXCEPT ![n] = @ - 1]
          /\ UNCHANGED << dag, flag, todo >>
      BY <1>2 DEF Take, Write, Busy
    <2>2. at[w] = "idle" /\ msgs[n] > 0
      BY DEF Take
    <2>3. n \in flag => status[n] \in Failures
      BY DEF Sound, Kids
    <2>4. Grows
      BY <1>2, <2>1, <2>3 DEF Grows, TypeOK, Failures
    <2>5. Kids'
      <3>1. \A m \in Nodes : status[m] # "absent"
        BY <1>2, <2>3 DEF Sound, Kids, Failures
      <3>2. \A m \in Nodes : msgs'[m] > 0 => msgs[m] > 0
        BY <2>1 DEF TypeOK
      <3>3. \A m \in flag : status'[m] \in Failures
        BY <2>1, <2>4, Stable DEF Sound, Kids, TypeOK
      <3>4. \A m \in Nodes : status'[m] \in {"absent", "pending"} => status[m] = status'[m]
        BY <2>1 DEF TypeOK
      <3>5. \A m \in Nodes : MayStart(m) => MayStart(m)'
        BY <2>4, Stable
      <3> QED BY <2>1, <3>1, <3>2, <3>3, <3>4, <3>5 DEF Sound, Kids
    <2>6. ~(n \in flag) => MayStart(n)
      BY <1>2, <2>2 DEF Sound, Kids
    <2>7. \A v \in Workers \ {w} : Hands(v)'
      <3> SUFFICES ASSUME NEW v \in Workers \ {w} PROVE Hands(v)'
        OBVIOUS
      <3>1. at[v] = "run" => status'[on[v]] = status[on[v]]
        BY <1>2, <2>1, <2>3 DEF Sound, Hands, Failures, TypeOK
      <3>2. \A m \in todo[v].doomed : status[m] = "pending" => status'[m] # "running"
        BY <2>1, <2>6, CauseHolds DEF Sound, TypeOK, Failures
      <3> QED BY <2>1, <2>4, <3>1, <3>2, HandsKept DEF Sound, TypeOK
    <2>8. Hands(w)'
      <3>1. \A m \in todo[w].doomed : status'[m] \in {"pending"} \cup Failures /\ HasCause(w, m)'
        <4> SUFFICES ASSUME NEW m \in todo[w].doomed
                     PROVE  status'[m] \in {"pending"} \cup Failures /\ HasCause(w, m)'
          OBVIOUS
        <4>1. m \in Nodes /\ status[m] \in {"pending"} \cup Failures /\ ~MayStart(m)
          BY CauseHolds DEF Sound, Hands, TypeOK
        <4>2. status'[m] \in {"pending"} \cup Failures
          BY <2>1, <2>6, <4>1 DEF TypeOK, Failures
        <4>3. PICK d \in dag.deps[m] \ dag.isolate : status[d] \in Failures \/ d \in todo[w].doomed
          BY DEF Sound, Hands, HasCause
        <4>4. d \in Nodes
          BY <4>1, <4>3, DagType DEF TypeOK
        <4> QED BY <2>1, <2>4, <4>2, <4>3, <4>4, Stable DEF HasCause
      <3>2. \A m \in todo[w].ready : MayStart(m)'
        BY <2>4, Stable DEF Sound, Hands, TypeOK
      <3>3. todo[w].wake => \A m \in Nodes : Over(m)' \/ m \in todo[w].doomed
        BY <2>4, Stable DEF Sound, Hands
      <3>4. Leftover # {} => todo[w].doomed = {} /\ todo[w].ready = {}
        BY DEF Sound, Hands
      <3> QED BY <2>1, <3>1, <3>2, <3>3, <3>4 DEF Hands, Over, TypeOK, Terminal
    <2> QED BY <2>4, <2>5, <2>7, <2>8, WholeKept DEF Sound, Take, run
  <1> QED BY <1>1, <1>2

LEMMA EndSound ==
  ASSUME TypeOK, OneRunner, Sound, NEW w \in Workers, End(w)
  PROVE  Sound' /\ Grows
  <1>1. PICK s \in Terminal : status' = [status EXCEPT ![on[w]] = s]
    BY DEF End, Write, Terminal
  <1>2. /\ on[w] \in Nodes /\ status[on[w]] = "running" /\ at[w] = "run"
        /\ at' = [at EXCEPT ![w] = "hook"]
        /\ UNCHANGED << dag, flag, msgs, on, todo >>
    BY DEF End, Sound, Hands
  <1>3. Grows
    BY <1>1, <1>2 DEF Grows, TypeOK, Terminal
  <1>4. Kids'
    <2>1. \A m \in Nodes : status[m] # "absent"
      BY <1>2 DEF Sound, Kids
    <2>2. \A m \in flag : status'[m] \in Failures
      BY <1>3, Stable DEF Sound, Kids, TypeOK
    <2>3. \A m \in Nodes : status'[m] \in {"absent", "pending"} => status[m] = status'[m]
      BY <1>1, <1>2 DEF TypeOK, Terminal
    <2>4. \A m \in Nodes : MayStart(m) => MayStart(m)'
      BY <1>3, Stable
    <2> QED BY <1>2, <2>1, <2>2, <2>3, <2>4 DEF Sound, Kids
  <1>5. \A v \in Workers \ {w} : Hands(v)'
    <2> SUFFICES ASSUME NEW v \in Workers \ {w} PROVE Hands(v)'
      OBVIOUS
    <2>1. at[v] = "run" => status'[on[v]] = status[on[v]]
      BY <1>1, <1>2 DEF OneRunner, TypeOK
    <2>2. \A m \in todo[v].doomed : status[m] = "pending" => status'[m] # "running"
      BY <1>1, <1>2 DEF Sound, Hands, TypeOK, Failures, Terminal
    <2> QED BY <1>2, <1>3, <2>1, <2>2, HandsKept DEF Sound, TypeOK
  <1>6. Hands(w)'
    <2>1. \A m \in todo[w].doomed : status'[m] \in {"pending"} \cup Failures /\ HasCause(w, m)'
      <3> SUFFICES ASSUME NEW m \in todo[w].doomed
                   PROVE  status'[m] \in {"pending"} \cup Failures /\ HasCause(w, m)'
        OBVIOUS
      <3>1. m \in Nodes /\ status[m] \in {"pending"} \cup Failures
        BY DEF Sound, Hands, TypeOK
      <3>2. status'[m] \in {"pending"} \cup Failures
        BY <1>1, <1>2, <3>1 DEF TypeOK, Failures
      <3>3. PICK d \in dag.deps[m] \ dag.isolate : status[d] \in Failures \/ d \in todo[w].doomed
        BY DEF Sound, Hands, HasCause
      <3>4. d \in Nodes
        BY <3>1, <3>3, DagType DEF TypeOK
      <3> QED BY <1>2, <1>3, <3>2, <3>3, <3>4, Stable DEF HasCause
    <2>2. \A m \in todo[w].ready : MayStart(m)'
      BY <1>3, Stable DEF Sound, Hands, TypeOK
    <2>3. todo[w].wake => \A m \in Nodes : Over(m)' \/ m \in todo[w].doomed
      BY <1>3, Stable DEF Sound, Hands
    <2>4. Leftover # {} => todo[w].doomed = {} /\ todo[w].ready = {}
      BY DEF Sound, Hands
    <2> QED BY <1>1, <1>2, <2>1, <2>2, <2>3, <2>4 DEF Hands, Over, TypeOK, Terminal
  <1> QED BY <1>3, <1>4, <1>5, <1>6, WholeKept DEF Sound, End, run

\* What a handler knows when it is left with t to do.
Knows(w, t) ==
  /\ \A n \in t.ready : MayStart(n)
  /\ \A n \in t.doomed :
       /\ status[n] \in {"pending"} \cup Failures
       /\ \E d \in dag.deps[n] \ dag.isolate : status[d] \in Failures \/ d \in t.doomed
  /\ t.wake => \A n \in Nodes : Over(n) \/ n \in t.doomed
  /\ Leftover # {} => t.doomed = {} /\ t.ready = {}

LEMMA DoKnows ==
  ASSUME TypeOK, Grows, NEW w \in Workers, NEW t \in Todos, Do(w, t), Knows(w, t)', Sound,
         at[w] \in {"hook", "tell"} \/ t = Nothing,
         \A n \in Nodes : status'[n] \in {status[n], "failed"},
         \A n \in Nodes : status[n] = "running" => status'[n] = status[n]
  PROVE  \A v \in Workers : Hands(v)'
  <1>1. \A v \in Workers \ {w} : at'[v] = at[v] /\ on'[v] = on[v] /\ todo'[v] = todo[v]
    BY DEF Do, Busy, TypeOK
  <1>2. ASSUME NEW v \in Workers \ {w} PROVE Hands(v)'
    <2>1. at[v] = "run" => on[v] \in Nodes /\ status'[on[v]] = status[on[v]]
      BY DEF Sound, Hands
    <2>2. \A n \in todo[v].doomed : status[n] = "pending" => status'[n] # "running"
      BY DEF TypeOK
    <2> QED BY <1>1, <2>1, <2>2, HandsKept DEF Sound
  <1>3. Hands(w)'
    <2>1. todo'[w] = t
      BY DEF Do, TypeOK
    <2>2. (\A n \in t.doomed : status'[n] \in {"pending"} \cup Failures /\ HasCause(w, n)')
      BY <2>1 DEF Knows, HasCause
    <2>3. CASE t = Nothing
      BY <2>1, <2>2, <2>3 DEF Do, Busy, TypeOK, Hands, Knows
    <2>4. CASE t # Nothing
      <3>1. at'[w] = "tell" /\ on'[w] = on[w] /\ on[w] \in Nodes /\ Over(on[w])
        BY <2>4 DEF Do, Busy, TypeOK, Sound, Hands
      <3>2. Over(on[w])'
        BY <3>1, Stable DEF Over
      <3> QED BY <2>1, <2>2, <3>1, <3>2 DEF Hands, Knows, Over
    <2> QED BY <2>3, <2>4
  <1> QED BY <1>2, <1>3

LEMMA HookKnows ==
  ASSUME TypeOK, Sound, NEW w \in Workers, at[w] = "hook",
         Leftover = {}, Doomed \cap dag.isolate = {}
  PROVE  Knows(w, [doomed |-> Doomed, ready |-> Ready, wake |-> AllEnded])
  <1>1. \A n \in Ready : MayStart(n)
    BY DEF Ready, MayStart, Satisfies, completedIds, isolatedFailedIds
  <1>2. ASSUME NEW n \in Doomed
        PROVE  /\ status[n] \in {"pending"} \cup Failures
               /\ \E d \in dag.deps[n] \ dag.isolate : status[d] \in Failures \/ d \in Doomed
    <2>1. PICK d \in dag.deps[n] : d \in cascadeFailedIds \cup Doomed
      BY DoomedCause
    <2>2. d \notin dag.isolate
      BY <2>1 DEF cascadeFailedIds
    <2>3. d \in cascadeFailedIds => status[d] \in Failures
      BY DEF cascadeFailedIds
    <2>4. status[n] = "pending"
      BY DEF Doomed, pendingIds
    <2> QED BY <2>1, <2>2, <2>3, <2>4
  <1>3. ASSUME AllEnded, NEW n \in Nodes PROVE Over(n) \/ n \in Doomed
    <2>1. status[n] # "absent"
      BY DEF Sound, Kids, Hands, Over, Terminal
    <2>2. status[n] # "running" /\ (status[n] = "pending" => n \in Doomed)
      BY <1>3 DEF AllEnded, anyRunning, pendingIds
    <2> QED BY <2>1, <2>2 DEF TypeOK, NodeStatuses, Over
  <1> QED BY <1>1, <1>2, <1>3 DEF Knows

\* Giving up what is left to do is always sound.
LEMMA NothingKnown == ASSUME NEW w PROVE Knows(w, Nothing)
  BY DEF Knows, Nothing

LEMMA KidsKept ==
  ASSUME TypeOK, Grows, Kids, flag' = flag,
         \A n \in Nodes : status'[n] \in {"absent", "pending"} => status'[n] = status[n],
         \A n \in Nodes : status[n] = "absent" => status' = status,
         \A n \in Nodes : msgs'[n] > 0 /\ status[n] \in {"absent", "pending"}
                            => msgs[n] > 0 \/ MayStart(n)
  PROVE  Kids'
  <1>1. \A n \in flag : status'[n] \in Failures
    BY Stable DEF Kids, TypeOK
  <1>2. \A n \in Nodes : MayStart(n) => MayStart(n)'
    BY Stable
  <1> QED BY <1>1, <1>2 DEF Kids

LEMMA HookSound ==
  ASSUME TypeOK, Sound, NEW w \in Workers, Hook(w), ~astray'
  PROVE  Sound' /\ Grows
  <1>1. UNCHANGED << dag, status, flag, msgs, parent, pc, pmsgs >> /\ at[w] = "hook"
    BY DEF Hook, children, run
  <1>2. Grows
    BY <1>1 DEF Grows
  <1>3. PICK t \in Todos : Do(w, t) /\ Knows(w, t)
    <2>1. Nothing \in Todos
      BY DEF Nothing, Todos
    <2>2. [doomed |-> Doomed, ready |-> Ready, wake |-> AllEnded] \in Todos
      BY ReadType DEF Todos
    <2>3. spec => Leftover = {} /\ Doomed \cap dag.isolate = {}
      BY DEF Hook
    <2> QED BY <1>1, <2>1, <2>2, <2>3, HookKnows, NothingKnown DEF Hook
  <1>4. Knows(w, t)'
    BY <1>1, <1>3 DEF Knows, MayStart, Satisfies, Over
  <1>5. \A v \in Workers : Hands(v)'
    BY <1>1, <1>2, <1>3, <1>4, DoKnows
  <1> QED BY <1>1, <1>2, <1>5, KidsKept, WholeKept DEF Sound

LEMMA SweepSound ==
  ASSUME TypeOK, Sound, NEW w \in Workers, Sweep(w)
  PROVE  Sound' /\ Grows
  <1>1. PICK n \in todo[w].doomed :
          /\ status' = [status EXCEPT ![n] = "failed"]
          /\ Do(w, [todo[w] EXCEPT !.doomed = @ \ {n}])
    BY DEF Sweep, Own, Sound, Hands
  <1>0. PICK t \in Todos : t = [todo[w] EXCEPT !.doomed = @ \ {n}]
    <2>1. todo[w] \in Todos
      BY DEF Todos, TypeOK
    <2> QED BY <2>1 DEF Todos
  <1>2. UNCHANGED << dag, flag, msgs, parent, pc, pmsgs >> /\ at[w] = "tell"
    BY DEF Sweep, run
  <1>3. n \in Nodes /\ status[n] \in {"pending"} \cup Failures
    BY DEF Sound, Hands, TypeOK
  <1>4. Grows
    BY <1>1, <1>2, <1>3 DEF Grows, TypeOK, Failures
  <1>5. /\ t.ready = todo[w].ready /\ t.wake = todo[w].wake
        /\ t.doomed = todo[w].doomed \ {n}
    BY <1>0 DEF TypeOK
  <1>6. Knows(w, t)'
    <2>1. \A m \in t.ready : MayStart(m)'
      BY <1>4, <1>5, Stable DEF Sound, Hands, TypeOK
    <2>2. ASSUME NEW m \in t.doomed
          PROVE  /\ status'[m] \in {"pending"} \cup Failures
                 /\ \E d \in dag'.deps[m] \ dag'.isolate : status'[d] \in Failures \/ d \in t.doomed
      <3>1. m \in Nodes /\ status[m] \in {"pending"} \cup Failures
        BY <1>5, <2>2 DEF Sound, Hands, TypeOK
      <3>2. PICK d \in dag.deps[m] \ dag.isolate : status[d] \in Failures \/ d \in todo[w].doomed
        BY <1>5, <2>2 DEF Sound, Hands, HasCause
      <3>3. d \in Nodes
        BY <3>1, <3>2, DagType DEF TypeOK
      <3> QED BY <1>1, <1>2, <1>3, <1>5, <3>1, <3>2, <3>3 DEF TypeOK, Failures
    <2>3. t.wake => \A m \in Nodes : Over(m)' \/ m \in t.doomed
      <3>1. Over(n)'
        BY <1>1, <1>3 DEF Over, TypeOK, Terminal
      <3> QED BY <1>4, <1>5, <3>1, Stable DEF Sound, Hands
    <2>4. Leftover = {}
      BY DEF Sound, Hands
    <2> QED BY <2>1, <2>2, <2>3, <2>4 DEF Knows
  <1>7. \A m \in Nodes : status'[m] \in {status[m], "failed"} /\ (status[m] = "running" => status'[m] = status[m])
    BY <1>1, <1>3 DEF TypeOK, Failures
  <1>8. \A v \in Workers : Hands(v)'
    BY <1>0, <1>1, <1>2, <1>4, <1>6, <1>7, DoKnows
  <1>9. Kids'
    <2>1. \A m \in Nodes : status[m] # "absent"
      BY <1>3 DEF Sound, Kids, Failures
    <2>2. \A m \in Nodes : status'[m] \in {"absent", "pending"} => status'[m] = status[m]
      BY <1>7
    <2> QED BY <1>2, <1>4, <2>1, <2>2, KidsKept DEF Sound
  <1> QED BY <1>2, <1>4, <1>8, <1>9, WholeKept DEF Sound

LEMMA DispatchSound ==
  ASSUME TypeOK, Sound, NEW w \in Workers, Dispatch(w)
  PROVE  Sound' /\ Grows
  <1>1. PICK n \in todo[w].ready :
          /\ msgs' = [msgs EXCEPT ![n] = @ + 1]
          /\ Do(w, [todo[w] EXCEPT !.ready = @ \ {n}])
    BY DEF Dispatch, Own, Sound, Hands
  <1>0. PICK t \in Todos : t = [todo[w] EXCEPT !.ready = @ \ {n}]
    <2>1. todo[w] \in Todos
      BY DEF Todos, TypeOK
    <2> QED BY <2>1 DEF Todos
  <1>2. UNCHANGED << dag, status, flag, parent, pc, pmsgs >> /\ at[w] = "tell"
    BY DEF Dispatch, run
  <1>3. Grows
    BY <1>2 DEF Grows
  <1>4. /\ t.ready = todo[w].ready \ {n} /\ t.wake = todo[w].wake
        /\ t.doomed = todo[w].doomed
    BY <1>0 DEF TypeOK
  <1>5. Knows(w, t)'
    BY <1>2, <1>4 DEF Sound, Hands, Knows, MayStart, Satisfies, Over, HasCause
  <1>6. \A v \in Workers : Hands(v)'
    BY <1>0, <1>1, <1>2, <1>3, <1>5, DoKnows
  <1>7. Kids'
    <2>1. MayStart(n)
      BY DEF Sound, Hands
    <2>2. \A m \in Nodes : msgs'[m] > 0 => msgs[m] > 0 \/ MayStart(m)
      BY <1>1, <2>1 DEF TypeOK
    <2> QED BY <1>2, <1>3, <2>2, KidsKept DEF Sound
  <1> QED BY <1>2, <1>3, <1>6, <1>7, WholeKept DEF Sound

\* A wake is sent when all is over, and a handler that stops knows nothing.
LEMMA LeaveSound ==
  ASSUME TypeOK, Sound, NEW w \in Workers, Wake(w) \/ HookFails(w) \/ Kill(w)
  PROVE  Sound' /\ Grows
  <1>1. UNCHANGED << dag, status, flag, pc >> /\ Do(w, Nothing) /\ parent' \in {parent, "failed"}
    BY DEF Wake, HookFails, Kill, children, run
  <1>2. Grows
    BY <1>1 DEF Grows
  <1>3. Nothing \in Todos
    BY DEF Nothing, Todos
  <1>4. Knows(w, Nothing)'
    BY DEF Knows, Nothing
  <1>5. \A v \in Workers : Hands(v)'
    BY <1>1, <1>2, <1>3, <1>4, DoKnows
  <1>6. ASSUME NEW n \in Nodes, msgs'[n] > 0, status[n] \in {"absent", "pending"} PROVE msgs[n] > 0
    <2>1. CASE Wake(w) \/ HookFails(w)
      BY <1>6, <2>1 DEF Wake, HookFails, children
    <2>2. CASE Kill(w)
      <3>1. on[w] \in Nodes /\ (status[on[w]] = "running" \/ Over(on[w]))
        BY <2>2 DEF Kill, Sound, Hands, TypeOK
      <3>2. n # on[w]
        BY <1>6, <3>1 DEF Over, Terminal
      <3> QED BY <1>6, <2>2, <3>2 DEF Kill, TypeOK
    <2> QED BY <2>1, <2>2
  <1>7. Kids'
    BY <1>1, <1>2, <1>6, KidsKept DEF Sound
  <1>8. pmsgs' = pmsgs \/ AllOver
    BY DEF Wake, HookFails, Kill, run, Sound, Hands, AllOver
  <1> QED BY <1>1, <1>2, <1>5, <1>7, <1>8, WholeKept DEF Sound

LEMMA ReapSound ==
  ASSUME TypeOK, Sound, NEW n \in Nodes, ReapChild(n)
  PROVE  Sound' /\ Grows
  <1>1. /\ status' = [status EXCEPT ![n] = "aborted"] /\ flag' = flag \cup {n}
        /\ UNCHANGED << dag, msgs, at, on, todo, parent, pc, pmsgs >>
        /\ status[n] = "pending" \/ (status[n] = "running" /\ \A w \in Workers : ~(at[w] = "run" /\ on[w] = n))
    BY DEF ReapChild, Write, handlers, run
  <1>2. Grows
    BY <1>1 DEF Grows, TypeOK, Failures, Terminal
  <1>3. ASSUME NEW w \in Workers PROVE Hands(w)'
    <2>1. at[w] = "run" => on[w] # n
      BY <1>1 DEF Sound, Hands
    <2>2. at[w] = "run" => status'[on[w]] = status[on[w]]
      BY <1>1, <2>1 DEF TypeOK
    <2>3. \A m \in todo[w].doomed : status[m] = "pending" => status'[m] # "running"
      BY <1>1 DEF TypeOK
    <2> QED BY <1>1, <1>2, <2>2, <2>3, HandsKept DEF Sound
  <1>4. Kids'
    <2>1. \A m \in Nodes : status[m] # "absent"
      BY <1>1 DEF Sound, Kids
    <2>2. \A m \in flag \cup {n} : status'[m] \in Failures
      BY <1>1, <1>2, Stable DEF Sound, Kids, TypeOK, Failures
    <2>3. \A m \in Nodes : status'[m] \in {"absent", "pending"} => status'[m] = status[m]
      BY <1>1 DEF TypeOK
    <2>4. \A m \in Nodes : MayStart(m) => MayStart(m)'
      BY <1>2, Stable
    <2> QED BY <1>1, <2>1, <2>2, <2>3, <2>4 DEF Sound, Kids
  <1> QED BY <1>1, <1>2, <1>3, <1>4, WholeKept DEF Sound

\* Before it has set the flag of the parent an abort has changed nothing.
LEMMA AbortSound ==
  ASSUME Flagged, Sound, Abort, ~pabort, ~pabort'
  PROVE  Sound' /\ UNCHANGED << dag, status, pc >>
  <1>1. AbortRead
    BY DEF Abort, AbortFlag, AbortMark, AbortList, AbortNode, Flagged
  <1>2. UNCHANGED << dag, status, flag, msgs, at, on, todo, parent, pc, pmsgs >>
    BY <1>1 DEF AbortRead, children, handlers, run
  <1> QED BY <1>2 DEF Sound, Kids, Hands, Whole, MayStart, Satisfies, HasCause, Over, AllOver

LEMMA AbortStays == TypeOK /\ [Next]_vars => (pabort => pabort') /\ (astray => astray')
  BY DEF Next, Parent, Handler, Deliver, Abort, Breaks, FanOut, PersistSpec, LoseSpec, Wait, Handoff,
     Finish, Continue, Aggregate, Clear, ParentStops, ReapParent, Take, End, Hook, Sweep,
     Dispatch, Wake, HookFails, Kill, ReapChild, AbortRead, AbortFlag, AbortMark, AbortList,
     AbortNode, vars, run, history, TypeOK

Inv == TypeOK /\ OneRunner /\ Claimed /\ Flagged /\ (~(pabort \/ astray) => Sound)

LEMMA InitSound == Init => Sound
  <1> SUFFICES ASSUME Init PROVE Sound
    OBVIOUS
  <1>1. Kids
    BY DEF Init, Kids
  <1>2. \A w \in Workers : Hands(w)
    BY DEF Init, Hands, Nothing
  <1>3. Whole
    BY DEF Init, Whole
  <1> QED BY <1>1, <1>2, <1>3 DEF Sound

LEMMA NextSound ==
  ASSUME Inv, [Next]_vars, ~(pabort \/ astray), ~(pabort \/ astray)'
  PROVE  Sound'
  <1>1. TypeOK /\ OneRunner /\ Flagged /\ Sound
    BY DEF Inv
  <1>2. ASSUME NEW w \in Workers, Handler(w) \/ HookFails(w) \/ Kill(w) PROVE Sound'
    BY <1>1, <1>2, TakeSound, EndSound, HookSound, SweepSound, DispatchSound, LeaveSound
       DEF Handler, Deliver
  <1>3. CASE UNCHANGED vars
    BY <1>1, <1>3 DEF vars, children, handlers, run, Sound, Kids, Hands, Whole, MayStart,
       Satisfies, HasCause, Over, AllOver
  <1> QED BY <1>1, <1>2, <1>3, FanOutSound, ParentSound, AbortSound, ReapSound
          DEF Next, Parent, Breaks

\* What the completion hooks lean on, in every reachable state until the parent
\* is aborted or the run goes astray: the children only move forwards, so what a
\* hook read of them before its sweep, its dispatches and its wake is still true
\* enough when it writes.
THEOREM Invariance == Spec => []Inv
  <1>1. Init => Inv
    BY InitType, InitSound DEF Inv, Init, OneRunner, Claimed, Flagged
  <1>2. Inv /\ [Next]_vars => Inv'
    BY NextType, NextClaims, NextFlags, NextSound, AbortStays DEF Inv
  <1> QED BY <1>1, <1>2, PTL DEF Spec

-----------------------------------------------------------------------------
(* The fan-out implements ForkJoin.                                         *)

node == [n \in Nodes |-> Node(status[n])]

LEMMA NodeIs ==
  /\ Node("absent") = "waiting" /\ Node("pending") = "waiting"
  /\ Node("running") = "started" /\ Node("completed") = "ok"
  /\ Node("failed") = "bad" /\ Node("aborted") = "bad"
  BY DEF Node

LEMMA NodeWrite ==
  ASSUME TypeOK, NEW n \in Nodes, NEW s, status' = [status EXCEPT ![n] = s]
  PROVE  node' = [node EXCEPT ![n] = Node(s)]
  BY DEF TypeOK, node

LEMMA NodeSatisfies ==
  ASSUME NEW n \in Nodes, Satisfies(n)
  PROVE  node[n] = "ok" \/ (node[n] = "bad" /\ n \in dag.isolate)
  BY NodeIs DEF Satisfies, node, Failures

LEMMA NodeOver == ASSUME NEW n \in Nodes, Over(n) PROVE node[n] \in {"ok", "bad"}
  BY NodeIs DEF Over, node, Terminal

LEMMA StartStep ==
  ASSUME TypeOK, NEW n \in Nodes, status[n] = "pending", MayStart(n),
         status' = [status EXCEPT ![n] = "running"], UNCHANGED << dag, pc, pabort, astray >>
  PROVE  Promise!Start(n)
  <1>0. node[n] = "waiting"
    BY NodeIs DEF node
  <1>1. node' = [node EXCEPT ![n] = "started"]
    BY NodeIs, NodeWrite
  <1>2. \A d \in dag.deps[n] : node[d] = "ok" \/ (node[d] = "bad" /\ d \in dag.isolate)
    BY DagType, NodeSatisfies DEF MayStart, TypeOK
  <1> QED BY <1>0, <1>1, <1>2 DEF Promise!Start, Promise!Satisfied, node

LEMMA GiveUpStep ==
  ASSUME TypeOK, NEW n \in Nodes, NEW s \in Failures, status[n] = "pending",
         status' = [status EXCEPT ![n] = s], UNCHANGED << dag, pc, pabort, astray >>
  PROVE  Promise!GiveUp(n)
  <1>0. node[n] = "waiting"
    BY NodeIs DEF node
  <1>1. node' = [node EXCEPT ![n] = "bad"]
    <2>1. Node(s) = "bad"
      BY NodeIs DEF Failures
    <2> QED BY <2>1, NodeWrite
  <1> QED BY <1>0, <1>1 DEF Promise!GiveUp, node

LEMMA EndStep ==
  ASSUME TypeOK, NEW n \in Nodes, NEW s \in Terminal, status[n] = "running",
         status' = [status EXCEPT ![n] = s], UNCHANGED << dag, pc, pabort, astray >>
  PROVE  Promise!End(n)
  <1>1. node[n] = "started" /\ node' = [node EXCEPT ![n] = Node(s)] /\ Node(s) \in {"ok", "bad"}
    BY NodeIs, NodeWrite DEF node, Terminal
  <1> QED BY <1>1 DEF Promise!End, node

LEMMA Rest ==
  ASSUME dag' = dag, (pabort \/ astray)' = (pabort \/ astray), node' = node, (pc = "clear") = (pc = "clear")'
  PROVE  UNCHANGED Promise!vars
  BY DEF Promise!vars, node

LEMMA Rewrite ==
  ASSUME TypeOK, NEW n \in Nodes, NEW s \in Failures, status[n] \in Failures,
         status' = [status EXCEPT ![n] = s], UNCHANGED << dag, pc, pabort, astray >>
  PROVE  UNCHANGED Promise!vars
  <1>1. node' = node
    <2>1. node[n] = "bad" /\ node' = [node EXCEPT ![n] = "bad"]
      BY NodeIs, NodeWrite DEF node, Failures
    <2> QED BY <2>1 DEF node
  <1> QED BY <1>1, Rest

\* The steps of the parent gather the results when all is over, or do nothing.
LEMMA ParentStep ==
  ASSUME TypeOK, Sound, ~(pabort \/ astray), ~(pabort \/ astray)',
         \/ PersistSpec \/ LoseSpec \/ Wait \/ Handoff \/ Finish \/ Continue \/ Aggregate
         \/ Clear \/ ParentStops \/ ReapParent
  PROVE  [Promise!Next]_(Promise!vars)
  <1>1. UNCHANGED << dag, status >> /\ (pabort \/ astray)' = (pabort \/ astray)
    BY DEF PersistSpec, LoseSpec, Wait, Handoff, Finish, Continue, Aggregate, Clear, ParentStops,
       ReapParent, children, TypeOK
  <1>2. node' = node
    BY <1>1 DEF node
  <1>3. CASE pc = "aggregate" /\ pc' = "clear"
    <2>1. \A n \in Nodes : node[n] \in {"ok", "bad"}
      BY <1>3, NodeOver DEF Sound, Whole, AllOver
    <2>2. Promise!Join
      BY <1>1, <1>2, <1>3, <2>1 DEF Promise!Join, Promise!Ended, node
    <2> QED BY <2>2 DEF Promise!Next
  <1>4. CASE pc = "clear" /\ pc' # "clear"
    <2>1. Promise!Leave
      BY <1>1, <1>2, <1>4 DEF Promise!Leave, node
    <2> QED BY <2>1 DEF Promise!Next
  <1>5. (pc = "aggregate" /\ pc' = "clear") \/ (pc = "clear" /\ pc' # "clear") \/ (pc = "clear") = (pc = "clear")'
    BY DEF PersistSpec, LoseSpec, Wait, Handoff, Finish, Continue, Aggregate, Clear, ParentStops,
       ReapParent, Sound, Whole
  <1> QED BY <1>1, <1>2, <1>3, <1>4, <1>5, Rest

\* The step of a handler is that of the node it writes.
LEMMA HandlerStep ==
  ASSUME TypeOK, Sound, ~astray, ~astray', NEW w \in Workers, Handler(w) \/ HookFails(w) \/ Kill(w)
  PROVE  [Promise!Next]_(Promise!vars)
  <1>1. UNCHANGED << dag, pc, pabort, astray >>
    BY DEF Handler, Deliver, Take, End, Hook, Sweep, Dispatch, Wake, HookFails, Kill, run, history, TypeOK
  <1>2. ASSUME NEW n \in Nodes, Take(w, n) PROVE [Promise!Next]_(Promise!vars)
    <2>1. CASE n \in flag
      BY <1>1, <1>2, <2>1, Rewrite DEF Take, Write, Sound, Kids, Failures
    <2>2. CASE n \notin flag /\ status[n] = "pending"
      BY <1>1, <1>2, <2>2, StartStep DEF Take, Write, Sound, Kids, Promise!Next
    <2>3. CASE n \notin flag /\ status[n] # "pending"
      BY <1>1, <1>2, <2>3, Rest DEF Take, node
    <2> QED BY <2>1, <2>2, <2>3
  <1>3. CASE End(w)
    <2>1. PICK s \in Terminal : status' = [status EXCEPT ![on[w]] = s]
      BY <1>3 DEF End, Write, Terminal
    <2>2. on[w] \in Nodes /\ status[on[w]] = "running"
      BY <1>3 DEF End, Sound, Hands
    <2> QED BY <1>1, <2>1, <2>2, EndStep DEF Promise!Next
  <1>4. CASE Sweep(w)
    <2>1. PICK n \in todo[w].doomed : status' = [status EXCEPT ![n] = "failed"]
      BY <1>4 DEF Sweep, Own, Sound, Hands
    <2>2. n \in Nodes /\ status[n] \in {"pending"} \cup Failures
      BY DEF Sound, Hands, TypeOK
    <2>3. status[n] = "pending" => Promise!GiveUp(n)
      BY <1>1, <2>1, <2>2, GiveUpStep DEF Failures
    <2>4. status[n] \in Failures => UNCHANGED Promise!vars
      BY <1>1, <2>1, <2>2, Rewrite DEF Failures
    <2> QED BY <2>2, <2>3, <2>4 DEF Promise!Next
  <1>5. CASE Hook(w) \/ Dispatch(w) \/ Wake(w) \/ HookFails(w) \/ Kill(w)
    BY <1>1, <1>5, Rest DEF Hook, Dispatch, Wake, HookFails, Kill, children, node
  <1> QED BY <1>2, <1>3, <1>4, <1>5 DEF Handler, Deliver

\* The step that stops the parent, or with which the run goes astray, writes no
\* child and does not begin or end the gathering.
LEMMA StopStep ==
  ASSUME Inv, [Next]_vars, ~(pabort \/ astray), (pabort \/ astray)'
  PROVE  Promise!Stop
  <1>0. pabort' # pabort \/ astray' # astray
    OBVIOUS
  <1>1. AbortFlag \/ ReapParent \/ Continue \/ \E w \in Workers : Hook(w)
    <2>1. ~(FanOut \/ Handoff \/ PersistSpec \/ LoseSpec \/ Wait \/ Finish \/ Aggregate \/ Clear \/ ParentStops)
      BY <1>0 DEF FanOut, Handoff, PersistSpec, LoseSpec, Wait, Finish, Aggregate, Clear, ParentStops, history
    <2>2. ASSUME NEW w \in Workers, (\E n \in Nodes : Take(w, n)) \/ End(w) \/ Sweep(w) \/ Dispatch(w)
                                    \/ Wake(w) \/ HookFails(w) \/ Kill(w)
          PROVE  FALSE
      BY <1>0, <2>2 DEF Take, End, Sweep, Dispatch, Wake, HookFails, Kill, run, history
    <2>3. ~(AbortRead \/ AbortMark \/ AbortList \/ AbortNode \/ \E n \in Nodes : ReapChild(n))
      BY <1>0 DEF AbortRead, AbortMark, AbortList, AbortNode, ReapChild, run, history
    <2>4. ~UNCHANGED vars
      BY <1>0 DEF vars, run, history
    <2> QED BY <2>1, <2>2, <2>3, <2>4 DEF Next, Parent, Handler, Deliver, Abort, Breaks
  <1>2. UNCHANGED << dag, status >>
    BY <1>1 DEF AbortFlag, ReapParent, Continue, Hook, children
  <1>3. (pc = "clear") = (pc = "clear")'
    BY <1>1 DEF AbortFlag, ReapParent, Continue, Hook, run, Inv, Sound, Whole
  <1> QED BY <1>2, <1>3 DEF Promise!Stop

\* Whatever is written afterwards, no node is made to wait again.
LEMMA UnwindStep ==
  ASSUME TypeOK, [Next]_vars, pabort \/ astray, (pabort \/ astray)'
  PROVE  Promise!Unwind
  <1>1. dag' = dag
    BY DEF Next, Parent, Handler, Deliver, Abort, Breaks, FanOut, PersistSpec, LoseSpec, Wait, Handoff,
       Finish, Continue, Aggregate, Clear, ParentStops, ReapParent, Take, End, Hook, Sweep,
       Dispatch, Wake, HookFails, Kill, ReapChild, AbortRead, AbortFlag, AbortMark, AbortList,
       AbortNode, vars
  <1>2. ASSUME NEW n \in Nodes, status'[n] \in {"absent", "pending"}
        PROVE  status[n] \in {"absent", "pending"}
    <2>1. CASE FanOut
      BY <2>1 DEF FanOut
    <2>2. ASSUME NEW w \in Workers, NEW m \in Nodes, Take(w, m) PROVE status[n] \in {"absent", "pending"}
      BY <1>2, <2>2 DEF Take, Write, TypeOK
    <2>3. ASSUME NEW w \in Workers, End(w) PROVE status[n] \in {"absent", "pending"}
      <3>1. PICK s \in Terminal : status' = [status EXCEPT ![on[w]] = s]
        BY <2>3 DEF End, Write, Terminal
      <3> QED BY <1>2, <3>1 DEF TypeOK, Terminal
    <2>4. ASSUME NEW w \in Workers, Sweep(w) PROVE status[n] \in {"absent", "pending"}
      BY <1>2, <2>4 DEF Sweep, TypeOK
    <2>5. ASSUME NEW m \in Nodes, ReapChild(m) PROVE status[n] \in {"absent", "pending"}
      BY <1>2, <2>5 DEF ReapChild, Write, TypeOK
    <2>6. CASE AbortNode
      BY <1>2, <2>6 DEF AbortNode, TypeOK
    <2>7. CASE status' = status
      BY <1>2, <2>7
    <2>8. status' = status \/ FanOut \/ AbortNode
          \/ (\E w \in Workers : (\E m \in Nodes : Take(w, m)) \/ End(w) \/ Sweep(w))
          \/ (\E m \in Nodes : ReapChild(m))
      BY DEF Next, Parent, Handler, Deliver, Abort, Breaks, PersistSpec, LoseSpec, Wait, Handoff,
         Finish, Continue, Aggregate, Clear, ParentStops, ReapParent, Hook, Dispatch, Wake,
         HookFails, Kill, AbortRead, AbortFlag, AbortMark, AbortList, vars, children
    <2> QED BY <2>1, <2>2, <2>3, <2>4, <2>5, <2>6, <2>7, <2>8
  <1>3. \A n \in Nodes : node'[n] = "waiting" => status'[n] \in {"absent", "pending"}
    <2>1. TypeOK'
      BY NextType
    <2> QED BY <2>1, NodeIs DEF node, TypeOK, NodeStatuses, Terminal
  <1>4. \A n \in Nodes : node'[n] = "waiting" => node[n] = "waiting"
    BY <1>2, <1>3, NodeIs DEF node
  <1> QED BY <1>1, <1>4 DEF Promise!Unwind, node

LEMMA NextStep ==
  ASSUME Inv, [Next]_vars
  PROVE  [Promise!Next]_(Promise!vars)
  <1>1. CASE pabort \/ astray
    BY <1>1, AbortStays, UnwindStep DEF Inv, Promise!Next
  <1>2. CASE ~(pabort \/ astray) /\ (pabort \/ astray)'
    BY <1>2, StopStep DEF Promise!Next
  <1>3. CASE ~(pabort \/ astray) /\ ~(pabort \/ astray)'
    <2>1. TypeOK /\ OneRunner /\ Flagged /\ Sound
      BY <1>3 DEF Inv
    <2>2. CASE FanOut
      <3>1. \A n \in Nodes : Node(status[n]) = "waiting" /\ Node(status'[n]) = "waiting"
        BY <2>2, NodeIs DEF FanOut
      <3>2. node' = node
        BY <3>1 DEF node
      <3> QED BY <2>2, <3>2, Rest DEF FanOut, history
    <2>3. CASE \/ PersistSpec \/ LoseSpec \/ Wait \/ Handoff \/ Finish \/ Continue \/ Aggregate
               \/ Clear \/ ParentStops \/ ReapParent
      BY <1>3, <2>1, <2>3, ParentStep
    <2>4. ASSUME NEW w \in Workers, Handler(w) \/ HookFails(w) \/ Kill(w)
          PROVE  [Promise!Next]_(Promise!vars)
      BY <1>3, <2>1, <2>4, HandlerStep
    <2>5. ASSUME NEW n \in Nodes, ReapChild(n) PROVE [Promise!Next]_(Promise!vars)
      <3>1. /\ status' = [status EXCEPT ![n] = "aborted"]
            /\ UNCHANGED << dag, pc, pabort, astray >>
            /\ status[n] \in {"pending", "running"}
        BY <2>5 DEF ReapChild, Write, run, history
      <3>2. "aborted" \in Failures /\ "aborted" \in Terminal
        BY DEF Failures, Terminal
      <3>3. Promise!GiveUp(n) \/ Promise!End(n)
        BY <2>1, <3>1, <3>2, GiveUpStep, EndStep
      <3> QED BY <3>3 DEF Promise!Next
    <2>6. CASE Abort
      <3>1. UNCHANGED << dag, status, pc >>
        BY <1>3, <2>1, <2>6, AbortSound
      <3>2. (pabort \/ astray)' = (pabort \/ astray)
        BY <1>3
      <3> QED BY <3>1, <3>2, Rest DEF node
    <2>7. CASE UNCHANGED vars
      BY <2>7, Rest DEF vars, children, run, history, node
    <2> QED BY <2>2, <2>3, <2>4, <2>5, <2>6, <2>7 DEF Next, Parent, Breaks
  <1> QED BY <1>1, <1>2, <1>3

\* A fan-out keeps its promise for any decomposition, however its hooks, claims,
\* kills, sweeps and failures meet: a child starts after what it depends on, ends
\* for good, and the results are gathered when all have ended.  It does so until
\* the parent is aborted, a continuation is delivered again, or a hook meets names
\* of an earlier decomposition or has to sweep a node that may fail alone; from
\* then on it still makes no node wait again.
THEOREM PromiseKept == Spec => KeepsPromise
  <1>1. Init => Promise!Init
    BY NodeIs DEF Init, Promise!Init
  <1>2. Inv /\ [Next]_vars => [Promise!Next]_(Promise!vars)
    BY NextStep
  <1> QED BY Invariance, <1>1, <1>2, PTL DEF Spec, KeepsPromise, Promise!Spec
=============================================================================
