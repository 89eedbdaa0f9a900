------------------------------ MODULE ForkJoin ------------------------------
(***************************************************************************)
(* What a decomposed task promises: a node starts only when what it        *)
(* depends on has ended well enough, ends for good, and the results are    *)
(* gathered only when every node has ended.  Once the whole is stopped, or *)
(* has lost count, its nodes end in any order, but none is made to wait    *)
(* again.                                                                  *)
(***************************************************************************)
CONSTANT Nodes

VARIABLES
  dag,      \* [deps, isolate]: what each node waits for, and the nodes whose
            \* failure does not stop those that wait for them
  node,     \* each node: waiting, started, ok or bad
  joining,  \* the results are being gathered
  stopped

vars == << dag, node, joining, stopped >>

Init ==
  /\ node = [n \in Nodes |-> "waiting"]
  /\ joining = FALSE /\ stopped = FALSE

Ended(n) == node[n] \in {"ok", "bad"}
Satisfied(n) == node[n] = "ok" \/ (node[n] = "bad" /\ n \in dag.isolate)

Start(n) ==
  /\ node[n] = "waiting"
  /\ \A d \in dag.deps[n] : Satisfied(d)
  /\ node' = [node EXCEPT ![n] = "started"]
  /\ UNCHANGED << dag, joining, stopped >>

GiveUp(n) ==
  /\ node[n] = "waiting"
  /\ node' = [node EXCEPT ![n] = "bad"]
  /\ UNCHANGED << dag, joining, stopped >>

End(n) ==
  /\ node[n] = "started"
  /\ \E e \in {"ok", "bad"} : node' = [node EXCEPT ![n] = e]
  /\ UNCHANGED << dag, joining, stopped >>

Join ==
  /\ ~joining /\ joining'
  /\ \A n \in Nodes : Ended(n)
  /\ UNCHANGED << dag, node, stopped >>

Leave == joining /\ ~joining' /\ UNCHANGED << dag, node, stopped >>

Stop == stopped' /\ UNCHANGED << dag, node, joining >>

Unwind ==
  /\ stopped /\ stopped' /\ UNCHANGED dag
  /\ \A n \in Nodes : node'[n] = "waiting" => node[n] = "waiting"

Next == Join \/ Leave \/ Stop \/ Unwind \/ \E n \in Nodes : Start(n) \/ GiveUp(n) \/ End(n)

Spec == Init /\ [][Next]_vars
=============================================================================
