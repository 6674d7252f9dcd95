---------------------------- MODULE NodeContract ----------------------------
(***************************************************************************)
(* What Workflow relies on when it awaits execute_node for each node of a  *)
(* level: a node is executed once, ends in one of three ways and keeps     *)
(* that end, and raises only where the failure policy or a broken context  *)
(* store lets it.  Workflow's NodeStart and NodeEnd are these steps;       *)
(* NodeExecutor implements them.                                           *)
(***************************************************************************)
CONSTANT Nodes

VARIABLES
  node,       \* idle, running, ok, failed (success=False) or raised
  mayRaise    \* policy HALT, or a context store that can fail

vars == <<node, mayRaise>>

Init == node = [n \in Nodes |-> "idle"] /\ mayRaise \in BOOLEAN

Start(n) ==
  /\ node[n] = "idle"
  /\ node' = [node EXCEPT ![n] = "running"]
  /\ UNCHANGED mayRaise

(* A node may end at once: when it is invalid it is never run. *)
End(n) ==
  /\ node[n] \in {"idle", "running"}
  /\ \/ \E outcome \in {"ok", "failed"} : node' = [node EXCEPT ![n] = outcome]
     \/ mayRaise /\ node' = [node EXCEPT ![n] = "raised"]
  /\ UNCHANGED mayRaise

Next == \E n \in Nodes : Start(n) \/ End(n)

Spec == Init /\ [][Next]_vars
=============================================================================
