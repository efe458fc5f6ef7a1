------------------------------- MODULE Service -------------------------------
(***************************************************************************)
(* What the API and the workers promise together: an order of Handoff is   *)
(* executed, possibly several times, and leaves the queue either           *)
(* acknowledged, which takes an execution, or buried in the dead-letter    *)
(* queue.                                                                  *)
(***************************************************************************)
EXTENDS Handoff

VARIABLES
  executed,  \* ids of orders whose work was finished at least once
  settled    \* how each order left the queue, or "open"

serviceVars == <<stage, orders, told, executed, settled>>

ServiceInit ==
  /\ Init
  /\ executed = {}
  /\ settled = [id \in Order |-> "open"]

Placed(id) == \E o \in orders : o.id = id

(* At least once: also again, and also after it was settled. *)
Execute(id) ==
  /\ Placed(id)
  /\ executed' = executed \cup {id}
  /\ UNCHANGED <<vars, settled>>

Settle(id, how) ==
  /\ Placed(id) /\ settled[id] = "open"
  /\ how = "acknowledged" => id \in executed
  /\ settled' = [settled EXCEPT ![id] = how]
  /\ UNCHANGED <<vars, executed>>

ServiceNext ==
  \/ Next /\ UNCHANGED <<executed, settled>>
  \/ \E id \in Order : Execute(id) \/ \E how \in {"acknowledged", "buried"} : Settle(id, how)

ServiceSpec == ServiceInit /\ [][ServiceNext]_serviceVars
=============================================================================
