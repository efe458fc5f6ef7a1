------------------------------- MODULE Handoff -------------------------------
(***************************************************************************)
(* What the API promises its clients and the queue, without threads, S3 or *)
(* a publish marker: orders are placed for registered jobs only, each      *)
(* client places at most one order per job that it is sure of, and who is  *)
(* told that a job was accepted has an order behind the answer.            *)
(*                                                                         *)
(* An order is placed when its request leaves the process.  One that the   *)
(* caller is not sure of may arrive later, even after a restart, or never. *)
(***************************************************************************)

CONSTANTS
  Job,     \* jobs that may be registered
  Caller,  \* who validates; one request at a time each
  Order,   \* ids of orders
  None     \* "told nothing"

VARIABLES
  stage,   \* what the service knows of each job
  orders,  \* the orders ever placed
  told     \* the job each client was last told is accepted, or None

vars == <<stage, orders, told>>

Init ==
  /\ stage = [j \in Job |-> "unknown"]
  /\ orders = {}
  /\ told = [c \in Caller |-> None]

Register(j) ==
  /\ stage[j] = "unknown"
  /\ stage' = [stage EXCEPT ![j] = "registered"]
  /\ UNCHANGED <<orders, told>>

(* The jobs of one process life; a restart loses them for good. *)
Restart ==
  /\ stage' = [j \in Job |-> IF stage[j] = "registered" THEN "forgotten" ELSE stage[j]]
  /\ UNCHANGED <<orders, told>>

Sure(j, c) == {o \in orders : o.sure /\ o.job = j /\ o.caller = c}

Place(id, j, c, sure) ==
  /\ stage[j] = "registered"
  /\ \A o \in orders : o.id # id
  /\ sure => Sure(j, c) = {}
  /\ orders' = orders \cup {[id |-> id, job |-> j, caller |-> c, sure |-> sure]}
  /\ UNCHANGED <<stage, told>>

Tell(c, j) ==
  /\ stage[j] = "registered"
  /\ \E d \in Caller : Sure(j, d) # {}
  /\ told' = [told EXCEPT ![c] = j]
  /\ UNCHANGED <<stage, orders>>

(* The client asks again. *)
Ask(c) ==
  /\ told' = [told EXCEPT ![c] = None]
  /\ UNCHANGED <<stage, orders>>

Next ==
  \/ \E j \in Job : Register(j)
  \/ Restart
  \/ \E id \in Order, j \in Job, c \in Caller, sure \in BOOLEAN : Place(id, j, c, sure)
  \/ \E c \in Caller, j \in Job : Tell(c, j)
  \/ \E c \in Caller : Ask(c)

Spec == Init /\ [][Next]_vars
=============================================================================
