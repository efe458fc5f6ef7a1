------------------------------ MODULE JobQueue ------------------------------
(***************************************************************************)
(* The SQS queue between the API and the worker, and its dead-letter       *)
(* queue: external, modelled from what app/infrastructure/sqs.py asks of   *)
(* it and from the delivery semantics that file lists.                     *)
(*                                                                         *)
(* There is no clock: a visibility timeout may expire at any time after    *)
(* the receive.  A receipt handle is the number of the delivery it was     *)
(* issued for, so the latest handle of m is receives[m].                   *)
(***************************************************************************)
EXTENDS Naturals

CONSTANTS
  Message,    \* the messages that are ever sent
  MaxReceive  \* maxReceiveCount of the redrive policy

ASSUME JobQueueAssumption == MaxReceive \in Nat \ {0}

VARIABLES
  place,    \* where each message is
  receives  \* how often it was received

queueVars == <<place, receives>>

Place == {"absent", "visible", "hidden", "deleted", "dead"}

QueueTypeOK ==
  /\ place    \in [Message -> Place]
  /\ receives \in [Message -> 0..MaxReceive]

QueueInit ==
  /\ place    = [m \in Message |-> "absent"]
  /\ receives = [m \in Message |-> 0]

SendMessage(m) ==
  /\ place[m] = "absent"
  /\ place' = [place EXCEPT ![m] = "visible"]
  /\ UNCHANGED receives

(* A receive only hides the message; it issues a fresh receipt handle. *)
ReceiveMessage(m) ==
  /\ place[m] = "visible"
  /\ receives[m] < MaxReceive
  /\ place' = [place EXCEPT ![m] = "hidden"]
  /\ receives' = [receives EXCEPT ![m] = @ + 1]

VisibilityTimeout(m) ==
  /\ place[m] = "hidden"
  /\ place' = [place EXCEPT ![m] = "visible"]
  /\ UNCHANGED receives

(* Instead of a receive beyond the limit, SQS moves it to the DLQ. *)
Redrive(m) ==
  /\ place[m] = "visible"
  /\ receives[m] = MaxReceive
  /\ place' = [place EXCEPT ![m] = "dead"]
  /\ UNCHANGED receives

(* DeleteMessage succeeds with an outdated receipt handle as well, but then *)
(* it may leave the message in the queue.                                   *)
DeleteMessage(m, receipt) ==
  /\ \/ /\ place[m] \in {"visible", "hidden"}
        /\ place' = [place EXCEPT ![m] = "deleted"]
     \/ /\ place[m] \in {"deleted", "dead"} \/ receipt # receives[m]
        /\ UNCHANGED place
  /\ UNCHANGED receives
=============================================================================
