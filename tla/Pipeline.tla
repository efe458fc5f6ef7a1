------------------------------ MODULE Pipeline ------------------------------
(***************************************************************************)
(* The whole service: the API process of Intake and the worker processes   *)
(* of Worker.  They share nothing but the queue: SendMessage of the one    *)
(* makes the message visible to the other, under the id of its envelope.   *)
(***************************************************************************)
EXTENDS Intake

CONSTANTS Process, MaxReceive, MaxStops

ASSUME PipelineAssumption == MaxReceive \in Nat \ {0} /\ MaxStops \in Nat

VARIABLES place, receives, wpc, running, held, receipt, stops, started, done

E == INSTANCE Envelope

(* _publish_process_dataset sends what build_process_dataset_message built. *)
Body == [id \in MessageId |-> E!Build]

W == INSTANCE Worker WITH Message <- MessageId, pc <- wpc

(* All but the place of the messages, which both sides write. *)
consumerVars == <<receives, wpc, running, held, receipt, stops, started, done>>
allVars == <<vars, place, consumerVars>>

PipelineInit == Init /\ W!Init

(* A step of the API; a command that SQS accepts appears in the queue. *)
Api ==
  /\ Next
  /\ place' = [id \in MessageId |->
       IF \E m \in sent' \ sent : m.message_id = id THEN "visible" ELSE place[id]]
  /\ UNCHANGED consumerVars

Consumer == W!Consume /\ UNCHANGED vars

PipelineNext == Api \/ Consumer

PipelineSpec == PipelineInit /\ [][PipelineNext]_allVars

-----------------------------------------------------------------------------
(* What the service promises end to end. *)

InQueue(id) == place[id] \in {"visible", "hidden", "dead"}
Done(id) == \E r \in 1..MaxReceive : <<id, r>> \in done

(* What a client was told, and what the registry says, stays true on the     *)
(* far side of the queue: a confirmed command of the job is still there, in  *)
(* the dead-letter queue, or was finished by a processor - across restarts   *)
(* of the API, deaths of workers, redeliveries and outdated deletes.         *)
AcceptedNotLost ==
  \A j \in Job :
    \/ \E t \in Thread : reply[t] = "VALIDATED" /\ target[t] = j
    \/ Known(j) /\ registry[j].message_published
    => \E m \in sent : /\ m.confirmed /\ m.job_id = j
                       /\ InQueue(m.message_id) \/ Done(m.message_id)

(* No processor ever runs for bytes that break a rule: every delivery it is  *)
(* handed goes back to a command whose bytes were judged acceptable.         *)
ProcessedIsAcceptable ==
  \A d \in started : \E m \in sent : m.message_id = d[1] /\ Acceptable(m.judged)

(* At-least-once has a limit: the commands that publishers know of make a    *)
(* job run at most once per receive and per API thread, over any number of   *)
(* validate requests, failed deletes and restarts.  A delivery counts once   *)
(* here because it runs at most once (RunsOncePerDelivery); a command whose  *)
(* confirmation was lost, and what botocore sent before it, is not counted.  *)
RepetitionBounded ==
  \A j \in Job :
    Cardinality({d \in started : \E m \in sent : /\ m.confirmed /\ m.job_id = j
                                                 /\ m.message_id = d[1]})
      <= MaxReceive * Cardinality(Thread)

(* API and workers as Service has them. *)
Executed == {id \in MessageId : Done(id)}
Outcome ==
  [id \in MessageId |-> IF place[id] = "deleted" THEN "acknowledged"
                        ELSE IF place[id] = "dead" THEN "buried" ELSE "open"]

S == INSTANCE Service
       WITH Caller <- Thread, Order <- MessageId, stage <- Stage, orders <- Orders,
            told <- Told, executed <- Executed, settled <- Outcome

(* Together they implement Service: an order is acknowledged only after it   *)
(* was executed, and only orders of registered jobs are ever executed, in    *)
(* spite of everything that either side does meanwhile.                      *)
RefinesService == S!ServiceSpec
=============================================================================
