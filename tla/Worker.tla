------------------------------- MODULE Worker -------------------------------
(***************************************************************************)
(* The worker processes (app/worker/service.py, app/worker/main.py): each  *)
(* polls the job queue, parses the envelope, runs the processor, and       *)
(* deletes the message only after the processor returned.                  *)
(*                                                                         *)
(* Every call to SQS or to the processor is one action.  A signal or the   *)
(* death of the process may come between any two of them.                  *)
(***************************************************************************)
EXTENDS JobQueue, Envelope

CONSTANTS
  Process,    \* worker processes that poll the queue
  Body,       \* the body of each message
  MaxStops,   \* bound: signals and kills in a behaviour
  None        \* "no message held"

ASSUME WorkerAssumption ==
  /\ Body \in [Message -> RawBody]
  /\ MaxStops \in Nat
  /\ None \notin Message

(* What handle_received_message does with a body. *)
Understood == {m \in Message : Parse(Body[m]) = "accepted"}
Malformed  == {m \in Message : Parse(Body[m]) = "ValidationError"}

VARIABLES
  pc,       \* where each process is in WorkerService.run
  running,  \* WorkerService._running
  held,     \* the message of the delivery in hand
  receipt,  \* and its receipt handle
  stops,    \* signals and kills so far
  started,  \* history: deliveries handed to the processor
  done      \* history: deliveries whose processor returned

workerVars == <<pc, running, held, receipt>>
history    == <<started, done>>
vars       == <<place, receives, pc, running, held, receipt, stops, started, done>>

PC == {"loop", "receive", "dispatch", "handle", "process", "delete", "stopped",
       "exited"}

Delivery == Message \X (1..MaxReceive)

(* The delivery in hand. *)
InHand(w) == <<held[w], receipt[w]>>
Holding(w) == pc[w] \in {"dispatch", "handle", "process", "delete"}

TypeOK ==
  /\ QueueTypeOK
  /\ pc      \in [Process -> PC]
  /\ running \in [Process -> BOOLEAN]
  /\ held    \in [Process -> Message \cup {None}]
  /\ \A w \in Process : held[w] # None <=> Holding(w)
  /\ receipt \in [Process -> 0..MaxReceive]
  /\ stops   \in 0..MaxStops
  /\ started \in SUBSET Delivery
  /\ done    \in SUBSET Delivery

Init ==
  /\ QueueInit
  /\ pc      = [w \in Process |-> "loop"]
  /\ running = [w \in Process |-> TRUE]
  /\ held    = [w \in Process |-> None]
  /\ receipt = [w \in Process |-> 0]
  /\ stops   = 0
  /\ started = {}
  /\ done    = {}

-----------------------------------------------------------------------------
(* WorkerService.run *)

Goto(w, label) == pc' = [pc EXCEPT ![w] = label]

(* Faulty: the delivery stays in hand. *)
DropNothing(w, label) == Goto(w, label) /\ UNCHANGED <<held, receipt>>

(* The delivery is dropped from hand; whether it stays in the queue is up   *)
(* to the queue.                                                            *)
Drop(w, label) ==
  /\ Goto(w, label)
  /\ held' = [held EXCEPT ![w] = None]
  /\ receipt' = [receipt EXCEPT ![w] = 0]

(* Faulty: the loop condition is not read again. *)
PollForever(w) ==
  /\ pc[w] = "loop"
  /\ Goto(w, "receive")
  /\ UNCHANGED <<queueVars, running, held, receipt, stops, history>>

(* while self._running *)
LoopTop(w) ==
  /\ pc[w] = "loop"
  /\ Goto(w, IF running[w] THEN "receive" ELSE "stopped")
  /\ UNCHANGED <<queueVars, running, held, receipt, stops, history>>

Receive(w, m) ==
  /\ pc[w] = "receive"
  /\ ReceiveMessage(m)
  /\ Goto(w, "dispatch")
  /\ held' = [held EXCEPT ![w] = m]
  /\ receipt' = [receipt EXCEPT ![w] = receives'[m]]
  /\ UNCHANGED <<running, stops, history>>

(* An empty long poll, or SQSUnavailableError: back to the loop. *)
ReceiveNothing(w) ==
  /\ pc[w] = "receive"
  /\ Goto(w, "loop")
  /\ UNCHANGED <<queueVars, running, held, receipt, stops, history>>

(* SQS hid the message, but its response did not arrive. *)
ReceiveLost(w, m) ==
  /\ pc[w] = "receive"
  /\ ReceiveMessage(m)
  /\ Goto(w, "loop")
  /\ UNCHANGED <<running, held, receipt, stops, history>>

(* SQSAccessDeniedError is not caught: the process ends. *)
ReceiveDenied(w) ==
  /\ pc[w] = "receive"
  /\ Goto(w, "exited")
  /\ UNCHANGED <<queueVars, running, held, receipt, stops, history>>

-----------------------------------------------------------------------------
(* The batch, and handle_received_message.  _running is read once for each   *)
(* message of the batch and not again before the processor is called.        *)

(* The batch is left alone when a signal came during the long poll. *)
Abandon(w) ==
  /\ pc[w] = "dispatch"
  /\ ~running[w]
  /\ Drop(w, "loop")
  /\ UNCHANGED <<queueVars, running, stops, history>>

(* Faulty: the whole batch is handled, signal or not. *)
HandleRegardless(w) ==
  /\ pc[w] = "dispatch"
  /\ Goto(w, "handle")
  /\ UNCHANGED <<queueVars, running, held, receipt, stops, history>>

BeginHandling(w) ==
  /\ pc[w] = "dispatch"
  /\ running[w]
  /\ Goto(w, "handle")
  /\ UNCHANGED <<queueVars, running, held, receipt, stops, history>>

(* Faulty: a malformed message is acknowledged to be rid of it. *)
DiscardMalformed(w) ==
  /\ pc[w] = "handle" /\ held[w] \in Malformed
  /\ Goto(w, "delete")
  /\ UNCHANGED <<queueVars, running, held, receipt, stops, history>>

(* Faulty: a malformed message is parsed again and again. *)
ReparseMalformed(w) ==
  /\ pc[w] = "handle" /\ held[w] \in Malformed
  /\ UNCHANGED vars

(* ValidationError: neither processed nor deleted. *)
RefuseMalformed(w) ==
  /\ pc[w] = "handle" /\ held[w] \in Malformed
  /\ Drop(w, "loop")
  /\ UNCHANGED <<queueVars, running, stops, history>>

(* OverflowError, which `except ValidationError` lets pass: process ends. *)
ParseEscapes(w) ==
  /\ pc[w] = "handle" /\ held[w] \notin Understood \cup Malformed
  /\ Drop(w, "exited")
  /\ UNCHANGED <<queueVars, running, stops, history>>

StartProcessing(w) ==
  /\ pc[w] = "handle" /\ held[w] \in Understood
  /\ Goto(w, "process")
  /\ started' = started \cup {InHand(w)}
  /\ UNCHANGED <<queueVars, running, held, receipt, stops, done>>

ProcessingSucceeds(w) ==
  /\ pc[w] = "process"
  /\ Goto(w, "delete")
  /\ done' = done \cup {InHand(w)}
  /\ UNCHANGED <<queueVars, running, held, receipt, stops, started>>

(* Faulty: the delete runs whether or not the processor raised. *)
FailureAcknowledged(w) ==
  /\ pc[w] = "process"
  /\ Goto(w, "delete")
  /\ UNCHANGED <<queueVars, running, held, receipt, stops, history>>

(* Any exception of the processor, an unsupported message type included. *)
ProcessingFails(w) ==
  /\ pc[w] = "process"
  /\ Drop(w, "loop")
  /\ UNCHANGED <<queueVars, running, stops, history>>

DeleteSucceeds(w) ==
  /\ pc[w] = "delete"
  /\ DeleteMessage(held[w], receipt[w])
  /\ Drop(w, "loop")
  /\ UNCHANGED <<running, stops, started, done>>

(* Faulty: after a failed delete the delivery in hand is handled again. *)
DeleteRetriedFromScratch(w) ==
  /\ pc[w] = "delete"
  /\ DeleteMessage(held[w], receipt[w]) \/ UNCHANGED queueVars
  /\ Goto(w, "dispatch")
  /\ UNCHANGED <<running, held, receipt, stops, history>>

(* SQSUnavailableError is swallowed; SQS may have deleted all the same. *)
DeleteUnavailable(w) ==
  /\ pc[w] = "delete"
  /\ DeleteMessage(held[w], receipt[w]) \/ UNCHANGED queueVars
  /\ Drop(w, "loop")
  /\ UNCHANGED <<running, stops, history>>

(* SQSAccessDeniedError is not caught: the process ends. *)
DeleteDenied(w) ==
  /\ pc[w] = "delete"
  /\ Drop(w, "exited")
  /\ UNCHANGED <<queueVars, running, stops, history>>

-----------------------------------------------------------------------------
(* The process: SIGTERM or SIGINT, sudden death, and a new start. *)

Alive(w) == pc[w] \notin {"stopped", "exited"}

RequestShutdown(w) ==
  /\ Alive(w) /\ running[w]
  /\ stops < MaxStops
  /\ stops' = stops + 1
  /\ running' = [running EXCEPT ![w] = FALSE]
  /\ UNCHANGED <<queueVars, pc, held, receipt, history>>

Kill(w) ==
  /\ Alive(w)
  /\ stops < MaxStops
  /\ stops' = stops + 1
  /\ Drop(w, "exited")
  /\ UNCHANGED <<queueVars, running, history>>

Start(w) ==
  /\ ~Alive(w)
  /\ Goto(w, "loop")
  /\ running' = [running EXCEPT ![w] = TRUE]
  /\ UNCHANGED <<queueVars, held, receipt, stops, history>>

-----------------------------------------------------------------------------

Publish(m) ==
  /\ SendMessage(m)
  /\ UNCHANGED <<workerVars, stops, history>>

Sqs(m) ==
  /\ VisibilityTimeout(m) \/ Redrive(m)
  /\ UNCHANGED <<workerVars, stops, history>>

Run(w) ==
  \/ LoopTop(w)
  \/ \E m \in Message : Receive(w, m) \/ ReceiveLost(w, m)
  \/ ReceiveNothing(w)
  \/ ReceiveDenied(w)
  \/ Abandon(w)
  \/ BeginHandling(w)
  \/ RefuseMalformed(w)
  \/ ParseEscapes(w)
  \/ StartProcessing(w)
  \/ ProcessingSucceeds(w)
  \/ ProcessingFails(w)
  \/ DeleteSucceeds(w)
  \/ DeleteUnavailable(w)
  \/ DeleteDenied(w)

(* All that happens to messages once they are in the queue. *)
Consume ==
  \/ \E m \in Message : Sqs(m)
  \/ \E w \in Process : Run(w) \/ RequestShutdown(w) \/ Kill(w) \/ Start(w)

Next == Consume \/ \E m \in Message : Publish(m)

Spec == Init /\ [][Next]_vars

(* Calls return, timeouts expire, a dead process is started again, and a    *)
(* message that stays receivable is received some day.  Which way a call    *)
(* returns is not constrained.                                              *)
Fairness ==
  /\ \A w \in Process : WF_vars(Run(w)) /\ WF_vars(Start(w))
  /\ \A m \in Message :
       /\ WF_vars(VisibilityTimeout(m) /\ UNCHANGED <<workerVars, stops, history>>)
       /\ WF_vars(Redrive(m) /\ UNCHANGED <<workerVars, stops, history>>)
       /\ SF_vars(\E w \in Process : Receive(w, m))

FairSpec == Spec /\ Fairness

-----------------------------------------------------------------------------
(* What the worker promises. *)

(* A message leaves the queue only after a processor returned normally for   *)
(* some delivery of it: no crash, signal, failed delete or outdated receipt  *)
(* handle destroys the record of work that was never completed (service.py,  *)
(* "why the order can never be inverted").                                   *)
AckedAfterWork ==
  \A m \in Message : place[m] = "deleted" => \E r \in 1..MaxReceive : <<m, r>> \in done

(* A body that breaks the contract never reaches the processor and is never  *)
(* deleted, not even when parsing it ends the process: the dead-letter       *)
(* queue, where it is to be inspected, is its only way out.                  *)
MalformedKept ==
  \A m \in Message \ Understood :
    place[m] # "deleted" /\ \A r \in 1..MaxReceive : <<m, r>> \notin started

(* No delivery is handed to a processor twice, by one process or by two, so  *)
(* a message is executed at most once per receive: a duplicate execution     *)
(* always stems from a redelivery (the at-least-once contract of sqs.py).    *)
RunsOncePerDelivery ==
  [][\A w \in Process :
       pc[w] # "process" /\ pc'[w] = "process" => InHand(w) \notin started]_vars

(* A process that was told to stop takes up no further delivery, whatever it  *)
(* had asked the queue for when the signal came; only the delivery that it    *)
(* had begun to handle by then may still be started and finished              *)
(* (request_shutdown: no new messages after the current cycle).               *)
Engaged(label) == label \in {"handle", "process", "delete"}

ShutdownStartsNothing ==
  [][\A w \in Process : ~running[w] /\ Engaged(pc'[w]) => Engaged(pc[w])]_vars

(* Own steps that separate each point of run from its end, once it is told.  *)
StepsLeft ==
  [receive |-> 3, dispatch |-> 2, handle |-> 4, process |-> 3, delete |-> 2,
   loop |-> 1, stopped |-> 0, exited |-> 0]

(* From wherever the signal finds it, a process is at most four of its own   *)
(* steps away from its end: the parse, the processor and the delete of the   *)
(* message it is handling, and the look at _running.  Neither an exception   *)
(* on the way, nor a redelivery, nor another process takes it further away.  *)
ShutdownBounded ==
  [][\A w \in Process :
       ~running[w] /\ Alive(w) /\ pc'[w] # pc[w] =>
         StepsLeft[pc'[w]] < StepsLeft[pc[w]]]_vars

(* It also comes to rest, instead of polling on.                             *)
ShutdownCompletes ==
  \A w \in Process : ~running[w] ~> ~Alive(w)

(* Every message that is sent ends up acknowledged or in the dead-letter     *)
(* queue: neither a malformed body, nor one that ends its process, nor a     *)
(* processor that keeps failing, nor failed receives and deletes leave it    *)
(* circulating or hidden for ever.                                           *)
EveryMessageSettles ==
  \A m \in Message : place[m] # "absent" ~> place[m] \in {"deleted", "dead"}

-----------------------------------------------------------------------------
(* What the documentation says and the code does not keep. *)

(* service.py, run: a message left in hand at shutdown becomes available for *)
(* another process after its visibility timeout, so it is received again.    *)
AbandonedIsOffered ==
  \A w \in Process : \A m \in Message : \A r \in 1..MaxReceive :
    pc[w] = "dispatch" /\ ~running[w] /\ InHand(w) = <<m, r>> ~> receives[m] > r

(* service.py, handle_received_message: malformed messages are handled       *)
(* without terminating the worker.                                           *)
MalformedEndsNoProcess ==
  [][\A w \in Process :
       pc[w] = "handle" /\ held[w] \notin Understood /\ pc'[w] = "exited" =>
         stops' # stops]_vars
=============================================================================
