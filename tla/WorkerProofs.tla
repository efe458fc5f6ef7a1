---------------------------- MODULE WorkerProofs ----------------------------
(* Proofs, for any set of messages and processes and any maxReceiveCount,    *)
(* that the worker acknowledges only finished work and runs no delivery      *)
(* twice.                                                                    *)
EXTENDS Worker, TLAPS

-----------------------------------------------------------------------------
(* The inductive invariant: AckedAfterWork and MalformedKept, and what is    *)
(* known of the deliveries in hand and in the history.                       *)

(* A receipt handle in hand was issued by a receive of that message.         *)
ReceiptIssued ==
  \A w \in Process : Holding(w) => receipt[w] \in 1..receives[held[w]]

(* No two processes hold the same delivery of a message.                     *)
SoleHolder ==
  \A v, w \in Process : Holding(v) /\ Holding(w) /\ InHand(v) = InHand(w) => v = w

(* Deliveries that reached a processor were received before.                 *)
StartedIssued ==
  \A m \in Message : \A r \in 1..MaxReceive : <<m, r>> \in started => r <= receives[m]

(* A delivery that was not yet given to a processor never was.               *)
FreshInHand ==
  \A w \in Process : pc[w] \in {"dispatch", "handle"} => InHand(w) \notin started

(* Only a delivery whose processor returned is about to be deleted.          *)
DoneBeforeDelete ==
  \A w \in Process : pc[w] = "delete" => InHand(w) \in done

(* Only well-formed messages get past the dispatch.                          *)
WellFormedInHand ==
  \A w \in Process : pc[w] \in {"process", "delete"} => held[w] \in Understood

IInv ==
  /\ TypeOK
  /\ ReceiptIssued
  /\ SoleHolder
  /\ StartedIssued
  /\ FreshInHand
  /\ DoneBeforeDelete
  /\ WellFormedInHand
  /\ AckedAfterWork
  /\ MalformedKept

-----------------------------------------------------------------------------
(* Every action preserves the inductive invariant. *)

LEMMA PublishStep ==
  ASSUME IInv, NEW m \in Message, Publish(m)
  PROVE  IInv'
<1> USE DEF IInv, Publish, SendMessage, workerVars, history, Holding, InHand
<1>1. TypeOK'
  BY JobQueueAssumption, WorkerAssumption DEF TypeOK, QueueTypeOK, Place
<1>2. AckedAfterWork' /\ MalformedKept'
  BY WorkerAssumption DEF TypeOK, QueueTypeOK, AckedAfterWork, MalformedKept
<1>3. ReceiptIssued' /\ SoleHolder' /\ StartedIssued' /\ FreshInHand'
      /\ DoneBeforeDelete' /\ WellFormedInHand'
  BY DEF ReceiptIssued, SoleHolder, StartedIssued, FreshInHand,
         DoneBeforeDelete, WellFormedInHand
<1> QED
  BY <1>1, <1>2, <1>3

LEMMA SqsStep ==
  ASSUME IInv, NEW m \in Message, Sqs(m)
  PROVE  IInv'
<1> USE DEF IInv, Sqs, VisibilityTimeout, Redrive, workerVars, history, Holding, InHand
<1>1. TypeOK'
  BY JobQueueAssumption, WorkerAssumption DEF TypeOK, QueueTypeOK, Place
<1>2. AckedAfterWork' /\ MalformedKept'
  BY WorkerAssumption DEF TypeOK, QueueTypeOK, AckedAfterWork, MalformedKept
<1>3. ReceiptIssued' /\ SoleHolder' /\ StartedIssued' /\ FreshInHand'
      /\ DoneBeforeDelete' /\ WellFormedInHand'
  BY DEF ReceiptIssued, SoleHolder, StartedIssued, FreshInHand,
         DoneBeforeDelete, WellFormedInHand
<1> QED
  BY <1>1, <1>2, <1>3

LEMMA LoopTopStep ==
  ASSUME IInv, NEW w \in Process, LoopTop(w)
  PROVE  IInv'
<1> USE DEF IInv, LoopTop, queueVars, history, Goto, Holding, InHand
<1>1. TypeOK'
  BY JobQueueAssumption, WorkerAssumption DEF TypeOK, QueueTypeOK, PC
<1>2. ReceiptIssued' /\ SoleHolder' /\ FreshInHand' /\ DoneBeforeDelete'
      /\ WellFormedInHand'
  BY DEF TypeOK, QueueTypeOK, ReceiptIssued, SoleHolder, FreshInHand,
         DoneBeforeDelete, WellFormedInHand
<1>3. StartedIssued' /\ AckedAfterWork' /\ MalformedKept'
  BY DEF StartedIssued, AckedAfterWork, MalformedKept
<1> QED
  BY <1>1, <1>2, <1>3

LEMMA ReceiveStep ==
  ASSUME IInv, NEW w \in Process, NEW m \in Message, Receive(w, m)
  PROVE  IInv'
<1> USE DEF IInv, Receive, ReceiveMessage, history, Goto, Holding, InHand
<1>1. TypeOK'
  BY JobQueueAssumption, WorkerAssumption DEF TypeOK, QueueTypeOK, Place, PC
<1>2. SoleHolder'
  BY DEF TypeOK, QueueTypeOK, SoleHolder, ReceiptIssued
<1>3. FreshInHand'
  BY JobQueueAssumption DEF TypeOK, QueueTypeOK, FreshInHand, StartedIssued
<1>4. ReceiptIssued' /\ StartedIssued' /\ DoneBeforeDelete'
      /\ WellFormedInHand' /\ AckedAfterWork' /\ MalformedKept'
  BY DEF TypeOK, QueueTypeOK, ReceiptIssued, StartedIssued, DoneBeforeDelete,
         WellFormedInHand, AckedAfterWork, MalformedKept
<1> QED
  BY <1>1, <1>2, <1>3, <1>4

LEMMA ReceiveLostStep ==
  ASSUME IInv, NEW w \in Process, NEW m \in Message, ReceiveLost(w, m)
  PROVE  IInv'
<1> USE DEF IInv, ReceiveLost, ReceiveMessage, history, Goto, Holding, InHand
<1>1. TypeOK'
  BY JobQueueAssumption, WorkerAssumption DEF TypeOK, QueueTypeOK, Place, PC
<1>2. ReceiptIssued' /\ SoleHolder' /\ StartedIssued' /\ FreshInHand'
      /\ DoneBeforeDelete' /\ WellFormedInHand' /\ AckedAfterWork'
      /\ MalformedKept'
  BY DEF TypeOK, QueueTypeOK, ReceiptIssued, SoleHolder, StartedIssued,
         FreshInHand, DoneBeforeDelete, WellFormedInHand, AckedAfterWork,
         MalformedKept
<1> QED
  BY <1>1, <1>2

LEMMA ReceiveNothingStep ==
  ASSUME IInv, NEW w \in Process, ReceiveNothing(w)
  PROVE  IInv'
<1> USE DEF IInv, ReceiveNothing, queueVars, history, Goto, Drop, Holding,
            InHand
<1>1. TypeOK'
  BY JobQueueAssumption, WorkerAssumption DEF TypeOK, QueueTypeOK, PC
<1>2. ReceiptIssued' /\ SoleHolder' /\ FreshInHand' /\ DoneBeforeDelete'
      /\ WellFormedInHand'
  BY DEF TypeOK, QueueTypeOK, ReceiptIssued, SoleHolder, FreshInHand,
         DoneBeforeDelete, WellFormedInHand
<1>3. StartedIssued' /\ AckedAfterWork' /\ MalformedKept'
  BY DEF StartedIssued, AckedAfterWork, MalformedKept
<1> QED
  BY <1>1, <1>2, <1>3

LEMMA ReceiveDeniedStep ==
  ASSUME IInv, NEW w \in Process, ReceiveDenied(w)
  PROVE  IInv'
<1> USE DEF IInv, ReceiveDenied, queueVars, history, Goto, Drop, Holding,
            InHand
<1>1. TypeOK'
  BY JobQueueAssumption, WorkerAssumption DEF TypeOK, QueueTypeOK, PC
<1>2. ReceiptIssued' /\ SoleHolder' /\ FreshInHand' /\ DoneBeforeDelete'
      /\ WellFormedInHand'
  BY DEF TypeOK, QueueTypeOK, ReceiptIssued, SoleHolder, FreshInHand,
         DoneBeforeDelete, WellFormedInHand
<1>3. StartedIssued' /\ AckedAfterWork' /\ MalformedKept'
  BY DEF StartedIssued, AckedAfterWork, MalformedKept
<1> QED
  BY <1>1, <1>2, <1>3

LEMMA AbandonStep ==
  ASSUME IInv, NEW w \in Process, Abandon(w)
  PROVE  IInv'
<1> USE DEF IInv, Abandon, queueVars, history, Goto, Drop, Holding, InHand
<1>1. TypeOK'
  BY JobQueueAssumption, WorkerAssumption DEF TypeOK, QueueTypeOK, PC
<1>2. ReceiptIssued' /\ SoleHolder' /\ FreshInHand' /\ DoneBeforeDelete'
      /\ WellFormedInHand'
  BY DEF TypeOK, QueueTypeOK, ReceiptIssued, SoleHolder, FreshInHand,
         DoneBeforeDelete, WellFormedInHand
<1>3. StartedIssued' /\ AckedAfterWork' /\ MalformedKept'
  BY DEF StartedIssued, AckedAfterWork, MalformedKept
<1> QED
  BY <1>1, <1>2, <1>3

LEMMA BeginHandlingStep ==
  ASSUME IInv, NEW w \in Process, BeginHandling(w)
  PROVE  IInv'
<1> USE DEF IInv, BeginHandling, queueVars, history, Goto, Holding, InHand
<1>1. TypeOK'
  BY JobQueueAssumption, WorkerAssumption DEF TypeOK, QueueTypeOK, PC
<1>2. ReceiptIssued' /\ SoleHolder' /\ FreshInHand' /\ DoneBeforeDelete'
      /\ WellFormedInHand'
  BY DEF TypeOK, QueueTypeOK, ReceiptIssued, SoleHolder, FreshInHand,
         DoneBeforeDelete, WellFormedInHand
<1>3. StartedIssued' /\ AckedAfterWork' /\ MalformedKept'
  BY DEF StartedIssued, AckedAfterWork, MalformedKept
<1> QED
  BY <1>1, <1>2, <1>3

LEMMA RefuseMalformedStep ==
  ASSUME IInv, NEW w \in Process, RefuseMalformed(w)
  PROVE  IInv'
<1> USE DEF IInv, RefuseMalformed, queueVars, history, Goto, Drop, Holding,
            InHand
<1>1. TypeOK'
  BY JobQueueAssumption, WorkerAssumption DEF TypeOK, QueueTypeOK, PC
<1>2. ReceiptIssued' /\ SoleHolder' /\ FreshInHand' /\ DoneBeforeDelete'
      /\ WellFormedInHand'
  BY DEF TypeOK, QueueTypeOK, ReceiptIssued, SoleHolder, FreshInHand,
         DoneBeforeDelete, WellFormedInHand
<1>3. StartedIssued' /\ AckedAfterWork' /\ MalformedKept'
  BY DEF StartedIssued, AckedAfterWork, MalformedKept
<1> QED
  BY <1>1, <1>2, <1>3

LEMMA ParseEscapesStep ==
  ASSUME IInv, NEW w \in Process, ParseEscapes(w)
  PROVE  IInv'
<1> USE DEF IInv, ParseEscapes, queueVars, history, Goto, Drop, Holding,
            InHand
<1>1. TypeOK'
  BY JobQueueAssumption, WorkerAssumption DEF TypeOK, QueueTypeOK, PC
<1>2. ReceiptIssued' /\ SoleHolder' /\ FreshInHand' /\ DoneBeforeDelete'
      /\ WellFormedInHand'
  BY DEF TypeOK, QueueTypeOK, ReceiptIssued, SoleHolder, FreshInHand,
         DoneBeforeDelete, WellFormedInHand
<1>3. StartedIssued' /\ AckedAfterWork' /\ MalformedKept'
  BY DEF StartedIssued, AckedAfterWork, MalformedKept
<1> QED
  BY <1>1, <1>2, <1>3

LEMMA StartProcessingStep ==
  ASSUME IInv, NEW w \in Process, StartProcessing(w)
  PROVE  IInv'
<1> USE DEF IInv, StartProcessing, queueVars, history, Goto, Drop, Holding,
            InHand
<1>1. TypeOK'
  <2>1. InHand(w) \in Delivery
    BY JobQueueAssumption, WorkerAssumption DEF TypeOK, QueueTypeOK, ReceiptIssued, Delivery
  <2> QED
    BY <2>1 DEF TypeOK, QueueTypeOK, PC
<1>2. StartedIssued'
  BY DEF TypeOK, QueueTypeOK, StartedIssued, ReceiptIssued
<1>3. FreshInHand'
  BY DEF TypeOK, QueueTypeOK, FreshInHand, SoleHolder
<1>4. ReceiptIssued' /\ SoleHolder' /\ DoneBeforeDelete'
      /\ WellFormedInHand' /\ MalformedKept'
  BY DEF TypeOK, QueueTypeOK, ReceiptIssued, SoleHolder, DoneBeforeDelete,
         WellFormedInHand, MalformedKept
<1>5. AckedAfterWork'
  BY DEF AckedAfterWork
<1> QED
  BY <1>1, <1>2, <1>3, <1>4, <1>5

LEMMA ProcessingSucceedsStep ==
  ASSUME IInv, NEW w \in Process, ProcessingSucceeds(w)
  PROVE  IInv'
<1> USE DEF IInv, ProcessingSucceeds, queueVars, history, Goto, Drop,
            Holding, InHand
<1>1. TypeOK'
  <2>1. InHand(w) \in Delivery
    BY JobQueueAssumption, WorkerAssumption DEF TypeOK, QueueTypeOK, ReceiptIssued, Delivery
  <2> QED
    BY <2>1 DEF TypeOK, QueueTypeOK, PC
<1>2. ReceiptIssued' /\ SoleHolder' /\ FreshInHand' /\ DoneBeforeDelete'
      /\ WellFormedInHand' /\ AckedAfterWork'
  BY DEF TypeOK, QueueTypeOK, ReceiptIssued, SoleHolder, FreshInHand,
         DoneBeforeDelete, WellFormedInHand, AckedAfterWork
<1>3. StartedIssued' /\ MalformedKept'
  BY DEF StartedIssued, MalformedKept
<1> QED
  BY <1>1, <1>2, <1>3

LEMMA ProcessingFailsStep ==
  ASSUME IInv, NEW w \in Process, ProcessingFails(w)
  PROVE  IInv'
<1> USE DEF IInv, ProcessingFails, queueVars, history, Goto, Drop, Holding,
            InHand
<1>1. TypeOK'
  BY JobQueueAssumption, WorkerAssumption DEF TypeOK, QueueTypeOK, PC
<1>2. ReceiptIssued' /\ SoleHolder' /\ FreshInHand' /\ DoneBeforeDelete'
      /\ WellFormedInHand'
  BY DEF TypeOK, QueueTypeOK, ReceiptIssued, SoleHolder, FreshInHand,
         DoneBeforeDelete, WellFormedInHand
<1>3. StartedIssued' /\ AckedAfterWork' /\ MalformedKept'
  BY DEF StartedIssued, AckedAfterWork, MalformedKept
<1> QED
  BY <1>1, <1>2, <1>3

LEMMA DeleteSucceedsStep ==
  ASSUME IInv, NEW w \in Process, DeleteSucceeds(w)
  PROVE  IInv'
<1> USE DEF IInv, DeleteSucceeds, DeleteMessage, Goto, Drop, Holding, InHand
<1>1. TypeOK'
  BY JobQueueAssumption, WorkerAssumption DEF TypeOK, QueueTypeOK, Place, PC
<1>2. AckedAfterWork'
  <2>1. receipt[w] \in 1..MaxReceive /\ <<held[w], receipt[w]>> \in done
    BY JobQueueAssumption, WorkerAssumption
    DEF TypeOK, QueueTypeOK, ReceiptIssued, DoneBeforeDelete
  <2> QED
    BY <2>1 DEF TypeOK, QueueTypeOK, AckedAfterWork
<1>3. MalformedKept'
  BY WorkerAssumption DEF TypeOK, QueueTypeOK, MalformedKept, WellFormedInHand
<1>4. ReceiptIssued' /\ SoleHolder' /\ FreshInHand' /\ DoneBeforeDelete'
      /\ WellFormedInHand'
  BY DEF TypeOK, QueueTypeOK, ReceiptIssued, SoleHolder, FreshInHand,
         DoneBeforeDelete, WellFormedInHand
<1>5. StartedIssued'
  BY DEF StartedIssued
<1> QED
  BY <1>1, <1>2, <1>3, <1>4, <1>5

LEMMA DeleteUnavailableStep ==
  ASSUME IInv, NEW w \in Process, DeleteUnavailable(w)
  PROVE  IInv'
<1> USE DEF IInv, DeleteUnavailable, DeleteMessage, queueVars, history, Goto,
            Drop, Holding, InHand
<1>1. TypeOK'
  BY JobQueueAssumption, WorkerAssumption DEF TypeOK, QueueTypeOK, Place, PC
<1>2. AckedAfterWork'
  <2>1. receipt[w] \in 1..MaxReceive /\ <<held[w], receipt[w]>> \in done
    BY JobQueueAssumption, WorkerAssumption
    DEF TypeOK, QueueTypeOK, ReceiptIssued, DoneBeforeDelete
  <2> QED
    BY <2>1 DEF TypeOK, QueueTypeOK, AckedAfterWork
<1>3. MalformedKept'
  BY WorkerAssumption DEF TypeOK, QueueTypeOK, MalformedKept, WellFormedInHand
<1>4. ReceiptIssued' /\ SoleHolder' /\ FreshInHand' /\ DoneBeforeDelete'
      /\ WellFormedInHand'
  BY DEF TypeOK, QueueTypeOK, ReceiptIssued, SoleHolder, FreshInHand,
         DoneBeforeDelete, WellFormedInHand
<1>5. StartedIssued'
  BY DEF StartedIssued
<1> QED
  BY <1>1, <1>2, <1>3, <1>4, <1>5

LEMMA DeleteDeniedStep ==
  ASSUME IInv, NEW w \in Process, DeleteDenied(w)
  PROVE  IInv'
<1> USE DEF IInv, DeleteDenied, queueVars, history, Goto, Drop, Holding,
            InHand
<1>1. TypeOK'
  BY JobQueueAssumption, WorkerAssumption DEF TypeOK, QueueTypeOK, PC
<1>2. ReceiptIssued' /\ SoleHolder' /\ FreshInHand' /\ DoneBeforeDelete'
      /\ WellFormedInHand'
  BY DEF TypeOK, QueueTypeOK, ReceiptIssued, SoleHolder, FreshInHand,
         DoneBeforeDelete, WellFormedInHand
<1>3. StartedIssued' /\ AckedAfterWork' /\ MalformedKept'
  BY DEF StartedIssued, AckedAfterWork, MalformedKept
<1> QED
  BY <1>1, <1>2, <1>3

LEMMA RequestShutdownStep ==
  ASSUME IInv, NEW w \in Process, RequestShutdown(w)
  PROVE  IInv'
<1> USE DEF IInv, RequestShutdown, queueVars, history, Holding, InHand, Alive
<1>1. TypeOK'
  BY JobQueueAssumption, WorkerAssumption DEF TypeOK, QueueTypeOK
<1>2. ReceiptIssued' /\ SoleHolder' /\ StartedIssued' /\ FreshInHand'
      /\ DoneBeforeDelete' /\ WellFormedInHand' /\ AckedAfterWork'
      /\ MalformedKept'
  BY DEF ReceiptIssued, SoleHolder, StartedIssued, FreshInHand,
         DoneBeforeDelete, WellFormedInHand, AckedAfterWork, MalformedKept
<1> QED
  BY <1>1, <1>2

LEMMA KillStep ==
  ASSUME IInv, NEW w \in Process, Kill(w)
  PROVE  IInv'
<1> USE DEF IInv, Kill, queueVars, history, Goto, Drop, Holding, InHand, Alive
<1>1. TypeOK'
  BY JobQueueAssumption, WorkerAssumption DEF TypeOK, QueueTypeOK, PC
<1>2. ReceiptIssued' /\ SoleHolder' /\ FreshInHand' /\ DoneBeforeDelete'
      /\ WellFormedInHand'
  BY DEF TypeOK, QueueTypeOK, ReceiptIssued, SoleHolder, FreshInHand,
         DoneBeforeDelete, WellFormedInHand
<1>3. StartedIssued' /\ AckedAfterWork' /\ MalformedKept'
  BY DEF StartedIssued, AckedAfterWork, MalformedKept
<1> QED
  BY <1>1, <1>2, <1>3

LEMMA StartStep ==
  ASSUME IInv, NEW w \in Process, Start(w)
  PROVE  IInv'
<1> USE DEF IInv, Start, queueVars, history, Goto, Holding, InHand, Alive
<1>1. TypeOK'
  BY JobQueueAssumption, WorkerAssumption DEF TypeOK, QueueTypeOK, PC
<1>2. ReceiptIssued' /\ SoleHolder' /\ FreshInHand' /\ DoneBeforeDelete'
      /\ WellFormedInHand'
  BY DEF TypeOK, QueueTypeOK, ReceiptIssued, SoleHolder, FreshInHand,
         DoneBeforeDelete, WellFormedInHand
<1>3. StartedIssued' /\ AckedAfterWork' /\ MalformedKept'
  BY DEF StartedIssued, AckedAfterWork, MalformedKept
<1> QED
  BY <1>1, <1>2, <1>3

-----------------------------------------------------------------------------
(* The theorems. *)

LEMMA InitInvariant == Init => IInv
BY JobQueueAssumption, WorkerAssumption
DEF Init, QueueInit, IInv, TypeOK, QueueTypeOK, Place, PC, Holding, InHand,
    ReceiptIssued, SoleHolder, StartedIssued, FreshInHand, DoneBeforeDelete,
    WellFormedInHand, AckedAfterWork, MalformedKept

LEMMA NextInvariant == IInv /\ [Next]_vars => IInv'
<1> SUFFICES ASSUME IInv, [Next]_vars PROVE IInv'
  OBVIOUS
<1>1. ASSUME NEW m \in Message, Sqs(m) PROVE IInv'
  BY <1>1, SqsStep
<1>2. ASSUME NEW w \in Process, Run(w) PROVE IInv'
  BY <1>2, LoopTopStep, ReceiveStep, ReceiveLostStep, ReceiveNothingStep,
     ReceiveDeniedStep, AbandonStep, BeginHandlingStep,
     RefuseMalformedStep, ParseEscapesStep, StartProcessingStep,
     ProcessingSucceedsStep, ProcessingFailsStep, DeleteSucceedsStep,
     DeleteUnavailableStep, DeleteDeniedStep DEF Run
<1>3. ASSUME NEW w \in Process, RequestShutdown(w) \/ Kill(w) \/ Start(w)
      PROVE  IInv'
  BY <1>3, RequestShutdownStep, KillStep, StartStep
<1>4. ASSUME NEW m \in Message, Publish(m) PROVE IInv'
  BY <1>4, PublishStep
<1>5. CASE UNCHANGED vars
  BY <1>5 DEF vars, IInv, TypeOK, QueueTypeOK, Holding, InHand, ReceiptIssued,
         SoleHolder, StartedIssued, FreshInHand, DoneBeforeDelete,
         WellFormedInHand, AckedAfterWork, MalformedKept
<1> QED
  BY <1>1, <1>2, <1>3, <1>4, <1>5 DEF Next, Consume

(* The strengthened invariant holds in every reachable state.                *)
THEOREM Invariance == Spec => []IInv
BY InitInvariant, NextInvariant, PTL DEF Spec

(* Queue, processes and history keep their types; a process holds a delivery *)
(* exactly while it handles it.                                              *)
THEOREM TypeCorrect == Spec => []TypeOK
<1>1. IInv => TypeOK
  BY DEF IInv
<1> QED
  BY <1>1, Invariance, PTL

(* No crash, signal, failed or outdated delete removes a message from the    *)
(* queue before some processor has finished with it.                         *)
THEOREM AcksFollowWork == Spec => []AckedAfterWork
<1>1. IInv => AckedAfterWork
  BY DEF IInv
<1> QED
  BY <1>1, Invariance, PTL

(* Bodies that break the contract are neither processed nor deleted.         *)
THEOREM MalformedAreKept == Spec => []MalformedKept
<1>1. IInv => MalformedKept
  BY DEF IInv
<1> QED
  BY <1>1, Invariance, PTL

(* A delivery reaches a processor at most once, so a message is executed at  *)
(* most as often as it is received, whatever the number of processes.        *)
THEOREM DeliveriesRunOnce == Spec => RunsOncePerDelivery
<1>1. ASSUME IInv, [Next]_vars
      PROVE  [\A w \in Process :
                pc[w] # "process" /\ pc'[w] = "process" => InHand(w) \notin started]_vars
  <2> SUFFICES ASSUME NEW w \in Process, pc[w] # "process", pc'[w] = "process"
               PROVE  InHand(w) \notin started
    OBVIOUS
  <2>1. pc[w] = "handle"
    BY <1>1
    DEF IInv, TypeOK, vars, Next, Publish, Consume, Sqs, Run, workerVars, Goto, Drop, LoopTop,
        Receive, ReceiveLost, ReceiveNothing, ReceiveDenied, Abandon, BeginHandling,
        RefuseMalformed, ParseEscapes, StartProcessing, ProcessingSucceeds,
        ProcessingFails, DeleteSucceeds, DeleteUnavailable, DeleteDenied,
        RequestShutdown, Kill, Start
  <2> QED
    BY <1>1, <2>1 DEF IInv, FreshInHand
<1> QED
  BY <1>1, Invariance, PTL DEF Spec, RunsOncePerDelivery

(* After the signal, a process takes up no delivery, and starts none but the *)
(* one that it was already handling.                                         *)
THEOREM ShutdownIsObeyed == Spec => ShutdownStartsNothing
<1>1. ASSUME IInv, [Next]_vars
      PROVE  [\A w \in Process :
                ~running[w] /\ Engaged(pc'[w]) => Engaged(pc[w])]_vars
  <2> SUFFICES ASSUME NEW w \in Process, ~running[w], Engaged(pc'[w])
               PROVE  Engaged(pc[w])
    OBVIOUS
  <2> QED
    BY <1>1
    DEF Engaged, IInv, TypeOK, vars, Next, Publish, Consume, Sqs, Run, workerVars, Goto, Drop, LoopTop,
        Receive, ReceiveLost, ReceiveNothing, ReceiveDenied, Abandon, BeginHandling,
        RefuseMalformed, ParseEscapes, StartProcessing, ProcessingSucceeds,
        ProcessingFails, DeleteSucceeds, DeleteUnavailable, DeleteDenied,
        RequestShutdown, Kill, Start
<1> QED
  BY <1>1, Invariance, PTL DEF Spec, ShutdownStartsNothing

(* The end that liveness promises is near: every step of a signalled process *)
(* brings it closer, for any number of processes and messages.               *)
THEOREM ShutdownIsBounded == Spec => ShutdownBounded
<1>1. ASSUME IInv, [Next]_vars
      PROVE  [\A w \in Process :
                ~running[w] /\ Alive(w) /\ pc'[w] # pc[w] =>
                  StepsLeft[pc'[w]] < StepsLeft[pc[w]]]_vars
  <2> SUFFICES ASSUME NEW w \in Process, ~running[w], Alive(w), pc'[w] # pc[w], Next
               PROVE  StepsLeft[pc'[w]] < StepsLeft[pc[w]]
    BY <1>1
  <2>1. Run(w) \/ Kill(w)
    <3>1. ASSUME NEW m \in Message, Sqs(m) \/ Publish(m) PROVE FALSE
      BY <3>1 DEF Sqs, Publish, workerVars
    <3>2. ASSUME NEW v \in Process, Run(v) \/ Kill(v), v # w PROVE FALSE
      BY <1>1, <3>2
      DEF IInv, TypeOK, Run, Goto, Drop, LoopTop, Receive, ReceiveLost, ReceiveNothing,
          ReceiveDenied, Abandon, BeginHandling, RefuseMalformed, ParseEscapes, StartProcessing,
          ProcessingSucceeds, ProcessingFails, DeleteSucceeds, DeleteUnavailable,
          DeleteDenied, Kill
    <3>3. ASSUME NEW v \in Process, RequestShutdown(v) \/ Start(v) PROVE FALSE
      BY <1>1, <3>3 DEF IInv, TypeOK, RequestShutdown, Start, Goto
    <3> QED
      BY <3>1, <3>2, <3>3 DEF Next, Consume
  <2>2. CASE Kill(w)
    BY <1>1, <2>2 DEF IInv, TypeOK, PC, Kill, Drop, Goto, Alive, StepsLeft
  <2>3. CASE Run(w)
    <3>1. /\ pc[w] = "loop" => pc'[w] = "stopped"
          /\ pc[w] = "receive" => pc'[w] \in {"dispatch", "loop", "exited"}
          /\ pc[w] = "dispatch" => pc'[w] = "loop"
          /\ pc[w] = "handle" => pc'[w] \in {"process", "loop", "exited"}
          /\ pc[w] = "process" => pc'[w] \in {"delete", "loop"}
          /\ pc[w] = "delete" => pc'[w] \in {"loop", "exited"}
      BY <1>1, <2>3
      DEF IInv, TypeOK, Run, Goto, Drop, LoopTop, Receive, ReceiveLost, ReceiveNothing,
          ReceiveDenied, Abandon, BeginHandling, RefuseMalformed, ParseEscapes, StartProcessing,
          ProcessingSucceeds, ProcessingFails, DeleteSucceeds, DeleteUnavailable,
          DeleteDenied
    <3>2. pc[w] \in {"loop", "receive", "dispatch", "handle", "process", "delete"}
      BY <1>1 DEF IInv, TypeOK, PC, Alive
    <3> QED
      BY <3>1, <3>2 DEF StepsLeft
  <2> QED
    BY <2>1, <2>2, <2>3
<1> QED
  BY <1>1, Invariance, PTL DEF Spec, ShutdownBounded

-----------------------------------------------------------------------------
(* Which bodies end a process. *)

(* The three ways in which parsing may end, and what decides between them.   *)
LEMMA ParseOutcomes ==
  ASSUME NEW b \in RawBody
  PROVE  /\ Parse(b) = "accepted" <=>
              b.object /\ b.wrong = {} /\ b.created_at \in {"utc", "offset"}
         /\ Parse(b) = "OverflowError" <=> b.object /\ b.created_at = "unconvertible"
         /\ Parse(b) \in {"accepted", "ValidationError", "OverflowError"}
BY DEF RawBody, Timestamp, Parse, RequireUtc

(* What worker_parse_exit exhibits has one cause: of all bodies that break   *)
(* the contract, only a JSON object whose created_at leaves the range of     *)
(* datetime in UTC ends the process - no wrong or missing field, no broken   *)
(* JSON, and no other timestamp does.                                        *)
THEOREM OnlyUnconvertibleEscapes ==
  Spec => [][\A w \in Process :
               pc[w] = "handle" /\ pc'[w] = "exited" /\ stops' = stops =>
                 Body[held[w]].object /\ Body[held[w]].created_at = "unconvertible"]_vars
<1>1. ASSUME IInv, [Next]_vars
      PROVE  [\A w \in Process :
                pc[w] = "handle" /\ pc'[w] = "exited" /\ stops' = stops =>
                  Body[held[w]].object /\ Body[held[w]].created_at = "unconvertible"]_vars
  <2> SUFFICES ASSUME NEW w \in Process,
                      pc[w] = "handle", pc'[w] = "exited", stops' = stops
               PROVE  Body[held[w]].object /\ Body[held[w]].created_at = "unconvertible"
    OBVIOUS
  <2>1. ParseEscapes(w)
    BY <1>1, WorkerAssumption
    DEF IInv, TypeOK, vars, Next, Publish, Consume, Sqs, Run, workerVars, Goto, Drop, LoopTop,
        Receive, ReceiveLost, ReceiveNothing, ReceiveDenied, Abandon, BeginHandling,
        RefuseMalformed, ParseEscapes, StartProcessing, ProcessingSucceeds,
        ProcessingFails, DeleteSucceeds, DeleteUnavailable, DeleteDenied,
        RequestShutdown, Kill, Start
  <2>2. held[w] \in Message /\ Body[held[w]] \in RawBody
    BY <1>1, <2>1, WorkerAssumption DEF IInv, TypeOK, Holding
  <2>3. Parse(Body[held[w]]) = "OverflowError"
    BY <2>1, <2>2, ParseOutcomes DEF ParseEscapes, Understood, Malformed
  <2> QED
    BY <2>2, <2>3, ParseOutcomes
<1> QED
  BY <1>1, Invariance, PTL DEF Spec

(* So a contract without such timestamps keeps the promise that malformed    *)
(* messages never end the worker: an OverflowError turned into a ValueError  *)
(* in _require_utc is all that it takes.                                     *)
THEOREM ConvertibleBodiesEndNoProcess ==
  ASSUME \A m \in Message : Body[m].created_at # "unconvertible"
  PROVE  Spec => MalformedEndsNoProcess
<1>1. IInv => \A w \in Process :
        pc[w] = "handle" => Body[held[w]].created_at # "unconvertible"
  BY WorkerAssumption DEF IInv, TypeOK, Holding
<1> DEFINE Escape == \A w \in Process :
             pc[w] = "handle" /\ pc'[w] = "exited" /\ stops' = stops =>
               Body[held[w]].object /\ Body[held[w]].created_at = "unconvertible"
           Kept == \A w \in Process :
             pc[w] = "handle" /\ held[w] \notin Understood /\ pc'[w] = "exited" =>
               stops' # stops
<1>2. IInv /\ [Escape]_vars => [Kept]_vars
  BY <1>1
<1>3. Spec => [][Escape]_vars
  BY OnlyUnconvertibleEscapes
<1>4. [][Kept]_vars => MalformedEndsNoProcess
  BY DEF MalformedEndsNoProcess
<1> HIDE DEF Escape, Kept
<1> QED
  BY <1>2, <1>3, <1>4, Invariance, PTL
=============================================================================
