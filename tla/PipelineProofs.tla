--------------------------- MODULE PipelineProofs ---------------------------
(* Proofs about API and workers together, for any sets of jobs, threads,     *)
(* message ids and processes.  They rest on the invariants that IntakeProofs *)
(* and WorkerProofs show of each side alone.                                 *)
EXTENDS Pipeline, HandoffProofs, FiniteSetTheorems

WP == INSTANCE WorkerProofs WITH Message <- MessageId, pc <- wpc

-----------------------------------------------------------------------------
(* The inductive invariant: that of each side, and what ties them together. *)

(* The queue has seen exactly the commands that the API sent.                *)
Coupled ==
  \A id \in MessageId : place[id] # "absent" <=> \E m \in sent : m.message_id = id

UniqueIds == \A m, n \in sent \cup wire : m.message_id = n.message_id => m = n

ReceivedWasSent == \A id \in MessageId : receives[id] > 0 => place[id] # "absent"

PInv == RInv /\ WP!IInv /\ Coupled /\ UniqueIds /\ ReceivedWasSent

(* The instance of Worker meets the assumptions of that module.              *)
LEMMA WorkerInstance ==
  /\ W!JobQueueAssumption /\ W!WorkerAssumption
  /\ WP!JobQueueAssumption /\ WP!WorkerAssumption
<1>1. Body \in [MessageId -> W!RawBody]
  BY DEF Body, E!Build, E!RequireUtc, W!RawBody, W!Timestamp, W!Field
<1>2. W!RawBody = WP!RawBody
  BY DEF W!RawBody, W!Timestamp, W!Field, WP!RawBody, WP!Timestamp, WP!Field
<1> QED
  BY <1>1, <1>2, PipelineAssumption, IntakeAssumption
  DEF W!JobQueueAssumption, W!WorkerAssumption, WP!JobQueueAssumption, WP!WorkerAssumption

(* Commands only join, one at a time and under a new id: by a send that is   *)
(* answered, or late, from the wire.                                         *)
LEMMA SentGrows ==
  ASSUME Next
  PROVE  \/ sent' = sent
         \/ \E id \in MessageId, t \in Thread : SendAccepted(t, id)
         \/ \E m \in wire : AcceptLate(m)
BY DEF Next, Client, Serve, CreateUpload, CreateUploadFails, ExpireUrl, DeleteObject,
       PutObject, BeginValidate, BeginUnknown, HeadObject, ReadMissing, ReadFails,
       GetObject, CheckPublished, SendUnanswered, SendFails, MarkPublished,
       RecordVerdict, Crash, jobVars

(* The ids of the commands stay unique, sent or still on the wire.           *)
LEMMA IdsStayUnique ==
  ASSUME UniqueIds, [Next]_vars
  PROVE  UniqueIds'
<1>1. ASSUME NEW t \in Thread, NEW id \in MessageId, SendAccepted(t, id) \/ SendUnanswered(t, id)
      PROVE  UniqueIds'
  <2> DEFINE under == sent \cup wire
  <2>1. PICK seen \in BOOLEAN : under' = under \cup {Built(t, id, seen)}
    BY <1>1 DEF SendAccepted, SendUnanswered
  <2>2. Built(t, id, seen).message_id = id /\ \A m \in under : m.message_id # id
    BY <1>1 DEF SendAccepted, SendUnanswered, Fresh, Built
  <2> DEFINE c == Built(t, id, seen)
  <2>3. under' = under \cup {c} /\ c.message_id = id
    BY <2>1, <2>2
  <2>4. \A m, n \in under : m.message_id = n.message_id => m = n
    BY DEF UniqueIds
  <2> HIDE DEF c, under
  <2>5. \A m, n \in under' : m.message_id = n.message_id => m = n
    BY <2>2, <2>3, <2>4
  <2> QED
    BY <2>5 DEF UniqueIds, under
<1>2. ASSUME NEW m \in wire, AcceptLate(m) PROVE UniqueIds'
  BY <1>2 DEF UniqueIds, AcceptLate
<1>3. CASE UNCHANGED <<sent, wire>>
  BY <1>3 DEF UniqueIds
<1> QED
  BY <1>1, <1>2, <1>3
  DEF Next, vars, Client, Serve, CreateUpload, CreateUploadFails, ExpireUrl, DeleteObject,
      PutObject, BeginValidate, BeginUnknown, HeadObject, ReadMissing, ReadFails,
      GetObject, CheckPublished, SendFails, MarkPublished, RecordVerdict, Crash, jobVars

-----------------------------------------------------------------------------
(* A step of the API is a publish, or nothing, for the queue. *)

LEMMA ApiPublishes ==
  ASSUME PInv, Api
  PROVE  \/ sent' = sent /\ place' = place
         \/ \E id \in MessageId :
              /\ W!Publish(id)
              /\ \A m \in sent : m.message_id # id
              /\ \E c : c.message_id = id /\ sent' = sent \cup {c}
<1> USE DEF PInv, Coupled
<1>0. place = [id \in MessageId |-> place[id]]
  BY DEF WP!IInv, WP!TypeOK, WP!QueueTypeOK
<1>1. CASE sent' = sent
  BY <1>0, <1>1 DEF Api
<1>2. ASSUME NEW c, c.message_id \in MessageId, sent' = sent \cup {c},
             \A m \in sent : m.message_id # c.message_id
      PROVE  \E id \in MessageId :
               /\ W!Publish(id)
               /\ \A m \in sent : m.message_id # id
               /\ \E d : d.message_id = id /\ sent' = sent \cup {d}
  <2>1. place' = [place EXCEPT ![c.message_id] = "visible"]
    BY <1>0, <1>2 DEF Api
  <2>2. W!Publish(c.message_id)
    BY <1>2, <2>1
    DEF Api, consumerVars, W!Publish, W!SendMessage, W!workerVars, W!history
  <2> QED
    BY <1>2, <2>2
<1>3. CASE \E id \in MessageId, t \in Thread : SendAccepted(t, id)
  <2>1. PICK id \in MessageId, t \in Thread : SendAccepted(t, id)
    BY <1>3
  <2> DEFINE c == Built(t, id, TRUE)
  <2>2. c.message_id = id /\ sent' = sent \cup {c} /\ \A m \in sent : m.message_id # id
    BY <2>1 DEF SendAccepted, Fresh, Built
  <2> HIDE DEF c
  <2> QED
    BY <1>2, <2>2
<1>4. CASE \E m \in wire : AcceptLate(m)
  <2>1. PICK c \in wire : AcceptLate(c)
    BY <1>4
  <2>2. c.message_id \in MessageId /\ sent' = sent \cup {c}
    BY <2>1 DEF AcceptLate, RInv, IInv, TypeOK, Command
  <2>3. CASE c \in sent
    BY <1>1, <2>2, <2>3
  <2>4. CASE c \notin sent
    BY <1>2, <2>2, <2>4 DEF UniqueIds
  <2> QED
    BY <2>3, <2>4
<1> QED
  BY <1>1, <1>3, <1>4, SentGrows DEF Api

(* Seen from the workers, every step is one of Worker.                       *)
LEMMA WorkerSees ==
  ASSUME PInv, [PipelineNext]_allVars
  PROVE  [W!Next]_W!vars
<1>1. CASE Api
  BY <1>1, ApiPublishes DEF Api, consumerVars, W!Next, W!vars
<1>2. CASE Consumer
  BY <1>2 DEF Consumer, W!Next
<1>3. CASE UNCHANGED allVars
  BY <1>3 DEF allVars, consumerVars, W!vars
<1> QED
  BY <1>1, <1>2, <1>3 DEF PipelineNext

(* And seen from the API, one of Intake.                                     *)
LEMMA IntakeSees ==
  ASSUME [PipelineNext]_allVars
  PROVE  [Next]_vars
BY DEF PipelineNext, Api, Consumer, allVars

-----------------------------------------------------------------------------
(* The invariant is inductive. *)

LEMMA SameInit == W!Init => WP!Init
BY DEF W!Init, WP!Init, W!QueueInit, WP!QueueInit

LEMMA WorkerInit == W!Init => WP!IInv
BY SameInit, WorkerInstance, WP!InitInvariant

(* The two instances of Worker have the same steps.                          *)
LEMMA SameSteps == [W!Next]_W!vars => [WP!Next]_WP!vars
BY DEF W!Next, WP!Next, W!vars, WP!vars, W!Consume, WP!Consume, W!Sqs, WP!Sqs, W!Run, WP!Run,
       W!Publish, WP!Publish, W!SendMessage, WP!SendMessage,
       W!VisibilityTimeout, WP!VisibilityTimeout, W!Redrive, WP!Redrive,
       W!ReceiveMessage, WP!ReceiveMessage, W!DeleteMessage, WP!DeleteMessage,
       W!LoopTop, WP!LoopTop, W!Receive, WP!Receive, W!ReceiveLost, WP!ReceiveLost,
       W!ReceiveNothing, WP!ReceiveNothing, W!ReceiveDenied, WP!ReceiveDenied,
       W!Abandon, WP!Abandon, W!BeginHandling, WP!BeginHandling, W!RefuseMalformed, WP!RefuseMalformed,
       W!ParseEscapes, WP!ParseEscapes, W!StartProcessing, WP!StartProcessing,
       W!ProcessingSucceeds, WP!ProcessingSucceeds, W!ProcessingFails, WP!ProcessingFails,
       W!DeleteSucceeds, WP!DeleteSucceeds, W!DeleteUnavailable, WP!DeleteUnavailable,
       W!DeleteDenied, WP!DeleteDenied, W!RequestShutdown, WP!RequestShutdown,
       W!Kill, WP!Kill, W!Start, WP!Start, W!Goto, WP!Goto, W!Drop, WP!Drop,
       W!Alive, WP!Alive, W!InHand, WP!InHand, W!queueVars, WP!queueVars,
       W!workerVars, WP!workerVars, W!history, WP!history,
       W!Understood, WP!Understood, W!Malformed, WP!Malformed, W!Parse, WP!Parse,
       W!RequireUtc, WP!RequireUtc

LEMMA WorkerNext == WP!IInv /\ [W!Next]_W!vars => WP!IInv'
BY SameSteps, WorkerInstance, WP!NextInvariant

(* A consumer step neither adds a message nor removes all trace of one.      *)
LEMMA ConsumeKeepsPresence ==
  ASSUME WP!IInv, ReceivedWasSent, W!Consume
  PROVE  /\ \A id \in MessageId : place'[id] # "absent" <=> place[id] # "absent"
         /\ ReceivedWasSent'
<1> USE DEF WP!IInv, WP!TypeOK, WP!QueueTypeOK, WP!Holding
<1>1. ASSUME NEW id \in MessageId, W!Sqs(id)
      PROVE  /\ \A m \in MessageId : place'[m] # "absent" <=> place[m] # "absent"
             /\ receives' = receives
  BY <1>1 DEF W!Sqs, W!VisibilityTimeout, W!Redrive
<1>2. ASSUME NEW w \in Process, W!Run(w)
      PROVE  /\ \A m \in MessageId : place'[m] # "absent" <=> place[m] # "absent"
             /\ \A m \in MessageId : receives'[m] > 0 => receives[m] > 0 \/ place[m] # "absent"
  <2>1. CASE \E m \in MessageId : W!Receive(w, m) \/ W!ReceiveLost(w, m)
    BY <2>1 DEF W!Receive, W!ReceiveLost, W!ReceiveMessage
  <2>2. CASE W!DeleteSucceeds(w) \/ W!DeleteUnavailable(w)
    <3>1. held[w] \in MessageId
      BY <2>2, WorkerInstance DEF W!DeleteSucceeds, W!DeleteUnavailable, W!WorkerAssumption
    <3> QED
      BY <2>2, <3>1
      DEF W!DeleteSucceeds, W!DeleteUnavailable, W!DeleteMessage, W!queueVars
  <2>3. CASE UNCHANGED W!queueVars
    BY <2>3 DEF W!queueVars
  <2> QED
    BY <1>2, <2>1, <2>2, <2>3
    DEF W!Run, W!LoopTop, W!ReceiveNothing, W!ReceiveDenied, W!Abandon, W!BeginHandling,
        W!RefuseMalformed, W!ParseEscapes, W!StartProcessing, W!ProcessingSucceeds, W!ProcessingFails,
        W!DeleteDenied
<1>3. ASSUME NEW w \in Process, W!RequestShutdown(w) \/ W!Kill(w) \/ W!Start(w)
      PROVE  UNCHANGED <<place, receives>>
  BY <1>3 DEF W!RequestShutdown, W!Kill, W!Start, W!queueVars
<1> QED
  BY <1>1, <1>2, <1>3 DEF W!Consume, ReceivedWasSent

LEMMA PInvInit == PipelineInit => PInv
<1> SUFFICES ASSUME PipelineInit PROVE PInv
  OBVIOUS
<1>1. RInv
  BY InitInvariant, UnansweredInit DEF PipelineInit, RInv
<1>2. WP!IInv
  BY WorkerInit DEF PipelineInit
<1>3. Coupled /\ UniqueIds /\ ReceivedWasSent
  BY DEF PipelineInit, Init, W!Init, W!QueueInit, Coupled, UniqueIds, ReceivedWasSent
<1> QED
  BY <1>1, <1>2, <1>3 DEF PInv

LEMMA PInvNext == PInv /\ [PipelineNext]_allVars => PInv'
<1> SUFFICES ASSUME PInv, [PipelineNext]_allVars PROVE PInv'
  OBVIOUS
<1>1. RInv'
  BY IntakeSees, NextInvariant, UnansweredNext DEF PInv, RInv
<1>2. WP!IInv'
  BY WorkerSees, WorkerNext DEF PInv
<1>0. UniqueIds'
  BY IntakeSees, IdsStayUnique DEF PInv
<1>3. CASE Api
  <2>1. CASE sent' = sent /\ place' = place
    BY <1>1, <1>2, <1>3, <1>0, <2>1
    DEF PInv, Api, consumerVars, Coupled, ReceivedWasSent
  <2>2. CASE \E id \in MessageId :
               /\ W!Publish(id)
               /\ \A m \in sent : m.message_id # id
               /\ \E c : c.message_id = id /\ sent' = sent \cup {c}
    BY <1>1, <1>2, <1>0, <2>2
    DEF PInv, WP!IInv, WP!TypeOK, WP!QueueTypeOK, W!Publish, W!SendMessage, Coupled,
        ReceivedWasSent
  <2> QED
    BY <1>3, <2>1, <2>2, ApiPublishes
<1>4. CASE Consumer
  BY <1>1, <1>2, <1>4, <1>0, ConsumeKeepsPresence DEF PInv, Consumer, vars, jobVars, Coupled
<1>5. CASE UNCHANGED allVars
  BY <1>1, <1>2, <1>5, <1>0
  DEF PInv, allVars, vars, jobVars, consumerVars, Coupled, ReceivedWasSent
<1> QED
  BY <1>3, <1>4, <1>5 DEF PipelineNext

(* The joint invariant holds in every reachable state of the service.        *)
THEOREM PipelineInvariance == PipelineSpec => []PInv
BY PInvInit, PInvNext, PTL DEF PipelineSpec

-----------------------------------------------------------------------------
(* The composition implements its parts. *)

(* Put together, the two sides are still the API and the worker that their   *)
(* own modules describe: the coupling through the queue adds no behaviour to *)
(* either, so whatever is true of one alone is true of it in the service.    *)
THEOREM PartsAreImplemented == PipelineSpec => Spec /\ W!Spec
<1>1. PipelineInit => Init /\ W!Init
  BY DEF PipelineInit
<1>2. PInv /\ [PipelineNext]_allVars => [Next]_vars /\ [W!Next]_W!vars
  BY IntakeSees, WorkerSees
<1> QED
  BY <1>1, <1>2, PipelineInvariance, PTL DEF PipelineSpec, Spec, W!Spec

(* What the API promises, it promises while workers consume its commands.    *)
THEOREM ApiPromisesCarryOver ==
  PipelineSpec => /\ [](MarkerTruthful /\ MarkerComplete)
                  /\ [](ReplyBacked /\ OneCommandPerThread)
                  /\ RefinesHandoff
                  /\ DuplicatesNeedOverlap
BY PartsAreImplemented, MarkerIsTruthful, MarkerIsComplete, ReplyIsBacked, OneCommandEach,
   Refinement, OverlapIsTheCause, PTL

(* What the worker promises for any messages, it promises for the commands   *)
(* of the API.                                                               *)
THEOREM WorkerPromisesCarryOver ==
  PipelineSpec => /\ W!RunsOncePerDelivery
                  /\ W!ShutdownStartsNothing
                  /\ W!ShutdownBounded
<1>1. PipelineSpec => WP!Spec
  BY SameInit, SameSteps, PartsAreImplemented, PTL DEF W!Spec, WP!Spec
<1>2. WP!Spec => WP!RunsOncePerDelivery /\ WP!ShutdownStartsNothing /\ WP!ShutdownBounded
  BY WorkerInstance, WP!DeliveriesRunOnce, WP!ShutdownIsObeyed, WP!ShutdownIsBounded
<1> QED
  BY <1>1, <1>2, PTL
  DEF W!RunsOncePerDelivery, WP!RunsOncePerDelivery, W!ShutdownStartsNothing,
      WP!ShutdownStartsNothing, W!ShutdownBounded, WP!ShutdownBounded,
      W!InHand, WP!InHand, W!Alive, WP!Alive, W!StepsLeft, WP!StepsLeft, W!Engaged, WP!Engaged, W!vars, WP!vars

-----------------------------------------------------------------------------
(* The end-to-end properties. *)

LEMMA SentIsInQueueOrDone ==
  ASSUME PInv, NEW m \in sent
  PROVE  InQueue(m.message_id) \/ Done(m.message_id)
<1>1. m.message_id \in MessageId
  BY DEF PInv, RInv, IInv, TypeOK, Command
<1>2. place[m.message_id] \in {"visible", "hidden", "deleted", "dead"}
  BY <1>1 DEF PInv, Coupled, WP!IInv, WP!TypeOK, WP!QueueTypeOK, WP!Place
<1> QED
  BY <1>1, <1>2 DEF PInv, WP!IInv, WP!AckedAfterWork, InQueue, Done

(* What the API confirmed is never lost on its way through the queue.        *)
THEOREM NothingAcceptedIsLost == PipelineSpec => []AcceptedNotLost
<1>1. ASSUME PInv PROVE AcceptedNotLost
  <2> SUFFICES ASSUME NEW j \in Job,
                      \/ \E t \in Thread : reply[t] = "VALIDATED" /\ target[t] = j
                      \/ Known(j) /\ registry[j].message_published
               PROVE  \E m \in sent : /\ m.confirmed /\ m.job_id = j
                                      /\ InQueue(m.message_id) \/ Done(m.message_id)
    BY DEF AcceptedNotLost
  <2>1. PICK m \in sent : m.confirmed /\ m.job_id = j
    BY <1>1 DEF PInv, RInv, IInv, Promises, ReplyBacked, HandedOff, MarkerTruthful
  <2> QED
    BY <1>1, <2>1, SentIsInQueueOrDone
<1> QED
  BY <1>1, PipelineInvariance, PTL

(* A delivery that reached a processor belongs to a command of the API.      *)
LEMMA StartedWasSent ==
  ASSUME PInv, NEW d \in started
  PROVE  /\ d \in MessageId \X (1..MaxReceive)
         /\ \E m \in sent : m.message_id = d[1]
<1>1. d \in MessageId \X (1..MaxReceive)
  BY DEF PInv, WP!IInv, WP!TypeOK, WP!Delivery
<1>2. d = <<d[1], d[2]>> /\ d[1] \in MessageId /\ d[2] \in 1..MaxReceive
  BY <1>1
<1>3. receives[d[1]] > 0
  <2>1. d[2] <= receives[d[1]]
    BY <1>2 DEF PInv, WP!IInv, WP!StartedIssued
  <2>2. receives[d[1]] \in 0..MaxReceive
    BY <1>2 DEF PInv, WP!IInv, WP!TypeOK, WP!QueueTypeOK
  <2> QED
    BY <1>2, <2>1, <2>2, PipelineAssumption
<1> QED
  BY <1>1, <1>2, <1>3 DEF PInv, ReceivedWasSent, Coupled

(* Only bytes that were judged acceptable lead to an execution.              *)
THEOREM ProcessedWasAcceptable == PipelineSpec => []ProcessedIsAcceptable
<1>1. ASSUME PInv PROVE ProcessedIsAcceptable
  BY <1>1, StartedWasSent
  DEF ProcessedIsAcceptable, PInv, RInv, IInv, Promises, OnlyAcceptablePublished
<1> QED
  BY <1>1, PipelineInvariance, PTL

-----------------------------------------------------------------------------
(* How often a job runs. *)

(* Redeliveries times callers: a receive number and a thread tell apart all  *)
(* the deliveries that confirmed commands of one job lead to a processor.    *)
THEOREM RepetitionIsBounded ==
  ASSUME IsFiniteSet(Thread)
  PROVE  PipelineSpec => []RepetitionBounded
<1>1. ASSUME PInv PROVE RepetitionBounded
  <2> SUFFICES ASSUME NEW j \in Job
               PROVE  Cardinality({d \in started : \E m \in sent : /\ m.confirmed /\ m.job_id = j
                                                                   /\ m.message_id = d[1]})
                        <= MaxReceive * Cardinality(Thread)
    BY DEF RepetitionBounded
  <2> DEFINE Of(d, t) == \E m \in sent : /\ m.confirmed /\ m.job_id = j
                                         /\ m.message_id = d[1] /\ m.sender = t
             D == {d \in started : \E m \in sent : /\ m.confirmed /\ m.job_id = j
                                                   /\ m.message_id = d[1]}
             Caller(d) == CHOOSE t \in Thread : Of(d, t)
             Slot == (1..MaxReceive) \X Thread
             f == [d \in D |-> <<d[2], Caller(d)>>]
  <2>1. \A d \in D : /\ d = <<d[1], d[2]>> /\ d[2] \in 1..MaxReceive
                     /\ Caller(d) \in Thread /\ Of(d, Caller(d))
    <3> TAKE d \in D
    <3>1. d \in MessageId \X (1..MaxReceive)
      BY <1>1, StartedWasSent
    <3>2. \E t \in Thread : Of(d, t)
      BY <1>1 DEF PInv, RInv, IInv, TypeOK, Command
    <3> QED
      BY <3>1, <3>2
  <2>2. \A d, e : \A t \in Thread : Of(d, t) /\ Of(e, t) => d[1] = e[1]
    BY <1>1 DEF PInv, RInv, IInv, Promises, OneCommandPerThread
  <2> HIDE DEF Of, Caller, D
  <2>3. f \in [D -> Slot]
    BY <2>1
  <2>4. ASSUME NEW d \in D, NEW e \in D, f[d] = f[e] PROVE d = e
    <3>1. d[2] = e[2] /\ Caller(d) = Caller(e)
      BY <2>4
    <3>2. d[1] = e[1]
      BY <2>1, <2>2, <3>1
    <3> QED
      BY <2>1, <3>1, <3>2
  <2>5. f \in Injection(D, Slot)
    BY <2>3, <2>4 DEF Injection, IsInjective
  <2>6. IsFiniteSet(Slot) /\ Cardinality(Slot) = MaxReceive * Cardinality(Thread)
    <3>1. IsFiniteSet(1..MaxReceive) /\ Cardinality(1..MaxReceive) = MaxReceive
      <4>1. 1 \in Int /\ MaxReceive \in Int /\ ~(1 > MaxReceive) /\ MaxReceive - 1 + 1 = MaxReceive
        BY PipelineAssumption
      <4> QED
        BY <4>1, FS_Interval
    <3> QED
      BY <3>1, FS_Product
  <2>7. Cardinality(D) <= Cardinality(Slot)
    <3> HIDE DEF Slot, f
    <3> QED
      BY <2>5, <2>6, FS_Injection
  <2> QED
    BY <2>6, <2>7 DEF D
<1> QED
  BY <1>1, PipelineInvariance, PTL

(* The threads' share in that bound is the race for the marker alone.        *)
OnceWithoutOverlap ==
  \A j \in Job :
    Cardinality({d \in started : \E m \in sent : /\ m.confirmed /\ m.job_id = j
                                                 /\ m.message_id = d[1]})
      <= MaxReceive

(* If no two requests for one job overlap between the read of the marker and *)
(* its write, the confirmed commands of a job start at most once per receive *)
(* however many threads the API has: of its repetitions only those of the    *)
(* queue are left, and those of commands whose confirmation was lost.        *)
THEOREM RepetitionNeedsOverlap ==
  PipelineSpec /\ []ExclusivePublish => []OnceWithoutOverlap
<1>1. ASSUME PInv, AtMostOneCommandPerJob PROVE OnceWithoutOverlap
  <2> SUFFICES ASSUME NEW j \in Job
               PROVE  Cardinality({d \in started : \E m \in sent : /\ m.confirmed /\ m.job_id = j
                                                                   /\ m.message_id = d[1]})
                        <= MaxReceive
    BY DEF OnceWithoutOverlap
  <2> DEFINE D == {d \in started : \E m \in sent : /\ m.confirmed /\ m.job_id = j
                                                   /\ m.message_id = d[1]}
             f == [d \in D |-> d[2]]
  <2>1. \A d \in D : d = <<d[1], d[2]>> /\ d[2] \in 1..MaxReceive
    <3> TAKE d \in D
    <3>1. d \in MessageId \X (1..MaxReceive)
      BY <1>1, StartedWasSent
    <3> QED
      BY <3>1
  <2>2. \A d, e \in D : d[1] = e[1]
    BY <1>1 DEF AtMostOneCommandPerJob
  <2> HIDE DEF D
  <2>3. f \in [D -> 1..MaxReceive]
    BY <2>1
  <2>4. ASSUME NEW d \in D, NEW e \in D, f[d] = f[e] PROVE d = e
    <3>1. d[1] = e[1] /\ d[2] = e[2]
      BY <2>2, <2>4
    <3> QED
      BY <2>1, <3>1
  <2>5. f \in Injection(D, 1..MaxReceive)
    BY <2>3, <2>4 DEF Injection, IsInjective
  <2>6. IsFiniteSet(1..MaxReceive) /\ Cardinality(1..MaxReceive) = MaxReceive
    <3>1. 1 \in Int /\ MaxReceive \in Int /\ ~(1 > MaxReceive) /\ MaxReceive - 1 + 1 = MaxReceive
      BY PipelineAssumption
    <3> QED
      BY <3>1, FS_Interval
  <2>7. Cardinality(D) <= Cardinality(1..MaxReceive)
    <3> HIDE DEF f
    <3> QED
      BY <2>5, <2>6, FS_Injection
  <2> QED
    BY <2>6, <2>7 DEF D
<1> QED
  BY <1>1, PipelineInvariance, PartsAreImplemented, OverlapIsTheCause, PTL
  DEF DuplicatesNeedOverlap

-----------------------------------------------------------------------------
(* API and workers implement Service. *)

(* A message in hand is an order.                                            *)
LEMMA HeldIsPlaced ==
  ASSUME PInv, NEW w \in Process, wpc[w] \in {"process", "delete"}
  PROVE  held[w] \in MessageId /\ receipt[w] \in 1..MaxReceive /\ place[held[w]] # "absent"
<1>1. held[w] \in MessageId
  BY WorkerInstance DEF PInv, WP!IInv, WP!TypeOK, WP!Holding, W!WorkerAssumption
<1>2. receipt[w] \in 1..receives[held[w]] /\ receives[held[w]] \in 0..MaxReceive
  BY <1>1 DEF PInv, WP!IInv, WP!TypeOK, WP!QueueTypeOK, WP!Holding, WP!ReceiptIssued
<1>3. receipt[w] \in 1..MaxReceive /\ receives[held[w]] > 0
  BY <1>2, PipelineAssumption
<1> QED
  BY <1>1, <1>3 DEF PInv, ReceivedWasSent

LEMMA PlacedIffSent ==
  ASSUME PInv, NEW id \in MessageId, place[id] # "absent"
  PROVE  S!Placed(id)
<1>1. PICK m \in sent : m.message_id = id
  BY DEF PInv, Coupled
<1> DEFINE o == [id |-> m.message_id, job |-> m.job_id,
                 caller |-> m.sender, sure |-> m.confirmed]
<1>2. o \in Orders /\ o.id = id
  BY <1>1 DEF Orders
<1> QED
  BY <1>2 DEF S!Placed

LEMMA ApiImplements ==
  ASSUME PInv, Api
  PROVE  [S!ServiceNext]_S!serviceVars
<1>1. Executed' = Executed
  BY DEF Api, consumerVars, Executed, Done
<1>2. Outcome' = Outcome
  BY ApiPublishes DEF PInv, WP!IInv, WP!TypeOK, WP!QueueTypeOK, W!Publish, W!SendMessage, Outcome
<1>3. [H!Next]_H!vars
  BY NextMaps DEF PInv, Api
<1>4. H!Next => S!Next
  BY DEF H!Next, S!Next, H!Register, S!Register, H!Restart, S!Restart, H!Place, S!Place,
         H!Sure, S!Sure, H!Tell, S!Tell, H!Ask, S!Ask
<1> QED
  BY <1>1, <1>2, <1>3, <1>4 DEF S!ServiceNext, S!serviceVars, H!vars

LEMMA ConsumerImplements ==
  ASSUME PInv, Consumer
  PROVE  [S!ServiceNext]_S!serviceVars
<1>1. Stage' = Stage /\ Orders' = Orders /\ Told' = Told
  BY DEF Consumer, vars, jobVars, threadVars, Stage, Orders, Told, Known
<1>2. /\ place \in [MessageId -> WP!Place] /\ place = [id \in MessageId |-> place[id]]
      /\ done \subseteq MessageId \X (1..MaxReceive)
  BY DEF PInv, WP!IInv, WP!TypeOK, WP!QueueTypeOK, WP!Delivery
<1>3. ASSUME done' = done PROVE Executed' = Executed
  BY <1>3 DEF Executed, Done
<1>4. ASSUME NEW id \in MessageId, NEW how \in {"acknowledged", "buried"},
             place[id] \in {"visible", "hidden"},
             place' = [place EXCEPT ![id] = IF how = "buried" THEN "dead" ELSE "deleted"],
             how = "acknowledged" => id \in Executed, done' = done
      PROVE  S!Settle(id, how)
  <2>1. Outcome[id] = "open" /\ Outcome' = [Outcome EXCEPT ![id] = how]
    BY <1>2, <1>4 DEF Outcome
  <2>2. S!Placed(id)
    BY <1>4, PlacedIffSent
  <2> QED
    BY <1>1, <1>3, <1>4, <2>1, <2>2 DEF S!Settle, S!vars
<1>5. ASSUME NEW id \in MessageId,
             \/ place' = place
             \/ /\ place[id] \in {"visible", "hidden"}
                /\ \E p \in {"visible", "hidden"} : place' = [place EXCEPT ![id] = p],
             done' = done
      PROVE  UNCHANGED S!serviceVars
  <2>1. Outcome' = Outcome
    BY <1>2, <1>5 DEF Outcome
  <2> QED
    BY <1>1, <1>3, <1>5, <2>1 DEF S!serviceVars
<1>6. ASSUME NEW id \in MessageId, W!Sqs(id) PROVE [S!ServiceNext]_S!serviceVars
  <2>1. CASE W!VisibilityTimeout(id)
    BY <1>5, <1>6, <2>1 DEF W!Sqs, W!history, W!VisibilityTimeout
  <2>2. CASE W!Redrive(id)
    BY <1>4, <1>6, <2>2 DEF W!Sqs, W!history, W!Redrive, S!ServiceNext
  <2> QED
    BY <1>6, <2>1, <2>2 DEF W!Sqs
<1>7. ASSUME NEW w \in Process, W!ProcessingSucceeds(w) PROVE S!ServiceNext
  <2>1. /\ held[w] \in MessageId /\ receipt[w] \in 1..MaxReceive
        /\ S!Placed(held[w])
    BY <1>7, HeldIsPlaced, PlacedIffSent DEF W!ProcessingSucceeds
  <2>2. Executed' = Executed \cup {held[w]}
    BY <1>7, <2>1 DEF W!ProcessingSucceeds, W!InHand, Executed, Done
  <2>3. Outcome' = Outcome
    BY <1>7 DEF W!ProcessingSucceeds, W!queueVars, Outcome
  <2> QED
    BY <1>1, <2>1, <2>2, <2>3 DEF S!Execute, S!ServiceNext, S!vars
<1>8. ASSUME place' = place, done' = done PROVE UNCHANGED S!serviceVars
  BY <1>1, <1>3, <1>8 DEF S!serviceVars, Outcome
<1>9. ASSUME NEW w \in Process, W!DeleteSucceeds(w) \/ W!DeleteUnavailable(w)
      PROVE  [S!ServiceNext]_S!serviceVars
  <2>1. held[w] \in MessageId
    BY <1>9, HeldIsPlaced DEF W!DeleteSucceeds, W!DeleteUnavailable
  <2>2. held[w] \in Executed
    BY <1>9, <2>1, HeldIsPlaced
    DEF W!DeleteSucceeds, W!DeleteUnavailable, PInv, WP!IInv, WP!DoneBeforeDelete, WP!InHand,
        Executed, Done
  <2>3. done' = done
    BY <1>9 DEF W!DeleteSucceeds, W!DeleteUnavailable, W!history
  <2>4. \/ place' = place
        \/ /\ place[held[w]] \in {"visible", "hidden"}
           /\ place' = [place EXCEPT ![held[w]] = "deleted"]
    BY <1>9 DEF W!DeleteSucceeds, W!DeleteUnavailable, W!DeleteMessage, W!queueVars
  <2>5. CASE place' = place
    BY <1>8, <2>3, <2>5
  <2>6. CASE /\ place[held[w]] \in {"visible", "hidden"}
             /\ place' = [place EXCEPT ![held[w]] = "deleted"]
    <3>1. S!Settle(held[w], "acknowledged")
      BY <1>4, <2>1, <2>2, <2>3, <2>6
    <3> QED
      BY <2>1, <3>1 DEF S!ServiceNext
  <2> QED
    BY <2>4, <2>5, <2>6
<1>10. ASSUME NEW w \in Process, NEW id \in MessageId, W!Receive(w, id) \/ W!ReceiveLost(w, id)
      PROVE  UNCHANGED S!serviceVars
  BY <1>5, <1>10 DEF W!Receive, W!ReceiveLost, W!ReceiveMessage, W!history
<1>11. ASSUME NEW w \in Process, W!Run(w) PROVE [S!ServiceNext]_S!serviceVars
  BY <1>7, <1>9, <1>10, <1>8, <1>11
  DEF W!Run, W!LoopTop, W!ReceiveNothing, W!ReceiveDenied, W!Abandon, W!BeginHandling,
      W!RefuseMalformed, W!ParseEscapes, W!StartProcessing, W!ProcessingFails, W!DeleteDenied, W!queueVars,
      W!history
<1>12. ASSUME NEW w \in Process, W!RequestShutdown(w) \/ W!Kill(w) \/ W!Start(w)
       PROVE  UNCHANGED S!serviceVars
  BY <1>8, <1>12 DEF W!RequestShutdown, W!Kill, W!Start, W!queueVars, W!history
<1> QED
  BY <1>6, <1>11, <1>12 DEF Consumer, W!Consume

(* The service as a whole, with its races, redeliveries, lost responses and  *)
(* dying processes, keeps the promise of Service.                            *)
THEOREM ServiceRefinement == PipelineSpec => RefinesService
<1>1. PipelineInit => S!ServiceInit
  <2> SUFFICES ASSUME PipelineInit PROVE S!ServiceInit
    OBVIOUS
  <2>1. H!Init
    BY InitMaps DEF PipelineInit
  <2>2. Executed = {} /\ Outcome = [id \in MessageId |-> "open"]
    BY DEF PipelineInit, W!Init, W!QueueInit, Executed, Done, Outcome
  <2> QED
    BY <2>1, <2>2 DEF S!ServiceInit, S!Init, H!Init
<1>2. ASSUME PInv, [PipelineNext]_allVars PROVE [S!ServiceNext]_S!serviceVars
  <2>1. CASE UNCHANGED allVars
    BY <2>1 DEF allVars, vars, jobVars, threadVars, consumerVars, S!serviceVars, Stage, Orders, Told, Known,
                Executed, Done, Outcome
  <2> QED
    BY <1>2, <2>1, ApiImplements, ConsumerImplements DEF PipelineNext
<1> QED
  BY <1>1, <1>2, PipelineInvariance, PTL DEF PipelineSpec, RefinesService, S!ServiceSpec
=============================================================================
