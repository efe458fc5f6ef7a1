--------------------------- MODULE HandoffProofs ---------------------------
(* Proof that the intake implements Handoff, for any sets of jobs, threads   *)
(* and message ids.                                                          *)
EXTENDS IntakeProofs

-----------------------------------------------------------------------------
(* IInv speaks of what a thread did; that a running request has not answered *)
(* yet is needed as well, since a crash cuts it off.                         *)
Unanswered == \A t \in Thread : pc[t] # "idle" => reply[t] # "VALIDATED"

RInv == IInv /\ Unanswered

LEMMA UnansweredInit == Init => Unanswered
BY DEF Init, Unanswered

LEMMA UnansweredNext == IInv /\ Unanswered /\ [Next]_vars => Unanswered'
<1> SUFFICES ASSUME IInv, Unanswered, [Next]_vars PROVE Unanswered'
  OBVIOUS
<1> USE DEF Unanswered, IInv, TypeOK
<1>1. ASSUME NEW j \in Job, Client(j) PROVE Unanswered'
  BY <1>1 DEF Client, CreateUpload, CreateUploadFails, ExpireUrl, DeleteObject, PutObject,
              threadVars
<1>2. ASSUME NEW t \in Thread, Serve(t) PROVE Unanswered'
  BY <1>2, IntakeAssumption, ZenonT(60)
  DEF Serve, BeginValidate, BeginUnknown, HeadObject, ReadMissing, ReadFails, GetObject,
      CheckPublished, SendAccepted, SendUnanswered, SendFails, MarkPublished, RecordVerdict,
      Respond, Goto, Reply, threadVars
<1>3. CASE Crash
  BY <1>3 DEF Crash
<1>4. CASE UNCHANGED threadVars
  BY <1>4 DEF threadVars
<1> QED
  BY <1>1, <1>2, <1>3, <1>4 DEF Next, vars, AcceptLate

-----------------------------------------------------------------------------
(* What the abstract state depends on. *)

(* The stage of a job follows from whether it is known and was issued.       *)
LEMMA StageKept ==
  ASSUME \A j \in Job : Known(j)' <=> Known(j),
         \A j \in Job : (upload'[j] = "unissued") <=> (upload[j] = "unissued")
  PROVE  Stage' = Stage
BY DEF Stage

LEMMA OrdersKept == ASSUME (sent \cup wire)' = sent \cup wire PROVE Orders' = Orders
BY DEF Orders

(* Nobody is told anything new by a step that leaves the VALIDATED replies.  *)
LEMMA ToldKept ==
  ASSUME \A t \in Thread : (reply'[t] = "VALIDATED") <=> (reply[t] = "VALIDATED"),
         \A t \in Thread : reply[t] = "VALIDATED" => target'[t] = target[t]
  PROVE  Told' = Told
BY DEF Told

(* A new request of t takes back what t was told.                            *)
LEMMA ToldNothing ==
  ASSUME TypeOK, NEW t \in Thread,
         \A u \in Thread \ {t} : reply'[u] = reply[u] /\ target'[u] = target[u],
         reply'[t] # "VALIDATED"
  PROVE  Told' = [Told EXCEPT ![t] = None]
BY DEF Told

(* A confirmed send is an order its caller is sure of.                       *)
LEMMA SureIffConfirmed ==
  ASSUME TypeOK, WireHonest, NEW j \in Job, NEW t \in Thread
  PROVE  H!Sure(j, t) # {} <=> \E m \in sent : m.confirmed /\ m.job_id = j /\ m.sender = t
<1> DEFINE Order(m) == [id |-> m.message_id, job |-> m.job_id,
                        caller |-> m.sender, sure |-> m.confirmed]
<1>1. H!Sure(j, t) = {o \in {Order(m) : m \in sent \cup wire} : o.sure /\ o.job = j /\ o.caller = t}
  BY DEF H!Sure, Orders
<1>2. \A m \in sent \cup wire : /\ Order(m).sure = m.confirmed
                               /\ Order(m).job = m.job_id
                               /\ Order(m).caller = m.sender
  OBVIOUS
<1>3. \A m \in wire : ~m.confirmed
  BY DEF WireHonest
<1> HIDE DEF Order
<1> QED
  BY <1>1, <1>2, <1>3

LEMMA OrdersGrow ==
  ASSUME NEW t \in Thread, NEW id \in MessageId, NEW seen \in BOOLEAN, Fresh(id),
         (sent \cup wire)' = (sent \cup wire) \cup {Built(t, id, seen)}
  PROVE  /\ \A o \in Orders : o.id # id
         /\ Orders' = Orders \cup {[id |-> id, job |-> target[t], caller |-> t, sure |-> seen]}
<1> DEFINE new == Built(t, id, seen)
           under == sent \cup wire
           Order(m) == [id |-> m.message_id, job |-> m.job_id,
                        caller |-> m.sender, sure |-> m.confirmed]
<1>1. /\ \A m \in under : m.message_id # id
      /\ under' = under \cup {new}
  BY DEF Fresh
<1>2. Order(new) = [id |-> id, job |-> target[t], caller |-> t, sure |-> seen]
  BY DEF Built
<1>3. Orders = {Order(m) : m \in under} /\ Orders' = {Order(m) : m \in under'}
  BY DEF Orders
<1> HIDE DEF new, under
<1>4. Orders' = Orders \cup {Order(new)}
  BY <1>1, <1>3
<1>5. \A o \in Orders : o.id # id
  BY <1>1, <1>3
<1> QED
  BY <1>2, <1>4, <1>5

-----------------------------------------------------------------------------
(* Every step of the intake is one of Handoff, or leaves its state alone. *)

LEMMA ClientMaps ==
  ASSUME IInv, NEW j \in Job, Client(j)
  PROVE  [H!Next]_H!vars
<1> USE DEF IInv, Knowledge, TypeOK
<1>1. CASE CreateUpload(j) \/ CreateUploadFails(j)
  <2>1. Stage[j] = "unknown" /\ Stage' = [Stage EXCEPT ![j] = "registered"]
    <3> DEFINE new == [status |-> "RECEIVED", message_published |-> FALSE,
                       published_message_id |-> None]
    <3>1. /\ upload[j] = "unissued" /\ ~Known(j)
          /\ registry' = [registry EXCEPT ![j] = new]
          /\ upload'[j] # "unissued"
          /\ \A k \in Job \ {j} : upload'[k] = upload[k]
      BY <1>1 DEF CreateUpload, CreateUploadFails, Put, UnissuedUnknown
    <3>2. new # None
      <4>1. new \in Record
        BY DEF Record, Status
      <4> QED
        BY <4>1, IntakeAssumption
    <3> HIDE DEF new
    <3>3. \A k \in Job : Known(k)' <=> (k = j \/ Known(k))
      BY <3>1, <3>2 DEF Known
    <3> QED
      BY <3>1, <3>3 DEF Stage
  <2>2. Orders' = Orders /\ Told' = Told
    BY <1>1, OrdersKept, ToldKept DEF CreateUpload, CreateUploadFails, threadVars
  <2> QED
    BY <2>1, <2>2 DEF H!Next, H!Register
<1>2. CASE ExpireUrl(j) \/ DeleteObject(j) \/ \E c \in Offered : PutObject(j, c)
  <2>1. Stage' = Stage
    BY <1>2, StageKept DEF ExpireUrl, DeleteObject, PutObject, Known
  <2>2. Orders' = Orders /\ Told' = Told
    BY <1>2, OrdersKept, ToldKept DEF ExpireUrl, DeleteObject, PutObject, threadVars
  <2> QED
    BY <2>1, <2>2 DEF H!vars
<1> QED
  BY <1>1, <1>2 DEF Client

(* A request that begins, or ends without a verdict.                         *)
LEMMA AskMaps ==
  ASSUME IInv, NEW t \in Thread,
         \/ \E j \in Job : BeginValidate(t, j) \/ BeginUnknown(t, j)
         \/ ReadMissing(t)
         \/ \E code \in S3Error : ReadFails(t, code)
         \/ \E code \in SQSError : SendFails(t, code)
         \/ pc[t] = "rejected" /\ RecordVerdict(t)
  PROVE  H!Ask(t)
<1> USE DEF IInv, Knowledge
<1>1. Told' = [Told EXCEPT ![t] = None]
  <2>1. /\ \A u \in Thread \ {t} : reply'[u] = reply[u] /\ target'[u] = target[u]
        /\ reply'[t] # "VALIDATED"
    BY IntakeAssumption
    DEF TypeOK, Reply, BeginValidate, BeginUnknown, ReadMissing, ReadFails, SendFails,
        RecordVerdict, Respond, S3Error, SQSError
  <2> QED
    BY <2>1, ToldNothing
<1>2. Orders' = Orders
  BY OrdersKept
  DEF BeginValidate, BeginUnknown, ReadMissing, ReadFails, SendFails, RecordVerdict, jobVars
<1>3. Stage' = Stage
  <2>1. upload' = upload
    BY DEF BeginValidate, BeginUnknown, ReadMissing, ReadFails, SendFails, RecordVerdict, jobVars
  <2>2. \A k \in Job : Known(k)' <=> Known(k)
    <3>1. CASE \E j \in Job : BeginValidate(t, j)
      BY <3>1, UpdateStatusIsStatusOnly DEF BeginValidate, StatusOnly, Status
    <3>2. CASE pc[t] = "rejected" /\ RecordVerdict(t)
      BY <3>2, UpdateStatusIsStatusOnly DEF RecordVerdict, StatusOnly, Status, RequestsBound
    <3>3. CASE registry' = registry
      BY <3>3 DEF Known
    <3> QED
      BY <3>1, <3>2, <3>3 DEF BeginUnknown, ReadMissing, ReadFails, SendFails, jobVars
  <2> QED
    BY <2>1, <2>2, StageKept
<1> QED
  BY <1>1, <1>2, <1>3 DEF H!Ask

LEMMA SendMaps ==
  ASSUME RInv, NEW t \in Thread, NEW id \in MessageId,
         SendAccepted(t, id) \/ SendUnanswered(t, id)
  PROVE  H!Next
<1> USE DEF RInv, IInv, Knowledge
<1>1. target[t] \in Job /\ Stage[target[t]] = "registered"
  BY DEF SendAccepted, SendUnanswered, RequestsBound, Stage
<1>2. Stage' = Stage
  BY StageKept DEF SendAccepted, SendUnanswered, Known
<1>3. Told' = Told
  BY ToldKept DEF SendAccepted, SendUnanswered, threadVars
<1>4. CASE SendAccepted(t, id)
  <2>1. H!Sure(target[t], t) = {}
    BY <1>1, <1>4, SureIffConfirmed DEF SendAccepted, PublishFresh
  <2>2. (sent \cup wire)' = (sent \cup wire) \cup {Built(t, id, TRUE)} /\ Fresh(id)
    BY <1>4 DEF SendAccepted
  <2>3. H!Place(id, target[t], t, TRUE)
    BY <1>1, <1>2, <1>3, <2>1, <2>2, OrdersGrow DEF H!Place
  <2> QED
    BY <1>1, <2>3 DEF H!Next
<1>5. CASE SendUnanswered(t, id)
  <2>1. (sent \cup wire)' = (sent \cup wire) \cup {Built(t, id, FALSE)} /\ Fresh(id)
    BY <1>5 DEF SendUnanswered
  <2>2. H!Place(id, target[t], t, FALSE)
    BY <1>1, <1>2, <1>3, <2>1, OrdersGrow DEF H!Place
  <2> QED
    BY <1>1, <2>2 DEF H!Next
<1> QED
  BY <1>4, <1>5

(* An order that arrives late was placed when its request went out.          *)
LEMMA LateStutters ==
  ASSUME NEW m \in wire, AcceptLate(m)
  PROVE  UNCHANGED H!vars
<1>1. (sent \cup wire)' = sent \cup wire
  BY DEF AcceptLate
<1>2. Orders' = Orders /\ Stage' = Stage /\ Told' = Told
  BY <1>1, OrdersKept DEF AcceptLate, threadVars, Stage, Told, Known
<1> QED
  BY <1>2 DEF H!vars

LEMMA VerdictMaps ==
  ASSUME IInv, NEW t \in Thread, RecordVerdict(t), pc[t] = "validated"
  PROVE  H!Tell(t, target[t])
<1> USE DEF IInv, Knowledge, Promises
<1>1. target[t] \in Job /\ Known(target[t])
  BY DEF RequestsBound
<1>2. Stage[target[t]] = "registered"
  BY <1>1 DEF Stage
<1>3. \E d \in Thread : H!Sure(target[t], d) # {}
  <2>1. PICK m \in sent : m.confirmed /\ m.job_id = target[t]
    BY <1>1 DEF VerdictMarked, MarkerTruthful
  <2> QED
    BY <1>1, <2>1, SureIffConfirmed DEF TypeOK, Command
<1>4. Stage' = Stage
  BY <1>1, StageKept, UpdateStatusIsStatusOnly DEF RecordVerdict, StatusOnly, Status
<1>5. Orders' = Orders
  BY OrdersKept DEF RecordVerdict
<1>6. Told' = [Told EXCEPT ![t] = target[t]]
  BY DEF TypeOK, Told, RecordVerdict, Respond
<1> QED
  BY <1>1, <1>2, <1>3, <1>4, <1>5, <1>6 DEF H!Tell

(* The steps inside a request are invisible.                                 *)
LEMMA InnerStutters ==
  ASSUME IInv, NEW t \in Thread,
         HeadObject(t) \/ GetObject(t) \/ CheckPublished(t) \/ MarkPublished(t)
  PROVE  UNCHANGED H!vars
<1> USE DEF IInv, Knowledge
<1>1. /\ Orders' = Orders
      /\ Told' = Told
  BY OrdersKept, ToldKept DEF HeadObject, GetObject, CheckPublished, MarkPublished, jobVars
<1>2. Stage' = Stage
  <2>1. CASE MarkPublished(t)
    <3>1. target[t] \in Job /\ command[t] \in MessageId
      BY <2>1 DEF MarkPublished, RequestsBound, MarkBacked, TypeOK, Command
    <3> QED
      BY <2>1, <3>1, StageKept, MarkIsMarkerOnly DEF MarkPublished, MarkerOnly
  <2>2. CASE UNCHANGED jobVars
    BY <2>2, StageKept DEF jobVars, Known
  <2> QED
    BY <2>1, <2>2 DEF HeadObject, GetObject, CheckPublished
<1> QED
  BY <1>1, <1>2 DEF H!vars

LEMMA CrashMaps ==
  ASSUME RInv, Crash
  PROVE  H!Restart
<1> USE DEF RInv, IInv, Knowledge
<1>1. Stage' = [j \in Job |-> IF Stage[j] = "registered" THEN "forgotten" ELSE Stage[j]]
  BY DEF Crash, Stage, Known, UnissuedUnknown
<1>2. Orders' = Orders
  BY OrdersKept DEF Crash
<1>3. Told' = Told
  BY ToldKept DEF TypeOK, Crash, Unanswered
<1> QED
  BY <1>1, <1>2, <1>3 DEF H!Restart

LEMMA InitMaps == Init => H!Init
<1> SUFFICES ASSUME Init PROVE H!Init
  OBVIOUS
<1>1. Stage = [j \in Job |-> "unknown"]
  BY DEF Init, Stage, Known
<1>2. Orders = {}
  BY DEF Init, Orders
<1>3. Told = [t \in Thread |-> None]
  BY IntakeAssumption DEF Init, Told, Reply
<1> QED
  BY <1>1, <1>2, <1>3 DEF H!Init

LEMMA NextMaps == RInv /\ [Next]_vars => [H!Next]_H!vars
<1> SUFFICES ASSUME RInv, [Next]_vars PROVE [H!Next]_H!vars
  OBVIOUS
<1> USE DEF RInv
<1>1. ASSUME NEW j \in Job, Client(j) PROVE [H!Next]_H!vars
  BY <1>1, ClientMaps
<1>2. ASSUME NEW t \in Thread, Serve(t) PROVE [H!Next]_H!vars
  <2>1. CASE \/ \E j \in Job : BeginValidate(t, j) \/ BeginUnknown(t, j)
             \/ ReadMissing(t)
             \/ \E code \in S3Error : ReadFails(t, code)
             \/ \E code \in SQSError : SendFails(t, code)
             \/ pc[t] = "rejected" /\ RecordVerdict(t)
    BY <2>1, AskMaps DEF H!Next
  <2>2. CASE \E id \in MessageId : SendAccepted(t, id) \/ SendUnanswered(t, id)
    BY <2>2, SendMaps
  <2>3. CASE pc[t] = "validated" /\ RecordVerdict(t)
    <3>1. target[t] \in Job
      BY <2>3 DEF IInv, Knowledge, RequestsBound
    <3> QED
      BY <2>3, <3>1, VerdictMaps DEF H!Next
  <2>4. CASE HeadObject(t) \/ GetObject(t) \/ CheckPublished(t) \/ MarkPublished(t)
    BY <2>4, InnerStutters
  <2> QED
    BY <1>2, <2>1, <2>2, <2>3, <2>4 DEF Serve, RecordVerdict
<1>3. CASE Crash
  BY <1>3, CrashMaps DEF H!Next
<1>4. ASSUME NEW m \in wire, AcceptLate(m) PROVE [H!Next]_H!vars
  BY <1>4, LateStutters
<1>5. CASE UNCHANGED vars
  <2>1. Stage' = Stage /\ Orders' = Orders /\ Told' = Told
    BY <1>5 DEF vars, jobVars, threadVars, Stage, Orders, Told, Known
  <2> QED
    BY <2>1 DEF H!vars
<1> QED
  BY <1>1, <1>2, <1>3, <1>4, <1>5 DEF Next

(* The intake implements Handoff: whatever races, retries, lost responses    *)
(* and restarts do, clients and the queue see orders for registered jobs     *)
(* only, one sure order per caller and job, and no unbacked answer.          *)
THEOREM Refinement == Spec => RefinesHandoff
<1>1. Init => RInv
  BY InitInvariant, UnansweredInit DEF RInv
<1>2. RInv /\ [Next]_vars => RInv'
  BY NextInvariant, UnansweredNext DEF RInv
<1> QED
  BY <1>1, <1>2, InitMaps, NextMaps, PTL DEF Spec, RefinesHandoff, H!Spec
=============================================================================
