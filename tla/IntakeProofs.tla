---------------------------- MODULE IntakeProofs ----------------------------
(* Proofs, for any sets of jobs, threads and message ids, that the intake    *)
(* keeps its safety invariants.                                              *)
EXTENDS Intake, TLAPS

-----------------------------------------------------------------------------
(* The inductive invariant: the properties, and what a thread knows at each  *)
(* program point. *)

(* A running request is for a job the registry holds: a crash, which alone   *)
(* forgets records, ends the requests too.                                   *)
RequestsBound ==
  \A t \in Thread : pc[t] # "idle" => target[t] \in Job /\ Known(target[t])

(* A job that was not created yet has left no trace.                         *)
UnissuedUnknown ==
  \A j \in Job : upload[j] = "unissued" =>
    ~Known(j) /\ \A m \in sent \cup wire : m.job_id # j

(* Past validation, the thread holds acceptable bytes.                       *)
VerdictHeld ==
  \A t \in Thread : pc[t] \in {"check", "publish"} =>
    content[t] \in Content /\ Acceptable(content[t])

(* A thread about to publish has no confirmed command for its job yet.       *)
PublishFresh ==
  \A t \in Thread : pc[t] = "publish" =>
    \A m \in sent : m.confirmed /\ m.sender = t => m.job_id # target[t]

(* A thread about to set the marker has its command confirmed.               *)
MarkBacked ==
  \A t \in Thread : pc[t] = "mark" =>
    \E m \in sent : /\ m.confirmed
                    /\ m.job_id = target[t]
                    /\ m.sender = t
                    /\ m.message_id = command[t]

(* A thread about to answer VALIDATED finds the marker set.                  *)
VerdictMarked ==
  \A t \in Thread : pc[t] = "validated" => registry[target[t]].message_published

(* Whatever may still arrive is unknown to its sender, and acceptable.       *)
WireHonest == \A m \in wire : ~m.confirmed /\ Acceptable(m.judged)

Knowledge ==
  /\ RequestsBound
  /\ UnissuedUnknown
  /\ VerdictHeld
  /\ PublishFresh
  /\ MarkBacked
  /\ VerdictMarked
  /\ WireHonest

Promises ==
  /\ MarkerTruthful
  /\ MarkerComplete
  /\ OnlyAcceptablePublished
  /\ OneCommandPerThread
  /\ ReplyBacked

(* TypeOK alone is not inductive: that a command names a job and carries     *)
(* bytes follows from what the publishing thread holds.                      *)
IInv == TypeOK /\ Knowledge /\ Promises

-----------------------------------------------------------------------------
(* What the registry's two updates do to the record of any job. *)

StatusOnly(j, s) ==
  \A k \in Job :
    /\ Known(k)' <=> Known(k)
    /\ Known(k) =>
         /\ registry'[k].status = IF k = j THEN s ELSE registry[k].status
         /\ registry'[k].message_published = registry[k].message_published
         /\ registry'[k].published_message_id = registry[k].published_message_id

MarkerOnly(j, id) ==
  \A k \in Job :
    /\ Known(k)' <=> Known(k)
    /\ Known(k) =>
         /\ registry'[k].status = registry[k].status
         /\ registry'[k].message_published =
              IF k = j THEN TRUE ELSE registry[k].message_published
         /\ registry'[k].published_message_id =
              IF k = j THEN id ELSE registry[k].published_message_id

LEMMA UpdateStatusIsStatusOnly ==
  ASSUME TypeOK, NEW j \in Job, NEW s \in Status, UpdateStatus(j, s)
  PROVE  registry' \in [Job -> Record \cup {None}] /\ StatusOnly(j, s)
<1>1. CASE Known(j)
  BY <1>1, IntakeAssumption DEF TypeOK, UpdateStatus, StatusOnly, Known, Record
<1>2. CASE ~Known(j)
  BY <1>2 DEF TypeOK, UpdateStatus, StatusOnly, Known
<1> QED
  BY <1>1, <1>2

LEMMA MarkIsMarkerOnly ==
  ASSUME TypeOK, NEW j \in Job, NEW id \in MessageId, Mark(j, id)
  PROVE  registry' \in [Job -> Record \cup {None}] /\ MarkerOnly(j, id)
<1>1. CASE Known(j)
  <2> DEFINE r == [registry[j] EXCEPT !.message_published = TRUE,
                                      !.published_message_id = id]
  <2>1. registry[j] \in Record
    BY <1>1 DEF TypeOK, Known
  <2>2. /\ r \in Record
        /\ r.status = registry[j].status
        /\ r.message_published = TRUE
        /\ r.published_message_id = id
    BY <2>1 DEF Record
  <2>3. registry' = [registry EXCEPT ![j] = r]
    BY <1>1, <2>1 DEF Mark, TypeOK, Record
  <2> QED
    BY <1>1, <2>2, <2>3, IntakeAssumption DEF TypeOK, MarkerOnly, Known
<1>2. CASE ~Known(j)
  BY <1>2 DEF TypeOK, Mark, MarkerOnly, Known
<1> QED
  BY <1>1, <1>2

-----------------------------------------------------------------------------
(* Every action preserves the inductive invariant. *)

LEMMA CreateUploadStep ==
  ASSUME IInv, NEW j \in Job, CreateUpload(j)
  PROVE  IInv'
<1> USE DEF IInv, Knowledge, Promises, CreateUpload, Put, threadVars, Known
<1>1. TypeOK'
  BY IntakeAssumption DEF TypeOK, Record, Status
<1>2. RequestsBound'
  BY DEF TypeOK, RequestsBound, UnissuedUnknown
<1>3. VerdictMarked'
  BY DEF TypeOK, VerdictMarked, RequestsBound, UnissuedUnknown, Record
<1>4. MarkerComplete'
  BY DEF TypeOK, MarkerComplete, UnissuedUnknown, Record
<1>5. UnissuedUnknown' /\ MarkerTruthful'
  BY DEF TypeOK, UnissuedUnknown, MarkerTruthful, Record
<1>6. VerdictHeld' /\ PublishFresh' /\ MarkBacked'
      /\ OnlyAcceptablePublished' /\ OneCommandPerThread' /\ ReplyBacked' /\ WireHonest'
  BY DEF WireHonest, VerdictHeld, PublishFresh, MarkBacked, OnlyAcceptablePublished,
         OneCommandPerThread, ReplyBacked, HandedOff
<1> QED
  BY <1>1, <1>2, <1>3, <1>4, <1>5, <1>6

LEMMA CreateUploadFailsStep ==
  ASSUME IInv, NEW j \in Job, CreateUploadFails(j)
  PROVE  IInv'
<1> USE DEF IInv, Knowledge, Promises, CreateUploadFails, Put, threadVars, Known
<1>1. TypeOK'
  BY IntakeAssumption DEF TypeOK, Record, Status
<1>2. RequestsBound'
  BY DEF TypeOK, RequestsBound, UnissuedUnknown
<1>3. VerdictMarked'
  BY DEF TypeOK, VerdictMarked, RequestsBound, UnissuedUnknown, Record
<1>4. MarkerComplete'
  BY DEF TypeOK, MarkerComplete, UnissuedUnknown, Record
<1>5. UnissuedUnknown' /\ MarkerTruthful'
  BY DEF TypeOK, UnissuedUnknown, MarkerTruthful, Record
<1>6. VerdictHeld' /\ PublishFresh' /\ MarkBacked'
      /\ OnlyAcceptablePublished' /\ OneCommandPerThread' /\ ReplyBacked' /\ WireHonest'
  BY DEF WireHonest, VerdictHeld, PublishFresh, MarkBacked, OnlyAcceptablePublished,
         OneCommandPerThread, ReplyBacked, HandedOff
<1> QED
  BY <1>1, <1>2, <1>3, <1>4, <1>5, <1>6

LEMMA PutObjectStep ==
  ASSUME IInv, NEW j \in Job, NEW c \in Content, PutObject(j, c)
  PROVE  IInv'
<1> USE DEF IInv, Knowledge, Promises, PutObject, threadVars, Known
<1>1. TypeOK'
  BY IntakeAssumption DEF TypeOK
<1>2. RequestsBound' /\ UnissuedUnknown' /\ VerdictHeld' /\ PublishFresh'
      /\ MarkBacked' /\ VerdictMarked' /\ MarkerTruthful' /\ MarkerComplete'
      /\ OnlyAcceptablePublished' /\ OneCommandPerThread' /\ ReplyBacked' /\ WireHonest'
  BY DEF WireHonest, RequestsBound, UnissuedUnknown, VerdictHeld, PublishFresh,
         MarkBacked, VerdictMarked, MarkerTruthful, MarkerComplete,
         OnlyAcceptablePublished, OneCommandPerThread, ReplyBacked, HandedOff
<1> QED
  BY <1>1, <1>2

LEMMA ExpireUrlStep ==
  ASSUME IInv, NEW j \in Job, ExpireUrl(j)
  PROVE  IInv'
<1> USE DEF IInv, Knowledge, Promises, ExpireUrl, threadVars, Known
<1>1. TypeOK'
  BY IntakeAssumption DEF TypeOK
<1>2. UnissuedUnknown'
  BY DEF TypeOK, UnissuedUnknown
<1>3. RequestsBound' /\ VerdictHeld' /\ PublishFresh' /\ MarkBacked'
      /\ VerdictMarked' /\ MarkerTruthful' /\ MarkerComplete'
      /\ OnlyAcceptablePublished' /\ OneCommandPerThread' /\ ReplyBacked' /\ WireHonest'
  BY DEF WireHonest, RequestsBound, VerdictHeld, PublishFresh, MarkBacked, VerdictMarked,
         MarkerTruthful, MarkerComplete, OnlyAcceptablePublished,
         OneCommandPerThread, ReplyBacked, HandedOff
<1> QED
  BY <1>1, <1>2, <1>3

LEMMA DeleteObjectStep ==
  ASSUME IInv, NEW j \in Job, DeleteObject(j)
  PROVE  IInv'
<1> USE DEF IInv, Knowledge, Promises, DeleteObject, threadVars, Known
<1>1. TypeOK'
  BY IntakeAssumption DEF TypeOK
<1>2. RequestsBound' /\ UnissuedUnknown' /\ VerdictHeld' /\ PublishFresh'
      /\ MarkBacked' /\ VerdictMarked' /\ MarkerTruthful' /\ MarkerComplete'
      /\ OnlyAcceptablePublished' /\ OneCommandPerThread' /\ ReplyBacked' /\ WireHonest'
  BY DEF WireHonest, RequestsBound, UnissuedUnknown, VerdictHeld, PublishFresh,
         MarkBacked, VerdictMarked, MarkerTruthful, MarkerComplete,
         OnlyAcceptablePublished, OneCommandPerThread, ReplyBacked, HandedOff
<1> QED
  BY <1>1, <1>2

LEMMA BeginValidateStep ==
  ASSUME IInv, NEW t \in Thread, NEW j \in Job, BeginValidate(t, j)
  PROVE  IInv'
<1> USE DEF IInv, Knowledge, Promises, BeginValidate, Goto, Known, StatusOnly
<1>0. registry' \in [Job -> Record \cup {None}] /\ StatusOnly(j, "VALIDATING")
  BY UpdateStatusIsStatusOnly DEF Status
<1>1. TypeOK'
  BY <1>0 DEF TypeOK, PC
<1>2. RequestsBound'
  BY <1>0 DEF TypeOK, RequestsBound
<1>3. UnissuedUnknown'
  BY <1>0 DEF TypeOK, UnissuedUnknown
<1>4. VerdictMarked'
  BY <1>0 DEF TypeOK, VerdictMarked, RequestsBound
<1>5. MarkerTruthful'
  BY <1>0 DEF TypeOK, MarkerTruthful
<1>6. MarkerComplete'
  BY <1>0 DEF TypeOK, MarkerComplete, Command
<1>7. ReplyBacked'
  BY <1>1, IntakeAssumption DEF TypeOK, ReplyBacked, HandedOff, Reply
<1>8. VerdictHeld' /\ PublishFresh' /\ MarkBacked'
  BY DEF TypeOK, VerdictHeld, PublishFresh, MarkBacked
<1>9. OnlyAcceptablePublished' /\ OneCommandPerThread' /\ WireHonest'
  BY DEF WireHonest, OnlyAcceptablePublished, OneCommandPerThread
<1> QED
  BY <1>1, <1>2, <1>3, <1>4, <1>5, <1>6, <1>7, <1>8, <1>9

LEMMA BeginUnknownStep ==
  ASSUME IInv, NEW t \in Thread, NEW j \in Job, BeginUnknown(t, j)
  PROVE  IInv'
<1> USE DEF IInv, Knowledge, Promises, BeginUnknown, Respond, Goto, jobVars, Known
<1>1. TypeOK'
  BY IntakeAssumption DEF TypeOK, PC, Reply
<1>2. RequestsBound' /\ VerdictHeld' /\ PublishFresh' /\ MarkBacked'
      /\ VerdictMarked' /\ MarkerComplete' /\ ReplyBacked'
  BY DEF TypeOK, RequestsBound, VerdictHeld, PublishFresh, MarkBacked,
         VerdictMarked, MarkerComplete, ReplyBacked, HandedOff
<1>3. UnissuedUnknown' /\ MarkerTruthful' /\ OnlyAcceptablePublished'
      /\ OneCommandPerThread' /\ WireHonest'
  BY DEF WireHonest, UnissuedUnknown, MarkerTruthful, OnlyAcceptablePublished,
         OneCommandPerThread
<1> QED
  BY <1>1, <1>2, <1>3

LEMMA HeadObjectStep ==
  ASSUME IInv, NEW t \in Thread, HeadObject(t)
  PROVE  IInv'
<1> USE DEF IInv, Knowledge, Promises, HeadObject, Goto, jobVars, Known
<1>1. TypeOK'
  BY IntakeAssumption DEF TypeOK, PC
<1>2. RequestsBound' /\ VerdictHeld' /\ PublishFresh' /\ MarkBacked'
      /\ VerdictMarked' /\ MarkerComplete'
  BY DEF TypeOK, RequestsBound, VerdictHeld, PublishFresh, MarkBacked,
         VerdictMarked, MarkerComplete
<1>3. UnissuedUnknown' /\ MarkerTruthful' /\ OnlyAcceptablePublished'
      /\ OneCommandPerThread' /\ ReplyBacked' /\ WireHonest'
  BY DEF WireHonest, UnissuedUnknown, MarkerTruthful, OnlyAcceptablePublished,
         OneCommandPerThread, ReplyBacked, HandedOff
<1> QED
  BY <1>1, <1>2, <1>3

LEMMA ReadMissingStep ==
  ASSUME IInv, NEW t \in Thread, ReadMissing(t)
  PROVE  IInv'
<1> USE DEF IInv, Knowledge, Promises, ReadMissing, Respond, Goto, jobVars, Known
<1>1. TypeOK'
  BY IntakeAssumption DEF TypeOK, PC, Reply
<1>2. RequestsBound' /\ VerdictHeld' /\ PublishFresh' /\ MarkBacked'
      /\ VerdictMarked' /\ MarkerComplete' /\ ReplyBacked'
  BY DEF TypeOK, RequestsBound, VerdictHeld, PublishFresh, MarkBacked,
         VerdictMarked, MarkerComplete, ReplyBacked, HandedOff
<1>3. UnissuedUnknown' /\ MarkerTruthful' /\ OnlyAcceptablePublished'
      /\ OneCommandPerThread' /\ WireHonest'
  BY DEF WireHonest, UnissuedUnknown, MarkerTruthful, OnlyAcceptablePublished,
         OneCommandPerThread
<1> QED
  BY <1>1, <1>2, <1>3

LEMMA ReadFailsStep ==
  ASSUME IInv, NEW t \in Thread, NEW code \in S3Error, ReadFails(t, code)
  PROVE  IInv'
<1> USE DEF IInv, Knowledge, Promises, ReadFails, Respond, Goto, jobVars, Known
<1>1. TypeOK'
  BY IntakeAssumption DEF TypeOK, PC, Reply, S3Error
<1>2. RequestsBound' /\ VerdictHeld' /\ PublishFresh' /\ MarkBacked'
      /\ VerdictMarked' /\ MarkerComplete' /\ ReplyBacked'
  BY DEF TypeOK, RequestsBound, VerdictHeld, PublishFresh, MarkBacked,
         VerdictMarked, MarkerComplete, ReplyBacked, HandedOff, S3Error
<1>3. UnissuedUnknown' /\ MarkerTruthful' /\ OnlyAcceptablePublished'
      /\ OneCommandPerThread' /\ WireHonest'
  BY DEF WireHonest, UnissuedUnknown, MarkerTruthful, OnlyAcceptablePublished,
         OneCommandPerThread
<1> QED
  BY <1>1, <1>2, <1>3

LEMMA GetObjectStep ==
  ASSUME IInv, NEW t \in Thread, GetObject(t)
  PROVE  IInv'
<1> USE DEF IInv, Knowledge, Promises, GetObject, Goto, jobVars, Known
<1>1. TypeOK'
  BY IntakeAssumption DEF TypeOK, PC, RequestsBound
<1>2. VerdictHeld'
  <2>1. ASSUME ValidateContent(objects[target[t]]) = "VALIDATED"
        PROVE  /\ objects[target[t]] \in Content
               /\ Acceptable(objects[target[t]])
    <3>1. objects[target[t]] \in Content
      BY DEF TypeOK, RequestsBound
    <3>2. objects[target[t]].size \in Nat
      BY <3>1, IntakeAssumption DEF Content
    <3> QED
      BY <2>1, <3>1, <3>2, IntakeAssumption
      DEF ValidateContent, ValidateFile, Acceptable, Content
  <2> QED
    BY <2>1 DEF TypeOK, VerdictHeld
<1>3. RequestsBound' /\ PublishFresh' /\ MarkBacked' /\ VerdictMarked'
      /\ MarkerComplete'
  BY DEF TypeOK, RequestsBound, PublishFresh, MarkBacked, VerdictMarked,
         MarkerComplete
<1>4. UnissuedUnknown' /\ MarkerTruthful' /\ OnlyAcceptablePublished'
      /\ OneCommandPerThread' /\ ReplyBacked' /\ WireHonest'
  BY DEF WireHonest, UnissuedUnknown, MarkerTruthful, OnlyAcceptablePublished,
         OneCommandPerThread, ReplyBacked, HandedOff
<1> QED
  BY <1>1, <1>2, <1>3, <1>4

LEMMA CheckPublishedStep ==
  ASSUME IInv, NEW t \in Thread, CheckPublished(t)
  PROVE  IInv'
<1> USE DEF IInv, Knowledge, Promises, CheckPublished, AlreadyPublished, Goto, jobVars, Known
<1>1. TypeOK'
  BY IntakeAssumption DEF TypeOK, PC
<1>2. PublishFresh'
  BY DEF TypeOK, PublishFresh, MarkerComplete, RequestsBound
<1>3. RequestsBound' /\ VerdictHeld' /\ MarkBacked' /\ VerdictMarked'
      /\ MarkerComplete'
  BY DEF TypeOK, RequestsBound, VerdictHeld, MarkBacked, VerdictMarked,
         MarkerComplete
<1>4. UnissuedUnknown' /\ MarkerTruthful' /\ OnlyAcceptablePublished'
      /\ OneCommandPerThread' /\ ReplyBacked' /\ WireHonest'
  BY DEF WireHonest, UnissuedUnknown, MarkerTruthful, OnlyAcceptablePublished,
         OneCommandPerThread, ReplyBacked, HandedOff
<1> QED
  BY <1>1, <1>2, <1>3, <1>4

(* A thread about to publish has what a command is made of.                  *)
LEMMA ReadyToPublish ==
  ASSUME IInv, NEW t \in Thread, pc[t] = "publish"
  PROVE  /\ target[t] \in Job /\ Known(target[t])
         /\ content[t] \in Content /\ Acceptable(content[t])
BY DEF IInv, Knowledge, RequestsBound, VerdictHeld

LEMMA SendAcceptedStep ==
  ASSUME IInv, NEW t \in Thread, NEW id \in MessageId, SendAccepted(t, id)
  PROVE  IInv'
<1> USE DEF IInv, Knowledge, Promises, SendAccepted, Goto, Known
<1> DEFINE c == Built(t, id, TRUE)
<1>0. /\ c \in Command /\ c.message_id = id /\ c.job_id = target[t] /\ c.sender = t
      /\ c.confirmed = TRUE /\ Acceptable(c.judged) /\ sent' = sent \cup {c}
  <2>1. pc[t] = "publish" /\ sent' = sent \cup {c}
    OBVIOUS
  <2> HIDE DEF IInv, SendAccepted, Acceptable
  <2>2. target[t] \in Job /\ content[t] \in Content /\ Acceptable(content[t])
    BY <2>1, ReadyToPublish
  <2>3. c.judged = content[t] /\ c.confirmed = TRUE
    BY DEF Built
  <2>4. c \in Command /\ c.message_id = id /\ c.job_id = target[t] /\ c.sender = t
    BY <2>2 DEF Built, Command
  <2> QED
    BY <2>1, <2>2, <2>3, <2>4
<1> HIDE DEF c
<1>1. TypeOK'
  BY <1>0 DEF TypeOK, PC
<1>2. UnissuedUnknown'
  <2>1. target[t] \in Job /\ Known(target[t])
    BY DEF RequestsBound
  <2>2. \A j \in Job : upload[j] = "unissued" => ~Known(j) /\ c.job_id # j
    BY <1>0, <2>1 DEF UnissuedUnknown
  <2> QED
    BY <1>0, <2>2 DEF UnissuedUnknown
<1>3. MarkBacked'
  BY <1>0, ZenonT(60) DEF TypeOK, MarkBacked
<1>4. OnlyAcceptablePublished' /\ WireHonest'
  BY <1>0 DEF OnlyAcceptablePublished, WireHonest
<1>5. OneCommandPerThread'
  <2>1. \A m \in sent : m.confirmed /\ m.sender = t => m.job_id # target[t]
    BY DEF PublishFresh
  <2> QED
    BY <1>0, <2>1 DEF OneCommandPerThread
<1>6. RequestsBound' /\ VerdictHeld' /\ VerdictMarked' /\ MarkerTruthful'
  BY <1>0 DEF TypeOK, RequestsBound, VerdictHeld, VerdictMarked, MarkerTruthful
<1>7. PublishFresh' /\ MarkerComplete' /\ ReplyBacked'
  BY <1>0, ZenonT(60)
  DEF TypeOK, PublishFresh, MarkerComplete, ReplyBacked, HandedOff, Command
<1> QED
  BY <1>1, <1>2, <1>3, <1>4, <1>5, <1>6, <1>7

LEMMA SendUnansweredStep ==
  ASSUME IInv, NEW t \in Thread, NEW id \in MessageId, SendUnanswered(t, id)
  PROVE  IInv'
<1> USE DEF IInv, Knowledge, Promises, SendUnanswered, threadVars, Known
<1> DEFINE c == Built(t, id, FALSE)
<1>0. /\ c \in Command /\ c.job_id = target[t] /\ c.confirmed = FALSE
      /\ Acceptable(c.judged) /\ wire' = wire \cup {c}
  <2>1. pc[t] = "publish" /\ wire' = wire \cup {c}
    OBVIOUS
  <2> HIDE DEF IInv, SendUnanswered, Acceptable
  <2>2. target[t] \in Job /\ content[t] \in Content /\ Acceptable(content[t])
    BY <2>1, ReadyToPublish
  <2>3. c.judged = content[t] /\ c.confirmed = FALSE
    BY DEF Built
  <2>4. c \in Command /\ c.job_id = target[t]
    BY <2>2 DEF Built, Command
  <2> QED
    BY <2>1, <2>2, <2>3, <2>4
<1> HIDE DEF c
<1>1. TypeOK'
  BY <1>0 DEF TypeOK
<1>2. UnissuedUnknown' /\ WireHonest'
  BY <1>0, ZenonT(60) DEF TypeOK, UnissuedUnknown, WireHonest, RequestsBound
<1>3. RequestsBound' /\ VerdictHeld' /\ PublishFresh' /\ MarkBacked'
      /\ VerdictMarked' /\ MarkerTruthful' /\ MarkerComplete'
      /\ OnlyAcceptablePublished' /\ OneCommandPerThread' /\ ReplyBacked'
  BY DEF RequestsBound, VerdictHeld, PublishFresh, MarkBacked, VerdictMarked,
         MarkerTruthful, MarkerComplete, OnlyAcceptablePublished,
         OneCommandPerThread, ReplyBacked, HandedOff
<1> QED
  BY <1>1, <1>2, <1>3

LEMMA AcceptLateStep ==
  ASSUME IInv, NEW m \in wire, AcceptLate(m)
  PROVE  IInv'
<1> USE DEF IInv, Knowledge, Promises, AcceptLate, threadVars, Known
<1>0. m \in Command /\ ~m.confirmed /\ Acceptable(m.judged)
  BY DEF TypeOK, WireHonest
<1>1. TypeOK'
  BY <1>0 DEF TypeOK
<1>2. UnissuedUnknown' /\ WireHonest' /\ OnlyAcceptablePublished'
  BY <1>0 DEF UnissuedUnknown, WireHonest, OnlyAcceptablePublished
<1>3. RequestsBound' /\ VerdictHeld' /\ PublishFresh' /\ MarkBacked'
      /\ VerdictMarked' /\ MarkerTruthful' /\ MarkerComplete'
      /\ OneCommandPerThread' /\ ReplyBacked'
  BY <1>0
  DEF RequestsBound, VerdictHeld, PublishFresh, MarkBacked, VerdictMarked,
      MarkerTruthful, MarkerComplete, OneCommandPerThread, ReplyBacked, HandedOff
<1> QED
  BY <1>1, <1>2, <1>3

LEMMA SendFailsStep ==
  ASSUME IInv, NEW t \in Thread, NEW code \in SQSError, SendFails(t, code)
  PROVE  IInv'
<1> USE DEF IInv, Knowledge, Promises, SendFails, Respond, Goto, jobVars, Known
<1>1. TypeOK'
  BY IntakeAssumption DEF TypeOK, PC, Reply, SQSError
<1>2. RequestsBound' /\ VerdictHeld' /\ PublishFresh' /\ MarkBacked'
      /\ VerdictMarked' /\ MarkerComplete' /\ ReplyBacked'
  BY DEF TypeOK, RequestsBound, VerdictHeld, PublishFresh, MarkBacked,
         VerdictMarked, MarkerComplete, ReplyBacked, HandedOff, SQSError
<1>3. UnissuedUnknown' /\ MarkerTruthful' /\ OnlyAcceptablePublished'
      /\ OneCommandPerThread' /\ WireHonest'
  BY DEF WireHonest, UnissuedUnknown, MarkerTruthful, OnlyAcceptablePublished,
         OneCommandPerThread
<1> QED
  BY <1>1, <1>2, <1>3

LEMMA MarkPublishedStep ==
  ASSUME IInv, NEW t \in Thread, MarkPublished(t)
  PROVE  IInv'
<1> USE DEF IInv, Knowledge, Promises, MarkPublished, Goto, Known, MarkerOnly
<1>0. registry' \in [Job -> Record \cup {None}] /\ MarkerOnly(target[t], command[t])
  <2>1. command[t] \in MessageId
    BY DEF TypeOK, MarkBacked, Command
  <2> QED
    BY <2>1, MarkIsMarkerOnly DEF RequestsBound
<1>1. TypeOK'
  BY <1>0 DEF TypeOK, PC
<1>2. RequestsBound'
  BY <1>0 DEF TypeOK, RequestsBound
<1>3. UnissuedUnknown'
  BY <1>0 DEF TypeOK, UnissuedUnknown
<1>4. VerdictMarked'
  BY <1>0 DEF TypeOK, VerdictMarked, RequestsBound
<1>5. MarkerTruthful'
  <2>1. \E m \in sent : /\ m.confirmed
                        /\ m.job_id = target[t]
                        /\ m.message_id = command[t]
    BY DEF MarkBacked
  <2>2. target[t] \in Job /\ Known(target[t])
    BY DEF RequestsBound
  <2> SUFFICES ASSUME NEW j \in Job, Known(j)'
               PROVE  /\ registry'[j].status = "VALIDATED" => registry'[j].message_published
                      /\ registry'[j].message_published =>
                           \E m \in sent : /\ m.confirmed
                                           /\ m.job_id = j
                                           /\ m.message_id = registry'[j].published_message_id
    BY DEF MarkerTruthful
  <2>3. CASE j = target[t]
    BY <1>0, <2>1, <2>2, <2>3, ZenonT(60)
  <2>4. CASE j # target[t]
    <3>1. Known(j)
      BY <1>0
    <3>2. /\ registry'[j].status = registry[j].status
          /\ registry'[j].message_published = registry[j].message_published
          /\ registry'[j].published_message_id = registry[j].published_message_id
      BY <1>0, <2>4, <3>1
    <3>3. /\ registry[j].status = "VALIDATED" => registry[j].message_published
          /\ registry[j].message_published =>
               \E m \in sent : /\ m.confirmed
                               /\ m.job_id = j
                               /\ m.message_id = registry[j].published_message_id
      BY <3>1 DEF MarkerTruthful
    <3> QED
      BY <3>2, <3>3
  <2> QED
    BY <2>3, <2>4
<1>6. MarkerComplete'
  <2> SUFFICES ASSUME NEW m \in sent, m.confirmed, Known(m.job_id)'
               PROVE  \/ registry'[m.job_id].message_published
                      \/ /\ pc'[m.sender] = "mark"
                         /\ target[m.sender] = m.job_id
                         /\ command[m.sender] = m.message_id
    BY DEF MarkerComplete
  <2>1. m.job_id \in Job /\ m.sender \in Thread
    BY DEF TypeOK, Command
  <2>2. target[t] \in Job
    BY DEF RequestsBound
  <2>3. CASE m.job_id = target[t]
    BY <1>0, <2>1, <2>2, <2>3
  <2>4. CASE m.job_id # target[t]
    BY <1>0, <2>1, <2>4, ZenonT(60) DEF TypeOK, MarkerComplete
  <2> QED
    BY <2>3, <2>4
<1>7. VerdictHeld' /\ PublishFresh' /\ MarkBacked'
  BY DEF TypeOK, VerdictHeld, PublishFresh, MarkBacked
<1>8. OnlyAcceptablePublished' /\ OneCommandPerThread' /\ ReplyBacked' /\ WireHonest'
  BY DEF WireHonest, OnlyAcceptablePublished, OneCommandPerThread, ReplyBacked, HandedOff
<1> QED
  BY <1>1, <1>2, <1>3, <1>4, <1>5, <1>6, <1>7, <1>8

LEMMA RecordVerdictStep ==
  ASSUME IInv, NEW t \in Thread, RecordVerdict(t)
  PROVE  IInv'
<1> USE DEF IInv, Knowledge, Promises, RecordVerdict, Respond, Goto, Known, StatusOnly
<1>0. /\ registry' \in [Job -> Record \cup {None}]
      /\ StatusOnly(target[t], IF pc[t] = "validated" THEN "VALIDATED" ELSE "REJECTED")
  BY UpdateStatusIsStatusOnly DEF RequestsBound, Status
<1>1. TypeOK'
  BY <1>0 DEF TypeOK, PC, Reply
<1>2. RequestsBound'
  BY <1>0 DEF TypeOK, RequestsBound
<1>3. UnissuedUnknown'
  BY <1>0 DEF TypeOK, UnissuedUnknown
<1>4. VerdictMarked'
  BY <1>0 DEF TypeOK, VerdictMarked, RequestsBound
<1>5. MarkerTruthful'
  BY <1>0 DEF TypeOK, MarkerTruthful, VerdictMarked, RequestsBound
<1>6. MarkerComplete'
  BY <1>0 DEF TypeOK, MarkerComplete, RequestsBound, Command
<1>7. ReplyBacked'
  BY DEF TypeOK, ReplyBacked, VerdictMarked, MarkerTruthful, RequestsBound, HandedOff
<1>8. VerdictHeld' /\ PublishFresh' /\ MarkBacked'
  BY DEF TypeOK, VerdictHeld, PublishFresh, MarkBacked
<1>9. OnlyAcceptablePublished' /\ OneCommandPerThread' /\ WireHonest'
  BY DEF WireHonest, OnlyAcceptablePublished, OneCommandPerThread
<1> QED
  BY <1>1, <1>2, <1>3, <1>4, <1>5, <1>6, <1>7, <1>8, <1>9

LEMMA CrashStep ==
  ASSUME IInv, Crash
  PROVE  IInv'
<1> USE DEF IInv, Knowledge, Promises, Crash, Known
<1>1. TypeOK'
  BY IntakeAssumption DEF TypeOK, PC, Reply
<1>2. MarkerComplete'
  BY <1>1, IntakeAssumption DEF TypeOK, MarkerComplete, Command
<1>3. RequestsBound' /\ UnissuedUnknown' /\ VerdictHeld' /\ PublishFresh'
      /\ MarkBacked' /\ VerdictMarked' /\ MarkerTruthful' /\ ReplyBacked'
  BY DEF TypeOK, RequestsBound, UnissuedUnknown, VerdictHeld, PublishFresh,
         MarkBacked, VerdictMarked, Record, MarkerTruthful, ReplyBacked,
         HandedOff
<1>4. OnlyAcceptablePublished' /\ OneCommandPerThread' /\ WireHonest'
  BY DEF WireHonest, OnlyAcceptablePublished, OneCommandPerThread
<1> QED
  BY <1>1, <1>2, <1>3, <1>4

-----------------------------------------------------------------------------
(* The theorems. *)

LEMMA InitInvariant == Init => IInv
<1> SUFFICES ASSUME Init PROVE IInv
  OBVIOUS
<1>1. TypeOK
  BY DEF Init, TypeOK, PC
<1>2. Knowledge
  BY DEF Init, Knowledge, WireHonest, RequestsBound, UnissuedUnknown, VerdictHeld,
         PublishFresh, MarkBacked, VerdictMarked, Known
<1>3. Promises
  BY IntakeAssumption
  DEF Init, Promises, MarkerTruthful, MarkerComplete, OnlyAcceptablePublished,
      OneCommandPerThread, ReplyBacked, Known, Reply
<1> QED
  BY <1>1, <1>2, <1>3 DEF IInv

LEMMA NextInvariant == IInv /\ [Next]_vars => IInv'
<1> SUFFICES ASSUME IInv, [Next]_vars PROVE IInv'
  OBVIOUS
<1>1. ASSUME NEW j \in Job, Client(j) PROVE IInv'
  BY <1>1, IntakeAssumption, CreateUploadStep, CreateUploadFailsStep, ExpireUrlStep,
     DeleteObjectStep, PutObjectStep DEF Client
<1>2. ASSUME NEW t \in Thread, Serve(t) PROVE IInv'
  BY <1>2, BeginValidateStep, BeginUnknownStep, HeadObjectStep, ReadMissingStep,
     ReadFailsStep, GetObjectStep, CheckPublishedStep, SendAcceptedStep,
     SendUnansweredStep, SendFailsStep, MarkPublishedStep, RecordVerdictStep DEF Serve
<1>3. ASSUME NEW m \in wire, AcceptLate(m) PROVE IInv'
  BY <1>3, AcceptLateStep
<1>4. CASE Crash
  BY <1>4, CrashStep
<1>5. CASE UNCHANGED vars
  BY <1>5 DEF vars, jobVars, threadVars, WireHonest, IInv, TypeOK, Knowledge, Promises, RequestsBound,
         UnissuedUnknown, VerdictHeld, PublishFresh, MarkBacked, VerdictMarked,
         MarkerTruthful, MarkerComplete, OnlyAcceptablePublished,
         OneCommandPerThread, ReplyBacked, HandedOff, Known
<1> QED
  BY <1>1, <1>2, <1>3, <1>4, <1>5 DEF Next

(* The strengthened invariant holds in every reachable state of the intake.  *)
THEOREM Invariance == Spec => []IInv
BY InitInvariant, NextInvariant, PTL DEF Spec

(* Registry, bucket, queue and request threads keep their types.             *)
THEOREM TypeCorrect == Spec => []TypeOK
BY Invariance, PTL DEF IInv

(* Publish first, mark second works under any interleaving: the registry     *)
(* never claims a hand-off the queue did not confirm.                        *)
THEOREM MarkerIsTruthful == Spec => []MarkerTruthful
<1>1. IInv => MarkerTruthful
  BY DEF IInv, Promises
<1> QED
  BY <1>1, Invariance, PTL

(* No confirmed hand-off is forgotten while the process lives.               *)
THEOREM MarkerIsComplete == Spec => []MarkerComplete
<1>1. IInv => MarkerComplete
  BY DEF IInv, Promises
<1> QED
  BY <1>1, Invariance, PTL

(* No bytes that break a rule of validators.py lead to a command, whoever    *)
(* replaces the object between the two reads.                                *)
THEOREM PublishedIsAcceptable == Spec => []OnlyAcceptablePublished
<1>1. IInv => OnlyAcceptablePublished
  BY DEF IInv, Promises
<1> QED
  BY <1>1, Invariance, PTL

(* Nobody is told VALIDATED without a command in the queue.                  *)
THEOREM ReplyIsBacked == Spec => []ReplyBacked
<1>1. IInv => ReplyBacked
  BY DEF IInv, Promises
<1> QED
  BY <1>1, Invariance, PTL

(* A thread has at most one command per job confirmed, over any number of    *)
(* validate requests, retries and restarts.                                  *)
THEOREM OneCommandEach == Spec => []OneCommandPerThread
<1>1. IInv => OneCommandPerThread
  BY DEF IInv, Promises
<1> QED
  BY <1>1, Invariance, PTL

(* With one worker thread, the intake does what mark_published promises: no  *)
(* job is enqueued twice.  With two it does not (see AtMostOneCommandPerJob).*)
THEOREM SerialPublishesOnce ==
  ASSUME \A t, u \in Thread : t = u
  PROVE  Spec => []AtMostOneCommandPerJob
<1>1. IInv => AtMostOneCommandPerJob
  BY DEF IInv, TypeOK, Command, Promises, OneCommandPerThread, AtMostOneCommandPerJob
<1> QED
  BY <1>1, Invariance, PTL

-----------------------------------------------------------------------------
(* Overlap is the only cause of a confirmed duplicate. *)

(* As PublishFresh, but for the commands of every thread.                    *)
PublishFirst ==
  \A t \in Thread : pc[t] = "publish" =>
    \A m \in sent : m.confirmed => m.job_id # target[t]

(* Only a SendMessage that SQS accepts adds a command, answered or late.     *)
LEMMA OnlySendsAdd ==
  ASSUME [Next]_vars
  PROVE  \/ sent' = sent
         \/ \E t \in Thread, id \in MessageId : SendAccepted(t, id)
         \/ \E m \in wire : AcceptLate(m)
BY DEF Next, vars, Client, Serve, CreateUpload, CreateUploadFails, ExpireUrl, DeleteObject,
       PutObject, BeginValidate, BeginUnknown, HeadObject, ReadMissing, ReadFails,
       GetObject, CheckPublished, SendUnanswered, SendFails, MarkPublished, RecordVerdict,
       Crash, jobVars

(* Only the check of the marker, finding it unset, leads to a publish.       *)
LEMMA OnlyCheckLeadsToPublish ==
  ASSUME TypeOK, [Next]_vars, NEW t \in Thread, pc'[t] = "publish"
  PROVE  \/ pc[t] = "publish" /\ target'[t] = target[t]
         \/ CheckPublished(t) /\ ~registry[target[t]].message_published
<1>1. ASSUME NEW j \in Job, Client(j) PROVE pc'[t] = pc[t] /\ target'[t] = target[t]
  BY <1>1 DEF Client, CreateUpload, CreateUploadFails, ExpireUrl, DeleteObject, PutObject,
              threadVars
<1>2. ASSUME NEW u \in Thread, Serve(u), u # t PROVE pc'[t] = pc[t] /\ target'[t] = target[t]
  BY <1>2
  DEF TypeOK, Serve, BeginValidate, BeginUnknown, HeadObject, ReadMissing, ReadFails, GetObject,
      CheckPublished, SendAccepted, SendUnanswered, SendFails, MarkPublished, RecordVerdict,
      Respond, Goto, threadVars
<1>3. CASE Serve(t)
  BY <1>3
  DEF TypeOK, Serve, BeginValidate, BeginUnknown, HeadObject, ReadMissing, ReadFails, GetObject,
      CheckPublished, AlreadyPublished, SendAccepted, SendUnanswered, SendFails, MarkPublished,
      RecordVerdict, Respond, Goto, threadVars
<1>4. CASE Crash
  BY <1>4 DEF Crash
<1>5. CASE UNCHANGED threadVars
  BY <1>5 DEF threadVars
<1> QED
  BY <1>1, <1>2, <1>3, <1>4, <1>5 DEF Next, vars, AcceptLate

LEMMA PublishFirstNext ==
  ASSUME IInv, PublishFirst, ExclusivePublish, ExclusivePublish', [Next]_vars
  PROVE  PublishFirst'
<1> SUFFICES ASSUME NEW t \in Thread, pc'[t] = "publish",
                    NEW m \in sent', m.confirmed, m.job_id = target'[t]
             PROVE  FALSE
  BY DEF PublishFirst
<1> USE DEF IInv, TypeOK
<1>1. CASE pc[t] = "publish" /\ target'[t] = target[t]
  <2>1. m \notin sent
    BY <1>1 DEF PublishFirst
  <2>2. PICK u \in Thread, id \in MessageId : SendAccepted(u, id)
    BY <2>1, OnlySendsAdd DEF AcceptLate, Knowledge, WireHonest
  <2>3. m.job_id = target[u]
    BY <2>1, <2>2 DEF SendAccepted, Built
  <2>4. u = t
    BY <1>1, <2>2, <2>3 DEF ExclusivePublish, SendAccepted
  <2> QED
    BY <1>1, <2>2, <2>4 DEF SendAccepted, Goto
<1>2. CASE CheckPublished(t) /\ ~registry[target[t]].message_published
  <2>1. m \in sent /\ m.job_id = target[t] /\ Known(target[t]) /\ m.sender \in Thread
    BY <1>2 DEF CheckPublished, jobVars, Knowledge, RequestsBound, Command
  <2>2. pc[m.sender] = "mark" /\ target[m.sender] = target[t]
    BY <1>2, <2>1 DEF Promises, MarkerComplete
  <2>3. m.sender # t /\ pc'[m.sender] = "mark" /\ target'[m.sender] = target'[t]
    BY <1>2, <2>1, <2>2 DEF CheckPublished, Goto
  <2> QED
    BY <2>1, <2>3 DEF ExclusivePublish
<1> QED
  BY <1>1, <1>2, OnlyCheckLeadsToPublish

LEMMA AtMostOneNext ==
  ASSUME IInv, PublishFirst, AtMostOneCommandPerJob, [Next]_vars
  PROVE  AtMostOneCommandPerJob'
<1>1. ASSUME NEW t \in Thread, NEW id \in MessageId, SendAccepted(t, id)
      PROVE  AtMostOneCommandPerJob'
  <2>1. \A m \in sent : m.confirmed => m.job_id # target[t]
    BY <1>1 DEF SendAccepted, PublishFirst
  <2> DEFINE c == Built(t, id, TRUE)
  <2>2. sent' = sent \cup {c} /\ c.job_id = target[t]
    BY <1>1 DEF SendAccepted, Built
  <2> HIDE DEF c
  <2> QED
    BY <2>1, <2>2 DEF AtMostOneCommandPerJob
<1>2. ASSUME NEW c \in wire, AcceptLate(c)
      PROVE  AtMostOneCommandPerJob'
  <2>1. \A m \in sent' \ sent : ~m.confirmed
    BY <1>2 DEF AcceptLate, IInv, Knowledge, WireHonest
  <2> QED
    BY <2>1 DEF AtMostOneCommandPerJob
<1>3. CASE sent' = sent
  BY <1>3 DEF AtMostOneCommandPerJob
<1> QED
  BY <1>1, <1>2, <1>3, OnlySendsAdd

(* What intake_duplicate exhibits has one cause.  For any number of threads, *)
(* jobs and restarts: as long as no two requests for one job overlap between *)
(* the read of the marker and its write, no job is enqueued twice by sends   *)
(* that were confirmed.  A lock around these three steps would do.           *)
THEOREM OverlapIsTheCause == Spec => DuplicatesNeedOverlap
<1>1. Init => PublishFirst /\ AtMostOneCommandPerJob
  BY DEF Init, PublishFirst, AtMostOneCommandPerJob
<1>2. /\ IInv /\ PublishFirst /\ AtMostOneCommandPerJob
      /\ ExclusivePublish /\ ExclusivePublish' /\ [Next]_vars
      => PublishFirst' /\ AtMostOneCommandPerJob'
  BY PublishFirstNext, AtMostOneNext
<1> QED
  BY <1>1, <1>2, Invariance, PTL DEF Spec, DuplicatesNeedOverlap

-----------------------------------------------------------------------------
(* Overwriting is the only cause of an oversized download. *)

(* Nothing is put in the place of an object that HeadObject has passed and   *)
(* GetObject has not read yet; it may be deleted.                            *)
HeadStaysTrue ==
  \A t \in Thread : pc[t] = "get" => objects'[target[t]] \in {objects[target[t]], None}

(* What a thread knows of the object that it is about to download.           *)
SizeSeen ==
  \A t \in Thread : pc[t] = "get" /\ objects[target[t]] # None =>
    objects[target[t]].size <= MaxUpload

LEMMA SizeSeenNext ==
  ASSUME IInv, SizeSeen, HeadStaysTrue, [Next]_vars
  PROVE  SizeSeen'
<1> SUFFICES ASSUME NEW t \in Thread, pc'[t] = "get", objects'[target'[t]] # None
             PROVE  objects'[target'[t]].size <= MaxUpload
  BY DEF SizeSeen
<1> USE DEF IInv, TypeOK
<1>1. \/ pc[t] = "get" /\ target'[t] = target[t]
      \/ HeadObject(t)
  <2>1. ASSUME NEW j \in Job, Client(j) PROVE pc'[t] = pc[t] /\ target'[t] = target[t]
    BY <2>1 DEF Client, CreateUpload, CreateUploadFails, ExpireUrl, DeleteObject, PutObject,
                threadVars
  <2>2. ASSUME NEW u \in Thread, Serve(u), u # t
        PROVE  pc'[t] = pc[t] /\ target'[t] = target[t]
    BY <2>2
    DEF Serve, BeginValidate, BeginUnknown, HeadObject, ReadMissing, ReadFails, GetObject,
        CheckPublished, SendAccepted, SendUnanswered, SendFails, MarkPublished, RecordVerdict,
        Respond, Goto, threadVars
  <2>3. CASE Serve(t)
    BY <2>3
    DEF Serve, BeginValidate, BeginUnknown, HeadObject, ReadMissing, ReadFails, GetObject,
        CheckPublished, SendAccepted, SendUnanswered, SendFails, MarkPublished, RecordVerdict,
        Respond, Goto, threadVars
  <2>4. CASE Crash
    BY <2>4 DEF Crash
  <2>5. CASE UNCHANGED threadVars
    BY <2>5 DEF threadVars
  <2> QED
    BY <2>1, <2>2, <2>3, <2>4, <2>5 DEF Next, vars, AcceptLate
<1>2. CASE pc[t] = "get" /\ target'[t] = target[t]
  BY <1>2 DEF SizeSeen, HeadStaysTrue
<1>3. CASE HeadObject(t)
  <2>1. objects[target[t]] \in Content
    BY <1>3 DEF HeadObject, Knowledge, RequestsBound
  <2>2. objects[target[t]].size \in Nat /\ MaxUpload \in Nat
    BY <2>1, IntakeAssumption DEF Content
  <2> QED
    BY <1>3, <2>2 DEF HeadObject, Goto, jobVars
<1> QED
  BY <1>1, <1>2, <1>3

LEMMA DownloadNext ==
  ASSUME IInv, SizeSeen, DownloadsWithinLimit, [Next]_vars
  PROVE  DownloadsWithinLimit'
<1> SUFFICES ASSUME NEW t \in Thread, content'[t] # None
             PROVE  content'[t].size <= MaxUpload
  BY DEF DownloadsWithinLimit
<1> USE DEF IInv, TypeOK
<1>1. CASE content'[t] = content[t]
  BY <1>1 DEF DownloadsWithinLimit
<1>2. CASE GetObject(t)
  BY <1>2 DEF GetObject, SizeSeen
<1> QED
  BY <1>1, <1>2, ZenonT(60)
  DEF Next, vars, Client, Serve, CreateUpload, CreateUploadFails, ExpireUrl, DeleteObject,
      PutObject, BeginValidate, BeginUnknown, HeadObject, ReadMissing, ReadFails,
      GetObject, CheckPublished, SendAccepted, SendUnanswered, SendFails, MarkPublished,
      AcceptLate, RecordVerdict, Crash, Respond, threadVars

(* What intake_download exhibits has one cause, too: if no object is         *)
(* overwritten between the two reads of a request, every download is within  *)
(* the limit, as get_object_bytes says.  The check itself has no gap.        *)
THEOREM OverwritingIsTheCause ==
  Spec /\ [][HeadStaysTrue]_vars => []DownloadsWithinLimit
<1>1. Init => SizeSeen /\ DownloadsWithinLimit
  BY DEF Init, SizeSeen, DownloadsWithinLimit
<1>2. IInv /\ SizeSeen /\ DownloadsWithinLimit /\ [Next]_vars /\ [HeadStaysTrue]_vars
      => SizeSeen' /\ DownloadsWithinLimit'
  <2>1. CASE HeadStaysTrue
    BY <2>1, SizeSeenNext, DownloadNext
  <2>2. CASE UNCHANGED vars
    BY <2>2 DEF vars, jobVars, threadVars, SizeSeen, DownloadsWithinLimit
  <2> QED
    BY <2>1, <2>2
<1> QED
  BY <1>1, <1>2, Invariance, PTL DEF Spec
=============================================================================
