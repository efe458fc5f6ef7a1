------------------------------- MODULE Intake -------------------------------
(***************************************************************************)
(* The API process: create_presigned_upload and validate_s3_intake_job     *)
(* (app/intake/service.py) over the in-memory job registry                 *)
(* (app/intake/job_registry.py), the S3 objects they read and the queue    *)
(* they publish to.                                                        *)
(*                                                                         *)
(* FastAPI runs these sync handlers in a thread pool, so several requests  *)
(* for one job interleave at every registry, S3 and SQS call; each such    *)
(* call is one action here.  The registry dies with the process, S3 and    *)
(* SQS do not, and neither does a request that is already on its way to    *)
(* SQS: it may take effect after the restart.                              *)
(***************************************************************************)
EXTENDS Naturals, FiniteSets

CONSTANTS
  Job,        \* the uuid4 job ids that create_presigned_upload may mint
  Thread,     \* slots of the thread pool; each serves one request at a time
  MessageId,  \* one id for each SendMessage request: the uuid4 of the envelope, told
              \* apart also where botocore repeats a request with the same one
  MaxUpload,  \* max_upload_size_bytes
  MaxLost,    \* bound: SendMessage requests that nobody gets an answer to
  Offered,    \* the bytes that clients upload: all of Content, or samples
  None        \* "no record", "no object", "no message id"

Status == {"RECEIVED", "VALIDATING", "VALIDATED", "REJECTED"}

(* Object bytes, as the rules tell them apart: length and CSV structure.   *)
Content == {c \in [size : 0..(MaxUpload + 1), csv : BOOLEAN] : c.csv => c.size > 0}

Record == [status               : Status,
           message_published    : BOOLEAN,
           published_message_id : MessageId \cup {None}]

(* A PROCESS_DATASET envelope on its way to SQS.  The S3 pointer is the    *)
(* job id, which prefixes the key.  judged (the bytes the verdict was      *)
(* about), sender and confirmed (SendMessage returned to its caller) are   *)
(* history that only the properties read.                                  *)
Command == [message_id : MessageId, job_id : Job,
            judged : Content, sender : Thread, confirmed : BOOLEAN]

PC == {"idle", "head", "get", "check", "publish", "mark", "validated", "rejected"}
S3Error == {"S3_UNAVAILABLE", "S3_ACCESS_DENIED"}
SQSError == {"SQS_UNAVAILABLE", "SQS_ACCESS_DENIED"}
Reply == {"VALIDATED", "REJECTED", "JOB_NOT_FOUND", "OBJECT_NOT_FOUND",
          "NO_REPLY"} \cup S3Error \cup SQSError

ASSUME IntakeAssumption ==
  /\ MaxUpload \in Nat \ {0}
  /\ MaxLost \in Nat
  /\ Offered \subseteq Content
  /\ None \notin Job \cup MessageId
  /\ None \notin Content
  /\ None \notin Record
  /\ None \notin Reply

VARIABLES
  registry,  \* InMemoryJobRegistry._jobs
  upload,    \* the presigned URL of each job, as its client sees it
  objects,   \* the bytes at each job's S3 key
  sent,      \* every command SQS ever accepted
  wire,      \* commands under way to SQS, the answer to which reaches nobody
  pc,        \* where each thread is in validate_s3_intake_job
  target,    \* its job_id argument, kept until its next request
  content,   \* the bytes it downloaded
  command,   \* the message_id that SendMessage confirmed
  reply      \* its last response, or NO_REPLY when the connection was cut

jobVars    == <<registry, upload, objects, sent, wire>>
threadVars == <<pc, target, content, command, reply>>
vars       == <<jobVars, threadVars>>

TypeOK ==
  /\ registry \in [Job -> Record \cup {None}]
  /\ upload   \in [Job -> {"unissued", "live", "expired", "withheld"}]
  /\ objects  \in [Job -> Content \cup {None}]
  /\ sent     \in SUBSET Command
  /\ wire     \in SUBSET Command
  /\ pc       \in [Thread -> PC]
  /\ target   \in [Thread -> Job \cup {None}]
  /\ content  \in [Thread -> Content \cup {None}]
  /\ command  \in [Thread -> MessageId \cup {None}]
  /\ reply    \in [Thread -> Reply \cup {None}]

Init ==
  /\ registry = [j \in Job |-> None]
  /\ upload   = [j \in Job |-> "unissued"]
  /\ objects  = [j \in Job |-> None]
  /\ sent     = {}
  /\ wire     = {}
  /\ pc       = [t \in Thread |-> "idle"]
  /\ target   = [t \in Thread |-> None]
  /\ content  = [t \in Thread |-> None]
  /\ command  = [t \in Thread |-> None]
  /\ reply    = [t \in Thread |-> None]

-----------------------------------------------------------------------------
(* The registry's four operations, each under its lock. *)

Known(j) == registry[j] # None

Put(j) ==
  registry' = [registry EXCEPT ![j] =
    [status |-> "RECEIVED", message_published |-> FALSE, published_message_id |-> None]]

UpdateStatus(j, s) ==
  registry' = IF Known(j) THEN [registry EXCEPT ![j].status = s] ELSE registry

(* Faulty: the id lands in the flag. *)
MarkMixedUp(j, id) == registry' = [registry EXCEPT ![j].message_published = id]

(* Faulty: the id is recorded, the flag is forgotten. *)
MarkIdOnly(j, id) == registry' = [registry EXCEPT ![j].published_message_id = id]

Mark(j, id) ==
  registry' = IF Known(j)
              THEN [registry EXCEPT ![j].message_published = TRUE,
                                    ![j].published_message_id = id]
              ELSE registry

-----------------------------------------------------------------------------
(* POST /uploads, and what the client and the bucket do with the URL. *)

(* The record is stored before the URL is signed; a job id is used once. *)
CreateUpload(j) ==
  /\ upload[j] = "unissued"
  /\ Put(j)
  /\ upload' = [upload EXCEPT ![j] = "live"]
  /\ UNCHANGED <<objects, sent, wire, threadVars>>

(* Signing raised: the record stays, but the client never learns the id. *)
CreateUploadFails(j) ==
  /\ upload[j] = "unissued"
  /\ Put(j)
  /\ upload' = [upload EXCEPT ![j] = "withheld"]
  /\ UNCHANGED <<objects, sent, wire, threadVars>>

(* A PUT through the URL.  It is signed for the bucket and key only, so    *)
(* until it expires a second PUT replaces the object.                      *)
PutObject(j, c) ==
  /\ upload[j] = "live"
  /\ objects' = [objects EXCEPT ![j] = c]
  /\ UNCHANGED <<registry, upload, sent, wire, threadVars>>

ExpireUrl(j) ==
  /\ upload[j] = "live"
  /\ upload' = [upload EXCEPT ![j] = "expired"]
  /\ UNCHANGED <<registry, objects, sent, wire, threadVars>>

DeleteObject(j) ==
  /\ objects[j] # None
  /\ objects' = [objects EXCEPT ![j] = None]
  /\ UNCHANGED <<registry, upload, sent, wire, threadVars>>

-----------------------------------------------------------------------------
(* POST /jobs/{job_id}/validate, one action per shared-state access. *)

Goto(t, label) == pc' = [pc EXCEPT ![t] = label]

(* The request ends with the given response; its locals go out of scope. *)
Respond(t, code) ==
  /\ Goto(t, "idle")
  /\ reply' = [reply EXCEPT ![t] = code]
  /\ content' = [content EXCEPT ![t] = None]
  /\ command' = [command EXCEPT ![t] = None]

(* Faulty: only a job that was never validated may be validated. *)
BeginValidateOnce(t, j) ==
  /\ pc[t] = "idle"
  /\ Known(j) /\ registry[j].status = "RECEIVED" /\ upload[j] # "withheld"
  /\ UpdateStatus(j, "VALIDATING")
  /\ Goto(t, "head")
  /\ target' = [target EXCEPT ![t] = j]
  /\ reply' = [reply EXCEPT ![t] = None]
  /\ UNCHANGED <<upload, objects, sent, wire, content, command>>

(* registry.get finds the record and update_status moves it to VALIDATING. *)
BeginValidate(t, j) ==
  /\ pc[t] = "idle"
  /\ Known(j) /\ upload[j] # "withheld"
  /\ UpdateStatus(j, "VALIDATING")
  /\ Goto(t, "head")
  /\ target' = [target EXCEPT ![t] = j]
  /\ reply' = [reply EXCEPT ![t] = None]
  /\ UNCHANGED <<upload, objects, sent, wire, content, command>>

BeginUnknown(t, j) ==
  /\ pc[t] = "idle"
  /\ ~Known(j)
  /\ Respond(t, "JOB_NOT_FOUND")
  /\ target' = [target EXCEPT ![t] = j]
  /\ UNCHANGED jobVars

(* HeadObject answered: reject on metadata alone, or go on to download. *)
HeadObject(t) ==
  LET object == objects[target[t]] IN
  /\ pc[t] = "head"
  /\ object # None
  /\ Goto(t, IF object.size = 0 \/ object.size > MaxUpload THEN "rejected" ELSE "get")
  /\ UNCHANGED <<jobVars, target, content, command, reply>>

(* Either read finds no object: the client never uploaded, or it is gone. *)
ReadMissing(t) ==
  /\ pc[t] \in {"head", "get"}
  /\ objects[target[t]] = None
  /\ Respond(t, "OBJECT_NOT_FOUND")
  /\ UNCHANGED <<jobVars, target>>

ReadFails(t, code) ==
  /\ pc[t] \in {"head", "get"}
  /\ Respond(t, code)
  /\ UNCHANGED <<jobVars, target>>

(* Faulty: the HeadObject check is taken to cover the downloaded bytes. *)
ValidateFileTrustingHead(c) == TRUE

(* validate_file looks at the downloaded bytes, not at the HeadObject size. *)
ValidateFile(c) == c.size # 0 /\ c.size <= MaxUpload

ValidateContent(c) == IF ValidateFile(c) /\ c.csv THEN "VALIDATED" ELSE "REJECTED"

(* GetObject returned the whole body, and _validate_content judged it. *)
GetObject(t) ==
  LET object == objects[target[t]] IN
  /\ pc[t] = "get"
  /\ object # None
  /\ content' = [content EXCEPT ![t] = object]
  /\ Goto(t, IF ValidateContent(object) = "VALIDATED" THEN "check" ELSE "rejected")
  /\ UNCHANGED <<jobVars, target, command, reply>>

(* Faulty: the status is taken for the publish marker. *)
AlreadyValidated(j) == registry[j].status = "VALIDATED"

AlreadyPublished(j) == registry[j].message_published

(* Faulty: the marker is set before the send. *)
CheckAndMark(t) ==
  /\ pc[t] = "check"
  /\ Goto(t, IF AlreadyPublished(target[t]) THEN "validated" ELSE "publish")
  /\ registry' = [registry EXCEPT ![target[t]].message_published = TRUE]
  /\ UNCHANGED <<upload, objects, sent, wire, target, content, command, reply>>

(* record.message_published, read without the lock. *)
CheckPublished(t) ==
  /\ pc[t] = "check"
  /\ Goto(t, IF AlreadyPublished(target[t]) THEN "validated" ELSE "publish")
  /\ UNCHANGED <<jobVars, target, content, command, reply>>

(* The command that t sends, under a message id that was never used before. *)
Built(t, id, seen) ==
  [message_id |-> id, job_id |-> target[t],
   judged |-> content[t], sender |-> t, confirmed |-> seen]

Fresh(id) == \A m \in sent \cup wire : m.message_id # id

SendAccepted(t, id) ==
  /\ pc[t] = "publish"
  /\ Fresh(id)
  /\ sent' = sent \cup {Built(t, id, TRUE)}
  /\ Goto(t, "mark")
  /\ command' = [command EXCEPT ![t] = id]
  /\ UNCHANGED <<registry, upload, objects, wire, target, content, reply>>

(* A request goes out and its answer is lost, late or without a MessageId.   *)
(* The thread is still in send_message: botocore tries once more, or gives   *)
(* up with an error, or the process dies.                                    *)
SendUnanswered(t, id) ==
  /\ pc[t] = "publish"
  /\ Fresh(id)
  /\ Cardinality(wire \cup {m \in sent : ~m.confirmed}) < MaxLost
  /\ wire' = wire \cup {Built(t, id, FALSE)}
  /\ UNCHANGED <<registry, upload, objects, sent, threadVars>>

(* SQS accepts such a request, at any time or never, whatever became of the  *)
(* thread and of the process that sent it.                                   *)
AcceptLate(m) ==
  /\ m \in wire
  /\ sent' = sent \cup {m}
  /\ wire' = wire \ {m}
  /\ UNCHANGED <<registry, upload, objects, threadVars>>

(* Faulty: the publish failure is swallowed. *)
SendFailsSilently(t, code) ==
  /\ pc[t] = "publish"
  /\ Goto(t, "validated")
  /\ UNCHANGED <<jobVars, target, content, command, reply>>

SendFails(t, code) ==
  /\ pc[t] = "publish"
  /\ Respond(t, code)
  /\ UNCHANGED <<jobVars, target>>

MarkPublished(t) ==
  /\ pc[t] = "mark"
  /\ Mark(target[t], command[t])
  /\ Goto(t, "validated")
  /\ UNCHANGED <<upload, objects, sent, wire, target, content, command, reply>>

(* update_status with the verdict, then the 200 response. *)
RecordVerdict(t) ==
  LET verdict == IF pc[t] = "validated" THEN "VALIDATED" ELSE "REJECTED" IN
  /\ pc[t] \in {"validated", "rejected"}
  /\ UpdateStatus(target[t], verdict)
  /\ Respond(t, verdict)
  /\ UNCHANGED <<upload, objects, sent, wire, target>>

(* The process dies and is restarted: registry and requests are gone, but  *)
(* for the requests to SQS that are on the wire.                           *)
Crash ==
  /\ registry' = [j \in Job |-> None]
  /\ pc'       = [t \in Thread |-> "idle"]
  /\ content'  = [t \in Thread |-> None]
  /\ command'  = [t \in Thread |-> None]
  /\ reply'    = [t \in Thread |-> IF pc[t] = "idle" THEN reply[t] ELSE "NO_REPLY"]
  /\ UNCHANGED <<upload, objects, sent, wire, target>>

-----------------------------------------------------------------------------

Client(j) ==
  \/ CreateUpload(j)
  \/ CreateUploadFails(j)
  \/ ExpireUrl(j)
  \/ DeleteObject(j)
  \/ \E c \in Offered : PutObject(j, c)

Serve(t) ==
  \/ \E j \in Job : BeginValidate(t, j) \/ BeginUnknown(t, j)
  \/ HeadObject(t)
  \/ ReadMissing(t)
  \/ \E code \in S3Error : ReadFails(t, code)
  \/ GetObject(t)
  \/ CheckPublished(t)
  \/ \E id \in MessageId : SendAccepted(t, id) \/ SendUnanswered(t, id)
  \/ \E code \in SQSError : SendFails(t, code)
  \/ MarkPublished(t)
  \/ RecordVerdict(t)

Next ==
  \/ \E j \in Job : Client(j)
  \/ \E t \in Thread : Serve(t)
  \/ \E m \in wire : AcceptLate(m)
  \/ Crash

Spec == Init /\ [][Next]_vars

(* The client retries, threads are scheduled, and no outage of S3 or SQS   *)
(* lasts for ever; uploads, losses and crashes are not forced.             *)
Fairness ==
  /\ \A j \in Job : WF_vars(\E t \in Thread : BeginValidate(t, j))
  /\ \A t \in Thread :
       /\ SF_vars(HeadObject(t))
       /\ SF_vars(GetObject(t))
       /\ SF_vars(\E id \in MessageId : SendAccepted(t, id))
       /\ WF_vars(CheckPublished(t))
       /\ WF_vars(MarkPublished(t))
       /\ WF_vars(RecordVerdict(t))

FairSpec == Spec /\ Fairness

-----------------------------------------------------------------------------
(* What the intake promises. *)

(* The rules of validators.py, stated over the bytes alone. *)
Acceptable(c) == c.size \in 1..MaxUpload /\ c.csv

(* The queue holds, for job j, a command whose send was reported a success. *)
HandedOff(j) == \E m \in sent : m.confirmed /\ m.job_id = j

(* A record that says VALIDATED or "published" is backed by a confirmed      *)
(* command of that job with the recorded id: no job is marked as handed off  *)
(* although the queue never received its command (service.py, the comment on *)
(* "publish first, mark second"), whatever other requests do in between.     *)
MarkerTruthful ==
  \A j \in Job : Known(j) =>
    /\ registry[j].status = "VALIDATED" => registry[j].message_published
    /\ registry[j].message_published =>
         \E m \in sent : /\ m.confirmed
                         /\ m.job_id = j
                         /\ m.message_id = registry[j].published_message_id

(* While the process lives, no confirmed hand-off is forgotten: the marker   *)
(* is set, or the thread that sent the command is about to set it.  This is  *)
(* what makes a later validate skip the publish.                             *)
MarkerComplete ==
  \A m \in sent : m.confirmed /\ Known(m.job_id) =>
    \/ registry[m.job_id].message_published
    \/ /\ pc[m.sender] = "mark"
       /\ target[m.sender] = m.job_id
       /\ command[m.sender] = m.message_id

(* Every command follows from bytes that meet all the rules, even when the   *)
(* client replaces the object between HeadObject and GetObject, so that the  *)
(* size which was checked is not the size which was downloaded.              *)
OnlyAcceptablePublished == \A m \in sent : Acceptable(m.judged)

(* A thread never gets two commands for one job confirmed: duplicates within *)
(* a process come only from requests that overlap, so there are at most as   *)
(* many as threads.  It holds across restarts too, as a restarted process    *)
(* does not know the job any more.                                           *)
OneCommandPerThread ==
  \A m, n \in sent :
    (m.confirmed /\ n.confirmed /\ m.job_id = n.job_id /\ m.sender = n.sender) => m = n

(* A client told VALIDATED has its command in the queue: the request never   *)
(* pretends that the job entered processing (_publish_process_dataset), not  *)
(* even the one that skipped the publish because another request had done it.*)
ReplyBacked == \A t \in Thread : reply[t] = "VALIDATED" => HandedOff(target[t])

(* Once a job stays known and an acceptable object stays in place, a client  *)
(* that keeps calling validate is eventually told VALIDATED, after any       *)
(* number of outages, failed publishes and earlier rejections, and while     *)
(* other requests for the job interleave.                                    *)
Served(j) == \E t \in Thread : target[t] = j /\ reply[t] = "VALIDATED"
Settled(j) ==
  /\ Known(j) /\ upload[j] # "withheld"
  /\ objects[j] # None /\ Acceptable(objects[j])
HandoffReached == \A j \in Job : <>[]Settled(j) => []<>Served(j)

(* The intake as its clients and the queue see it. *)
Stage ==
  [j \in Job |-> IF Known(j) THEN "registered"
                 ELSE IF upload[j] = "unissued" THEN "unknown" ELSE "forgotten"]
Orders ==
  {[id |-> m.message_id, job |-> m.job_id, caller |-> m.sender, sure |-> m.confirmed] :
     m \in sent \cup wire}
Told == [t \in Thread |-> IF reply[t] = "VALIDATED" THEN target[t] ELSE None]

H == INSTANCE Handoff
       WITH Caller <- Thread, Order <- MessageId, stage <- Stage, orders <- Orders, told <- Told

(* The registry, the bucket, the marker and the place of each thread         *)
(* implement the promise of Handoff, under races, retries, lost responses    *)
(* and restarts.                                                             *)
RefinesHandoff == H!Spec

-----------------------------------------------------------------------------
(* What the documentation says and the code does not keep. *)

(* job_registry.py, mark_published: a repeated validate does not enqueue the *)
(* same work twice within this process.                                      *)
AtMostOneCommandPerJob ==
  \A m, n \in sent : (m.confirmed /\ n.confirmed /\ m.job_id = n.job_id) => m = n

(* The read of the marker and the write of it, with the send in between, are *)
(* not interleaved with those of another request for the job.                *)
ExclusivePublish ==
  \A t, u \in Thread :
    /\ pc[t] \in {"publish", "mark"} /\ pc[u] \in {"publish", "mark"}
    /\ target[t] = target[u]
    => t = u

(* That overlap is the only cause: if no two requests for one job are ever   *)
(* between their read and their write of the marker at once, the promise of  *)
(* mark_published is kept, however many threads there are and whatever else  *)
(* fails - no lost answer, retry, re-upload or restart confirms a second one.*)
DuplicatesNeedOverlap == []ExclusivePublish => []AtMostOneCommandPerJob

(* s3.py, get_object_bytes: called only after head_object confirmed that the *)
(* size is within the configured limit.                                      *)
DownloadsWithinLimit ==
  \A t \in Thread : content[t] # None => content[t].size <= MaxUpload
=============================================================================
