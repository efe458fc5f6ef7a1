------------------------------ MODULE HttpApi ------------------------------
(***************************************************************************)
(* The HTTP side of the API process: the routes of router.py and main.py,  *)
(* the error handlers, and the thread pool they share.  FastAPI runs every *)
(* sync dependency, every sync handler and the serialization of its result *)
(* as a call of its own in that pool; the pool hands its threads out first *)
(* come, first served.                                                     *)
(*                                                                         *)
(* Of validate_s3_intake_job only the blocking calls and the errors they   *)
(* end in are kept; Intake has the rest.                                   *)
(***************************************************************************)
EXTENDS Naturals, Sequences

CONSTANTS
  Request,  \* connections; each carries one request at a time
  Asks,     \* the routes that each connection asks for
  Pool,     \* threads of the pool
  None      \* "no reply", "no fault"

(* The three probes of main.py are alike; health_live stands for them.     *)
Endpoint == {"create_upload", "validate_job", "create_intake_job_legacy", "health_live"}

(* What a client may send, as far as it decides the answer.                *)
Input ==
  [create_upload            |-> {"fine", "not_json", "no_filename", "bad_filename"},
   validate_job             |-> {"fine", "unknown_job"},
   create_intake_job_legacy |-> {"fine", "no_file"},
   health_live              |-> {"fine"}]

(* The sync dependencies that each route declares, in their order.         *)
Providers ==
  [create_upload            |-> <<"settings", "S3", "registry">>,
   validate_job             |-> <<"settings", "S3", "SQS", "registry">>,
   create_intake_job_legacy |-> <<"settings">>,
   health_live              |-> <<>>]

Dependencies == [e \in Endpoint |-> Len(Providers[e])]

(* How a call of the SDK may fail: a ClientError with its error code and   *)
(* HTTP status, a BotoCoreError, or a response without MessageId.          *)
S3Failure ==
  {[service |-> "S3", code |-> "404", status |-> 404],
   [service |-> "S3", code |-> "NoSuchBucket", status |-> 404],
   [service |-> "S3", code |-> "AccessDenied", status |-> 403],
   [service |-> "S3", code |-> "SlowDown", status |-> 503],
   [service |-> "S3", code |-> "BotoCoreError", status |-> 0]}

SqsFailure ==
  {[service |-> "SQS", code |-> "AccessDeniedException", status |-> 400],
   [service |-> "SQS", code |-> "RequestThrottled", status |-> 400],
   [service |-> "SQS", code |-> "BotoCoreError", status |-> 0],
   [service |-> "SQS", code |-> "NoMessageId", status |-> 200]}

(* boto3.client may raise too, for a bad profile or bad credentials.       *)
ProviderFailure == {[service |-> s, code |-> "boto3.client", status |-> 0] : s \in {"S3", "SQS"}}

Failure == S3Failure \cup SqsFailure \cup ProviderFailure

ErrorCode == {"JOB_NOT_FOUND", "OBJECT_NOT_FOUND", "S3_ACCESS_DENIED", "S3_UNAVAILABLE",
              "SQS_ACCESS_DENIED", "SQS_UNAVAILABLE"}

Reply == [status : {200, 400, 404, 422, 500, 503},
          code   : ErrorCode \cup {"", "FILENAME", "INVALID_INPUT", "INTERNAL_SERVER_ERROR"}]

PC == {"idle", "dependencies", "handler", "head", "get", "send", "serialize"}

ASSUME HttpAssumption ==
  /\ Pool \in Nat \ {0}
  /\ Asks \in [Request -> SUBSET Endpoint]
  /\ None \notin Reply
  /\ None \notin Failure

VARIABLES
  pc,        \* how far each request is
  endpoint,  \* its route
  input,     \* what the client sent
  deps,      \* dependencies still to be resolved
  stored,    \* history: whether the request put a record in the registry
  fault,     \* history: how S3 or SQS, or the making of its client, failed
  reply,     \* the answer to the last request
  line       \* calls for the pool: the first Pool of them have a thread

requestVars == <<endpoint, input>>
vars == <<pc, endpoint, input, deps, stored, fault, reply, line>>

RequestTypeOK ==
  /\ pc \in [Request -> PC]
  /\ endpoint \in [Request -> Endpoint]
  /\ input \in [Request -> UNION {Input[e] : e \in Endpoint}]
  /\ \A r \in Request : input[r] \in Input[endpoint[r]]
  /\ deps \in [Request -> 0..4]
  /\ stored \in [Request -> BOOLEAN]
  /\ fault \in [Request -> Failure \cup {None}]
  /\ reply \in [Request -> Reply \cup {None}]

TypeOK == RequestTypeOK /\ line \in Seq(Request)

Init ==
  /\ pc = [r \in Request |-> "idle"]
  /\ endpoint = [r \in Request |-> "health_live"]
  /\ input = [r \in Request |-> "fine"]
  /\ deps = [r \in Request |-> 0]
  /\ stored = [r \in Request |-> FALSE]
  /\ fault = [r \in Request |-> None]
  /\ reply = [r \in Request |-> None]
  /\ line = <<>>

-----------------------------------------------------------------------------
(* The thread pool. *)

Queued(r) == \E i \in 1..Len(line) : line[i] = r
Running(r) == \E i \in 1..Len(line) : i <= Pool /\ line[i] = r

(* The call, if there is one, returns or raises; its thread is free.        *)
Leave(r) ==
  LET at == CHOOSE i \in 1..Len(line) : line[i] = r IN
  line' = IF Queued(r)
          THEN [i \in 1..(Len(line) - 1) |-> IF i < at THEN line[i] ELSE line[i + 1]]
          ELSE line

(* The legacy handler alone is async and runs on the event loop itself. *)
Pooled(r) ==
  \/ pc[r] \in {"dependencies", "serialize"}
  \/ pc[r] = "handler" /\ endpoint[r] # "create_intake_job_legacy"

(* run_in_threadpool: a free thread, or a place at the end of the line. *)
Submit(r) ==
  /\ Pooled(r) /\ ~Queued(r)
  /\ line' = Append(line, r)
  /\ UNCHANGED <<pc, requestVars, deps, stored, fault, reply>>

Goto(r, label) == pc' = [pc EXCEPT ![r] = label]

(* The exception handlers are async, so a reply needs no thread. *)
Answer(r, status, code) ==
  /\ Goto(r, "idle")
  /\ reply' = [reply EXCEPT ![r] = [status |-> status, code |-> code]]
  /\ Leave(r)

(* The handlers of RequestValidationError and of any other exception.      *)
Refuse(r) == Answer(r, 422, "INVALID_INPUT")
Unhandled(r) == Answer(r, 500, "INTERNAL_SERVER_ERROR")

-----------------------------------------------------------------------------
(* A request arrives and its dependencies are resolved. *)

(* The body is parsed first of all; what is no JSON is refused at once. *)
Arrive(r, e, i) ==
  /\ pc[r] = "idle"
  /\ endpoint' = [endpoint EXCEPT ![r] = e]
  /\ input' = [input EXCEPT ![r] = i]
  /\ deps' = [deps EXCEPT ![r] = Dependencies[e]]
  /\ stored' = [stored EXCEPT ![r] = FALSE]
  /\ fault' = [fault EXCEPT ![r] = None]
  /\ IF i = "not_json"
     THEN Refuse(r)
     ELSE /\ Goto(r, IF Dependencies[e] = 0 THEN "handler" ELSE "dependencies")
          /\ reply' = [reply EXCEPT ![r] = None]
          /\ UNCHANGED line

(* Faulty: one dependency too many. *)
ResolveOneTooMany(r) ==
  /\ pc[r] = "dependencies" /\ Running(r)
  /\ deps' = [deps EXCEPT ![r] = @ - 1]
  /\ Leave(r)
  /\ IF deps'[r] < 0 THEN Goto(r, "handler") ELSE UNCHANGED pc
  /\ UNCHANGED <<requestVars, stored, fault, reply>>

(* One provider returns.  The fields of the request are checked after the  *)
(* last one, and only then refused.                                        *)
ResolveDependency(r) ==
  /\ pc[r] = "dependencies" /\ Running(r)
  /\ deps' = [deps EXCEPT ![r] = @ - 1]
  /\ IF deps[r] > 1 THEN Leave(r) /\ UNCHANGED <<pc, reply>>
     ELSE IF input[r] \in {"no_filename", "no_file"} THEN Refuse(r)
     ELSE Leave(r) /\ Goto(r, "handler") /\ UNCHANGED reply
  /\ UNCHANGED <<requestVars, stored, fault>>

Provider(r) == Providers[endpoint[r]][Dependencies[endpoint[r]] - deps[r] + 1]

(* get_s3_storage and get_sqs_queue make their client outside of any except *)
(* clause.  lru_cache keeps a client that was made but no failure: until    *)
(* then every request may meet one.  The model does not keep the client and *)
(* lets any request meet one, which only adds behaviours.                   *)
ProviderFails(r, e) ==
  /\ pc[r] = "dependencies" /\ Running(r)
  /\ e.service = Provider(r)
  /\ Unhandled(r)
  /\ fault' = [fault EXCEPT ![r] = e]
  /\ UNCHANGED <<requestVars, deps, stored>>

-----------------------------------------------------------------------------
(* The handlers. *)

Handling(r, e) ==
  /\ pc[r] = "handler" /\ endpoint[r] = e
  /\ Pooled(r) => Running(r)

Returns(r) == Goto(r, "serialize") /\ Leave(r) /\ UNCHANGED reply

(* Faulty: the record is stored before the filename is looked at. *)
CreateUploadRecordFirst(r) ==
  /\ Handling(r, "create_upload")
  /\ stored' = [stored EXCEPT ![r] = TRUE]
  /\ IF input[r] = "bad_filename" THEN Answer(r, 400, "FILENAME")
     ELSE Returns(r) \/ Unhandled(r)
  /\ UNCHANGED <<requestVars, deps, fault>>

(* The record precedes the signing, whose S3 errors nothing translates. *)
CreateUpload(r) ==
  /\ Handling(r, "create_upload")
  /\ IF input[r] = "bad_filename" THEN Answer(r, 400, "FILENAME") /\ UNCHANGED stored
     ELSE /\ stored' = [stored EXCEPT ![r] = TRUE]
          /\ Returns(r) \/ Unhandled(r)
  /\ UNCHANGED <<requestVars, deps, fault>>

(* Faulty: only a missing job is the client's fault. *)
NotFoundForJobs(code) == IF code = "JOB_NOT_FOUND" THEN 404 ELSE 503

(* The router's translation of an IntakeServiceError. *)
HttpStatus(code) == IF code \in {"JOB_NOT_FOUND", "OBJECT_NOT_FOUND"} THEN 404 ELSE 503

(* A known job goes on to HeadObject, with the thread in hand. *)
ValidateJob(r) ==
  /\ Handling(r, "validate_job")
  /\ IF input[r] = "unknown_job"
     THEN Answer(r, HttpStatus("JOB_NOT_FOUND"), "JOB_NOT_FOUND")
     ELSE Goto(r, "head") /\ UNCHANGED <<reply, line>>
  /\ UNCHANGED <<requestVars, deps, stored, fault>>

HealthLive(r) ==
  /\ Handling(r, "health_live")
  /\ Returns(r)
  /\ UNCHANGED <<requestVars, deps, stored, fault>>

CreateIntakeJobLegacy(r) ==
  /\ Handling(r, "create_intake_job_legacy")
  /\ Answer(r, 200, "")
  /\ UNCHANGED <<requestVars, deps, stored, fault>>

Serialize(r) ==
  /\ pc[r] = "serialize" /\ Running(r)
  /\ Answer(r, 200, "")
  /\ UNCHANGED <<requestVars, deps, stored, fault>>

-----------------------------------------------------------------------------
(* The blocking calls of validate_s3_intake_job, and their errors. *)

(* S3Storage._map_client_error, its except clauses, and the service's. *)
MapS3Error(e) ==
  IF e.code \in {"404", "NoSuchKey", "NotFound"} \/ e.status = 404 THEN "OBJECT_NOT_FOUND"
  ELSE IF e.code \in {"403", "AccessDenied"} \/ e.status = 403 THEN "S3_ACCESS_DENIED"
  ELSE "S3_UNAVAILABLE"

(* SQSQueue._map_client_error and send_message, and the service's clauses. *)
MapSqsError(e) ==
  IF e.code \in {"AccessDenied", "AccessDeniedException"} \/ e.status = 403
  THEN "SQS_ACCESS_DENIED" ELSE "SQS_UNAVAILABLE"

(* On to the next call, or to a verdict that needs none: a bad size in the *)
(* head, bad bytes or a command that was published before in the body.     *)
CallSucceeds(r) ==
  /\ pc[r] \in {"head", "get", "send"}
  /\ \/ /\ pc[r] # "send"
        /\ Goto(r, IF pc[r] = "head" THEN "get" ELSE "send")
        /\ UNCHANGED <<reply, line>>
     \/ Returns(r)
  /\ UNCHANGED <<requestVars, deps, stored, fault>>

(* Faulty: the error costs the pool its thread. *)
S3ErrorKeepsThread(r, e) ==
  /\ pc[r] \in {"head", "get"}
  /\ Goto(r, "idle")
  /\ reply' = [reply EXCEPT ![r] = [status |-> HttpStatus(MapS3Error(e)), code |-> MapS3Error(e)]]
  /\ fault' = [fault EXCEPT ![r] = e]
  /\ UNCHANGED <<requestVars, deps, stored, line>>

S3CallFails(r, e) ==
  /\ pc[r] \in {"head", "get"}
  /\ Answer(r, HttpStatus(MapS3Error(e)), MapS3Error(e))
  /\ fault' = [fault EXCEPT ![r] = e]
  /\ UNCHANGED <<requestVars, deps, stored>>

SqsCallFails(r, e) ==
  /\ pc[r] = "send"
  /\ Answer(r, HttpStatus(MapSqsError(e)), MapSqsError(e))
  /\ fault' = [fault EXCEPT ![r] = e]
  /\ UNCHANGED <<requestVars, deps, stored>>

-----------------------------------------------------------------------------

(* What the process does on its own. *)
Serve(r) ==
  \/ Submit(r)
  \/ ResolveDependency(r)
  \/ \E e \in ProviderFailure : ProviderFails(r, e)
  \/ CreateUpload(r)
  \/ ValidateJob(r)
  \/ HealthLive(r)
  \/ CreateIntakeJobLegacy(r)
  \/ Serialize(r)

AwsReturns(r) ==
  \/ CallSucceeds(r)
  \/ \E e \in S3Failure : S3CallFails(r, e)
  \/ \E e \in SqsFailure : SqsCallFails(r, e)

Next ==
  \E r \in Request :
    \/ \E e \in Asks[r] : \E i \in Input[e] : Arrive(r, e, i)
    \/ Serve(r)
    \/ AwsReturns(r)

Spec == Init /\ [][Next]_vars

(* Threads and the event loop are scheduled.                               *)
LocalFairSpec == Spec /\ \A r \in Request : WF_vars(Serve(r))

(* A call to AWS ends as well, if only in one of botocore's timeouts.      *)
FairSpec == LocalFairSpec /\ \A r \in Request : WF_vars(AwsReturns(r))

-----------------------------------------------------------------------------
(* What the HTTP side promises. *)

Answered(r) == pc[r] = "idle" /\ reply[r] # None

(* Whatever way a call ends - a result, a refusal, an exception of any layer *)
(* - the pool has its thread back, before the client can ask again; and a    *)
(* call that blocks in S3 or SQS does hold one, so that no more of them than *)
(* the pool has threads are under way.                                       *)
ThreadsAccounted ==
  \A r \in Request :
    /\ pc[r] = "idle" => ~Queued(r)
    /\ pc[r] \in {"head", "get", "send"} => Running(r)

(* A refused upload request leaves no record behind; a record that no client *)
(* was told of is always the trace of a 500 out of the handler, never of a   *)
(* 400, of a 422 or of a client that could not be made.                      *)
RecordsAccounted ==
  \A r \in Request : Answered(r) =>
    (stored[r] <=> /\ endpoint[r] = "create_upload"
                   /\ reply[r].status \in {200, 500}
                   /\ fault[r] = None)

(* Through two adapters, the service and the router, no failure is answered  *)
(* as a verdict or as a failure of the other service: once the clients are   *)
(* made, a "not found" of S3 - for a missing object or a missing bucket, the *)
(* code cannot tell - is the one that ends in a 404, and every other trouble *)
(* is a retryable 503 with a code that names the service.  A client that     *)
(* could not be made is a 500; without failure only unknown jobs are a 404.  *)
FaultsClassified ==
  \A r \in Request : Answered(r) /\ endpoint[r] = "validate_job" =>
    /\ fault[r] \in ProviderFailure =>
         reply[r] = [status |-> 500, code |-> "INTERNAL_SERVER_ERROR"]
    /\ fault[r] \in S3Failure \cup SqsFailure =>
         IF fault[r].status = 404
         THEN reply[r] = [status |-> 404, code |-> "OBJECT_NOT_FOUND"]
         ELSE /\ reply[r].status = 503
              /\ reply[r].code \in IF fault[r].service = "S3"
                                   THEN {"S3_ACCESS_DENIED", "S3_UNAVAILABLE"}
                                   ELSE {"SQS_ACCESS_DENIED", "SQS_UNAVAILABLE"}
    /\ fault[r] = None =>
         reply[r].status = IF input[r] = "unknown_job" THEN 404 ELSE 200

(* Every request is answered while others keep coming: no thread is lost to  *)
(* an exception, and a request with many short calls is not overtaken for    *)
(* ever.                                                                     *)
EveryRequestAnswered == \A r \in Request : pc[r] # "idle" ~> pc[r] = "idle"

-----------------------------------------------------------------------------
(* What the documentation says and the code does not keep. *)

(* main.py, health_live: liveness stays dependency-free, so that trouble     *)
(* with AWS does not get a healthy container killed and restarted.           *)
HealthNeedsNoAws ==
  \A r \in Request :
    pc[r] # "idle" /\ endpoint[r] = "health_live" ~> pc[r] = "idle"
=============================================================================
