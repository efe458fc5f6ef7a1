----------------------------- MODULE HttpProofs -----------------------------
(* Proofs about the answers of the HTTP side, for any connections, whatever  *)
(* they ask for, and any size of the thread pool.                            *)
EXTENDS HttpApi, FiniteSets, FiniteSetTheorems, TLAPS

-----------------------------------------------------------------------------
(* The inductive invariant: what holds of a request on its way. *)

(* Nothing failed and nothing is answered yet.                               *)
OpenUntilAnswered == \A r \in Request : pc[r] # "idle" => reply[r] = None /\ fault[r] = None

(* The last dependency takes the request to its handler.                     *)
DependenciesLeft == \A r \in Request : pc[r] = "dependencies" => deps[r] \in 1..4

(* Only the upload handler stores a record, and whoever is past it has.      *)
StoredByHandler ==
  \A r \in Request :
    /\ stored[r] => endpoint[r] = "create_upload" /\ pc[r] \in {"serialize", "idle"}
    /\ pc[r] = "serialize" /\ endpoint[r] = "create_upload" => stored[r]

(* Only known jobs reach S3 and SQS, or a verdict.                           *)
KnownPastHandler ==
  \A r \in Request :
    /\ pc[r] \in {"head", "get", "send"} => endpoint[r] = "validate_job"
    /\ pc[r] \in {"head", "get", "send", "serialize"} => input[r] # "unknown_job"

IInv ==
  /\ RequestTypeOK
  /\ OpenUntilAnswered
  /\ DependenciesLeft
  /\ StoredByHandler
  /\ KnownPastHandler
  /\ RecordsAccounted
  /\ FaultsClassified

LEMMA PlainReplies ==
  /\ [status |-> 200, code |-> ""] \in Reply
  /\ [status |-> 400, code |-> "FILENAME"] \in Reply
  /\ [status |-> 404, code |-> "JOB_NOT_FOUND"] \in Reply
  /\ [status |-> 422, code |-> "INVALID_INPUT"] \in Reply
  /\ [status |-> 500, code |-> "INTERNAL_SERVER_ERROR"] \in Reply
BY DEF Reply, ErrorCode

LEMMA DependenciesBounded == \A e \in Endpoint : Dependencies[e] \in 0..4
<1>1. /\ Len(Providers["create_upload"]) = 3 /\ Len(Providers["validate_job"]) = 4
      /\ Len(Providers["create_intake_job_legacy"]) = 1 /\ Len(Providers["health_live"]) = 0
  BY DEF Providers
<1> QED
  BY <1>1 DEF Endpoint, Dependencies

USE DEF RequestTypeOK, PC, Endpoint

LEMMA InitInvariant == Init => IInv
<1> SUFFICES ASSUME Init PROVE IInv
  OBVIOUS
<1>1. "fine" \in Input["health_live"]
  BY DEF Input
<1>2. RequestTypeOK
  BY <1>1 DEF Init
<1>3. \A r \in Request : pc[r] = "idle" /\ reply[r] = None /\ ~stored[r]
  BY DEF Init
<1> QED
  BY <1>2, <1>3
  DEF IInv, OpenUntilAnswered, DependenciesLeft, StoredByHandler, KnownPastHandler,
      RecordsAccounted, FaultsClassified, Answered

-----------------------------------------------------------------------------
(* The two translations, for every error that they may meet. *)

LEMMA S3ErrorMapped ==
  ASSUME NEW e \in S3Failure
  PROVE  /\ MapS3Error(e) \in ErrorCode /\ HttpStatus(MapS3Error(e)) \in {404, 503}
         /\ e.service = "S3"
         /\ e.status = 404 => /\ MapS3Error(e) = "OBJECT_NOT_FOUND"
                              /\ HttpStatus(MapS3Error(e)) = 404
         /\ e.status # 404 => /\ MapS3Error(e) \in {"S3_ACCESS_DENIED", "S3_UNAVAILABLE"}
                              /\ HttpStatus(MapS3Error(e)) = 503
BY DEF S3Failure, MapS3Error, HttpStatus, ErrorCode

LEMMA NoneIsNoFailure == None \notin S3Failure \cup SqsFailure /\ None \notin ProviderFailure
BY HttpAssumption DEF Failure

(* A client that could not be made is told apart from a failed call.         *)
LEMMA FailuresDiffer ==
  ASSUME NEW e \in ProviderFailure
  PROVE  e \notin S3Failure \cup SqsFailure
<1>1. e.code = "boto3.client"
  BY DEF ProviderFailure
<1> QED
  BY <1>1 DEF S3Failure, SqsFailure

LEMMA SqsErrorMapped ==
  ASSUME NEW e \in SqsFailure
  PROVE  /\ MapSqsError(e) \in {"SQS_ACCESS_DENIED", "SQS_UNAVAILABLE"}
         /\ MapSqsError(e) \in ErrorCode /\ HttpStatus(MapSqsError(e)) = 503
         /\ e.service = "SQS" /\ e.status # 404
<1>1. MapSqsError(e) \in {"SQS_ACCESS_DENIED", "SQS_UNAVAILABLE"}
  BY DEF MapSqsError
<1>2. HttpStatus(MapSqsError(e)) = 503
  BY <1>1 DEF HttpStatus
<1>3. e.service = "SQS" /\ e.status # 404
  BY DEF SqsFailure
<1> QED
  BY <1>1, <1>2, <1>3 DEF ErrorCode

-----------------------------------------------------------------------------
(* Every action preserves the invariant. *)

LEMMA ArriveStep ==
  ASSUME IInv, NEW r \in Request, NEW e \in Asks[r], NEW i \in Input[e], Arrive(r, e, i)
  PROVE  IInv'
<1> USE DEF IInv, Arrive, Refuse, Answer, Goto
<1>1. /\ e \in Endpoint /\ Dependencies[e] \in 0..4
      /\ Dependencies[e] # 0 => Dependencies[e] \in 1..4
  <2>1. e \in Endpoint
    BY HttpAssumption
  <2>2. Dependencies[e] \in 0..4
    BY <2>1, DependenciesBounded
  <2> HIDE DEF IInv
  <2> QED
    BY <2>1, <2>2
<1>2. [status |-> 422, code |-> "INVALID_INPUT"] \in Reply
  BY PlainReplies
<1>3. i = "not_json" => e = "create_upload"
  BY <1>1 DEF Input
<1>4. RequestTypeOK'
  <2>1. /\ input' \in [Request -> UNION {Input[a] : a \in Endpoint}]
        /\ \A q \in Request : input'[q] \in Input[endpoint'[q]]
    BY <1>1
  <2>2. pc' \in [Request -> PC] /\ reply' \in [Request -> Reply \cup {None}]
    BY <1>2
  <2> QED
    BY <1>1, <2>1, <2>2
<1>5. OpenUntilAnswered' /\ DependenciesLeft'
  BY <1>1 DEF OpenUntilAnswered, DependenciesLeft
<1>6. StoredByHandler' /\ KnownPastHandler'
  BY <1>1 DEF StoredByHandler, KnownPastHandler
<1>7. RecordsAccounted'
  BY <1>1 DEF RecordsAccounted, Answered
<1>8. FaultsClassified'
  BY <1>1, <1>3 DEF FaultsClassified, Answered
<1> QED
  BY <1>4, <1>5, <1>6, <1>7, <1>8

(* A step that answers request r, with everything else about it known.       *)
LEMMA AnswerStep ==
  ASSUME IInv, NEW r \in Request, NEW status, NEW code, Answer(r, status, code),
         [status |-> status, code |-> code] \in Reply,
         UNCHANGED requestVars,
         deps' \in [Request -> 0..4], \A q \in Request \ {r} : deps'[q] = deps[q],
         stored' \in [Request -> BOOLEAN], \A q \in Request \ {r} : stored'[q] = stored[q],
         fault' \in [Request -> Failure \cup {None}],
         \A q \in Request \ {r} : fault'[q] = fault[q],
         stored'[r] <=> endpoint[r] = "create_upload" /\ status \in {200, 500} /\ fault'[r] = None,
         endpoint[r] = "validate_job" =>
           /\ fault'[r] \in ProviderFailure => status = 500 /\ code = "INTERNAL_SERVER_ERROR"
           /\ fault'[r] \in S3Failure \cup SqsFailure =>
                IF fault'[r].status = 404
                THEN status = 404 /\ code = "OBJECT_NOT_FOUND"
                ELSE /\ status = 503
                     /\ code \in IF fault'[r].service = "S3"
                                 THEN {"S3_ACCESS_DENIED", "S3_UNAVAILABLE"}
                                 ELSE {"SQS_ACCESS_DENIED", "SQS_UNAVAILABLE"}
           /\ fault'[r] = None => status = IF input[r] = "unknown_job" THEN 404 ELSE 200
  PROVE  IInv'
<1> USE DEF IInv, Answer, Goto, requestVars
<1>1. RequestTypeOK'
  BY ZenonT(60)
<1>2. OpenUntilAnswered' /\ DependenciesLeft'
  BY DEF OpenUntilAnswered, DependenciesLeft
<1>3. StoredByHandler' /\ KnownPastHandler'
  BY DEF StoredByHandler, KnownPastHandler
<1>4. RecordsAccounted'
  BY DEF RecordsAccounted, Answered
<1>5. FaultsClassified'
  BY DEF FaultsClassified, Answered
<1> QED
  BY <1>1, <1>2, <1>3, <1>4, <1>5

(* A step that takes request r further without an answer.                    *)
LEMMA AdvanceStep ==
  ASSUME IInv, NEW r \in Request, NEW label \in PC \ {"idle", "dependencies"}, Goto(r, label),
         pc[r] # "idle", UNCHANGED <<requestVars, reply, fault>>,
         deps' \in [Request -> 0..4], \A q \in Request \ {r} : deps'[q] = deps[q],
         stored' \in [Request -> BOOLEAN], \A q \in Request \ {r} : stored'[q] = stored[q],
         stored'[r] <=> endpoint[r] = "create_upload" /\ label = "serialize",
         label \in {"head", "get", "send"} => endpoint[r] = "validate_job",
         label # "handler" => input[r] # "unknown_job"
  PROVE  IInv'
<1> USE DEF IInv, Goto, requestVars
<1>1. RequestTypeOK'
  OBVIOUS
<1>2. OpenUntilAnswered' /\ DependenciesLeft'
  BY DEF OpenUntilAnswered, DependenciesLeft
<1>3. StoredByHandler' /\ KnownPastHandler'
  BY DEF StoredByHandler, KnownPastHandler
<1>4. RecordsAccounted'
  BY DEF RecordsAccounted, Answered
<1>5. FaultsClassified'
  BY DEF FaultsClassified, Answered
<1> QED
  BY <1>1, <1>2, <1>3, <1>4, <1>5

LEMMA ResolveDependencyStep ==
  ASSUME IInv, NEW r \in Request, ResolveDependency(r)
  PROVE  IInv'
<1> USE DEF IInv, ResolveDependency, Refuse
<1>1. deps[r] \in 1..4 /\ ~stored[r] /\ fault[r] = None
  BY DEF DependenciesLeft, StoredByHandler, OpenUntilAnswered
<1>2. deps' \in [Request -> 0..4] /\ (\A q \in Request \ {r} : deps'[q] = deps[q])
  BY <1>1
<1>3. CASE deps[r] > 1
  <2>1. deps'[r] \in 1..4
    BY <1>1, <1>3
  <2> QED
    BY <1>2, <1>3, <2>1
    DEF requestVars, OpenUntilAnswered, DependenciesLeft, StoredByHandler, KnownPastHandler,
        RecordsAccounted, FaultsClassified, Answered
<1>4. CASE ~(deps[r] > 1) /\ input[r] \in {"no_filename", "no_file"}
  <2>1. endpoint[r] # "validate_job"
    BY <1>4 DEF Input
  <2>2. [status |-> 422, code |-> "INVALID_INPUT"] \in Reply
    BY PlainReplies
  <2>3. Answer(r, 422, "INVALID_INPUT") /\ UNCHANGED <<requestVars, stored, fault>>
    BY <1>4
  <2> QED
    BY <1>1, <1>2, <2>1, <2>2, <2>3, AnswerStep
<1>5. CASE ~(deps[r] > 1) /\ input[r] \notin {"no_filename", "no_file"}
  <2>1. Goto(r, "handler") /\ UNCHANGED <<requestVars, reply, fault, stored>> /\ pc[r] # "idle"
    BY <1>5
  <2> QED
    BY <1>1, <1>2, <2>1, AdvanceStep
<1> QED
  BY <1>3, <1>4, <1>5

LEMMA ProviderFailsStep ==
  ASSUME IInv, NEW r \in Request, NEW e \in ProviderFailure, ProviderFails(r, e)
  PROVE  IInv'
<1>1. /\ pc[r] = "dependencies" /\ ~stored[r] /\ fault \in [Request -> Failure \cup {None}]
      /\ deps \in [Request -> 0..4] /\ stored \in [Request -> BOOLEAN]
  BY DEF IInv, StoredByHandler, ProviderFails
<1>2. /\ Answer(r, 500, "INTERNAL_SERVER_ERROR") /\ UNCHANGED <<requestVars, deps, stored>>
      /\ fault' = [fault EXCEPT ![r] = e]
  BY DEF ProviderFails, Unhandled
<1>3. e \in Failure /\ e # None
  BY HttpAssumption DEF Failure
<1>4. e \notin S3Failure \cup SqsFailure
  BY FailuresDiffer
<1>5. /\ fault'[r] = e /\ fault' \in [Request -> Failure \cup {None}]
      /\ \A q \in Request \ {r} : fault'[q] = fault[q]
  BY <1>1, <1>2, <1>3
<1>6. /\ deps' \in [Request -> 0..4] /\ deps' = deps
      /\ stored' \in [Request -> BOOLEAN] /\ stored' = stored
  BY <1>1, <1>2
<1>7. [status |-> 500, code |-> "INTERNAL_SERVER_ERROR"] \in Reply
  BY PlainReplies
<1> QED
  BY <1>1, <1>2, <1>3, <1>4, <1>5, <1>6, <1>7, AnswerStep

LEMMA CreateUploadStep ==
  ASSUME IInv, NEW r \in Request, CreateUpload(r)
  PROVE  IInv'
<1> USE DEF IInv, CreateUpload, Handling, Unhandled
<1>1. /\ ~stored[r] /\ fault[r] = None /\ endpoint[r] = "create_upload" /\ pc[r] = "handler"
      /\ input[r] # "unknown_job" /\ UNCHANGED <<requestVars, deps, fault>>
  BY DEF StoredByHandler, OpenUntilAnswered, Input
<1>2. /\ [status |-> 400, code |-> "FILENAME"] \in Reply
      /\ [status |-> 500, code |-> "INTERNAL_SERVER_ERROR"] \in Reply
  BY PlainReplies
<1>3. CASE input[r] = "bad_filename"
  <2>1. Answer(r, 400, "FILENAME") /\ UNCHANGED stored
    BY <1>3
  <2> QED
    BY <1>1, <1>2, <2>1, AnswerStep
<1>4. CASE stored' = [stored EXCEPT ![r] = TRUE] /\ Answer(r, 500, "INTERNAL_SERVER_ERROR")
  <2>1. /\ stored'[r] /\ stored' \in [Request -> BOOLEAN]
        /\ \A q \in Request \ {r} : stored'[q] = stored[q]
    BY <1>4
  <2>2. deps' \in [Request -> 0..4] /\ fault' \in [Request -> Failure \cup {None}]
    BY <1>1
  <2>3. endpoint[r] # "validate_job" /\ fault' = fault /\ deps' = deps /\ UNCHANGED requestVars
    BY <1>1
  <2>4. Answer(r, 500, "INTERNAL_SERVER_ERROR")
    BY <1>4
  <2> HIDE DEF CreateUpload, Handling, IInv
  <2> QED
    BY <1>1, <1>2, <2>1, <2>2, <2>3, <2>4, AnswerStep
<1>5. CASE stored' = [stored EXCEPT ![r] = TRUE] /\ Returns(r)
  BY <1>1, <1>5, AdvanceStep DEF Returns
<1> QED
  BY <1>3, <1>4, <1>5

LEMMA ValidateJobStep ==
  ASSUME IInv, NEW r \in Request, ValidateJob(r)
  PROVE  IInv'
<1> USE DEF IInv, ValidateJob, Handling
<1>1. /\ ~stored[r] /\ fault[r] = None /\ endpoint[r] = "validate_job" /\ pc[r] = "handler"
      /\ UNCHANGED <<requestVars, deps, stored, fault>>
  BY DEF StoredByHandler, OpenUntilAnswered
<1>2. HttpStatus("JOB_NOT_FOUND") = 404 /\ [status |-> 404, code |-> "JOB_NOT_FOUND"] \in Reply
  BY PlainReplies, ZenonT(60) DEF HttpStatus
<1>3. CASE input[r] = "unknown_job"
  <2>1. Answer(r, 404, "JOB_NOT_FOUND")
    BY <1>2, <1>3
  <2> QED
    BY <1>1, <1>2, <1>3, <2>1, NoneIsNoFailure, AnswerStep
<1>4. CASE input[r] # "unknown_job"
  BY <1>1, <1>4, AdvanceStep
<1> QED
  BY <1>3, <1>4

LEMMA PlainReplyStep ==
  ASSUME IInv, NEW r \in Request, HealthLive(r) \/ CreateIntakeJobLegacy(r) \/ Serialize(r)
  PROVE  IInv'
<1> USE DEF IInv, HealthLive, CreateIntakeJobLegacy, Serialize, Handling
<1>1. [status |-> 200, code |-> ""] \in Reply
  BY PlainReplies
<1>2. fault[r] = None /\ UNCHANGED <<requestVars, deps, stored, fault>>
  BY DEF OpenUntilAnswered
<1>3. CASE HealthLive(r)
  <2>1. input[r] # "unknown_job" /\ ~stored[r]
    BY <1>3 DEF Input, StoredByHandler
  <2> QED
    BY <1>2, <1>3, <2>1, AdvanceStep DEF Returns
<1>4. CASE CreateIntakeJobLegacy(r)
  <2>1. ~stored[r] /\ endpoint[r] = "create_intake_job_legacy" /\ Answer(r, 200, "")
    BY <1>4 DEF StoredByHandler
  <2> QED
    BY <1>1, <1>2, <2>1, AnswerStep
<1>5. CASE Serialize(r)
  <2>1. (stored[r] <=> endpoint[r] = "create_upload") /\ input[r] # "unknown_job"
    BY <1>5 DEF StoredByHandler, KnownPastHandler
  <2>2. Answer(r, 200, "")
    BY <1>5
  <2> QED
    BY <1>1, <1>2, <2>1, <2>2, NoneIsNoFailure, AnswerStep, ZenonT(60)
<1> QED
  BY <1>3, <1>4, <1>5

LEMMA AwsReturnsStep ==
  ASSUME IInv, NEW r \in Request, AwsReturns(r)
  PROVE  IInv'
<1>1. /\ pc[r] \in {"head", "get", "send"} /\ endpoint[r] = "validate_job" /\ ~stored[r]
      /\ input[r] # "unknown_job" /\ fault[r] = None
      /\ UNCHANGED <<requestVars, deps, stored>>
  BY DEF AwsReturns, CallSucceeds, S3CallFails, SqsCallFails, IInv, KnownPastHandler,
         StoredByHandler, OpenUntilAnswered
<1>2. deps' \in [Request -> 0..4] /\ stored' \in [Request -> BOOLEAN]
  BY <1>1 DEF IInv
<1>3. CASE CallSucceeds(r)
  <2>1. PICK label \in {"get", "send", "serialize"} : Goto(r, label) /\ UNCHANGED <<reply, fault>>
    BY <1>3 DEF CallSucceeds, Returns
  <2> QED
    BY <1>1, <1>2, <2>1, AdvanceStep
<1>4. ASSUME NEW e \in S3Failure, S3CallFails(r, e) PROVE IInv'
  <2> DEFINE code == MapS3Error(e)
             status == HttpStatus(MapS3Error(e))
  <2>1. Answer(r, status, code) /\ fault' = [fault EXCEPT ![r] = e]
    BY <1>4 DEF S3CallFails
  <2>2. code \in ErrorCode /\ status \in {404, 503}
    BY <1>4, S3ErrorMapped
  <2>3. /\ e.status = 404 => status = 404 /\ code = "OBJECT_NOT_FOUND"
        /\ e.status # 404 => status = 503 /\ code \in {"S3_ACCESS_DENIED", "S3_UNAVAILABLE"}
        /\ e.service = "S3"
    BY <1>4, S3ErrorMapped
  <2>4. fault'[r] = e /\ fault' \in [Request -> Failure \cup {None}]
    BY <2>1, <1>4 DEF IInv, Failure
  <2>5. e # None /\ e \in S3Failure \cup SqsFailure /\ e \notin ProviderFailure
    BY <1>4, HttpAssumption, FailuresDiffer DEF Failure
  <2> HIDE DEF code, status
  <2>6. [status |-> status, code |-> code] \in Reply
    BY <2>2, ZenonT(60) DEF Reply
  <2>7. fault'[r] = e /\ \A q \in Request \ {r} : fault'[q] = fault[q]
    BY <2>1, <2>4 DEF IInv
  <2> QED
    BY <1>1, <1>2, <2>1, <2>3, <2>4, <2>5, <2>6, <2>7, AnswerStep
<1>5. ASSUME NEW e \in SqsFailure, SqsCallFails(r, e) PROVE IInv'
  <2> DEFINE code == MapSqsError(e)
             status == HttpStatus(MapSqsError(e))
  <2>1. Answer(r, status, code) /\ fault' = [fault EXCEPT ![r] = e]
    BY <1>5 DEF SqsCallFails
  <2>2. code \in ErrorCode /\ status \in {404, 503}
    BY <1>5, SqsErrorMapped
  <2>3. /\ status = 503 /\ code \in {"SQS_ACCESS_DENIED", "SQS_UNAVAILABLE"}
        /\ e.status # 404 /\ e.service # "S3"
    BY <1>5, SqsErrorMapped
  <2>4. fault'[r] = e /\ fault' \in [Request -> Failure \cup {None}]
    BY <2>1, <1>5 DEF IInv, Failure
  <2>5. e # None /\ e \in S3Failure \cup SqsFailure /\ e \notin ProviderFailure
    BY <1>5, HttpAssumption, FailuresDiffer DEF Failure
  <2> HIDE DEF code, status
  <2>6. [status |-> status, code |-> code] \in Reply
    BY <2>2, ZenonT(60) DEF Reply
  <2>7. fault'[r] = e /\ \A q \in Request \ {r} : fault'[q] = fault[q]
    BY <2>1, <2>4 DEF IInv
  <2> QED
    BY <1>1, <1>2, <2>1, <2>3, <2>4, <2>5, <2>6, <2>7, AnswerStep
<1> QED
  BY <1>3, <1>4, <1>5 DEF AwsReturns

LEMMA NextInvariant == IInv /\ [Next]_vars => IInv'
<1> SUFFICES ASSUME IInv, [Next]_vars PROVE IInv'
  OBVIOUS
<1>1. ASSUME NEW r \in Request, Submit(r) PROVE IInv'
  BY <1>1
  DEF Submit, IInv, requestVars, OpenUntilAnswered, DependenciesLeft, StoredByHandler,
      KnownPastHandler, RecordsAccounted, FaultsClassified, Answered
<1>3. CASE UNCHANGED vars
  BY <1>3
  DEF vars, IInv, requestVars, OpenUntilAnswered, DependenciesLeft, StoredByHandler,
      KnownPastHandler, RecordsAccounted, FaultsClassified, Answered
<1> QED
  BY <1>1, <1>3, ArriveStep, ResolveDependencyStep, ProviderFailsStep, CreateUploadStep,
     ValidateJobStep, PlainReplyStep, AwsReturnsStep
  DEF Next, Serve

-----------------------------------------------------------------------------
(* The thread pool. *)

(* Nobody stands in the line twice.                                          *)
Once == \A i, j \in 1..Len(line) : line[i] = line[j] => i = j

PoolInv == line \in Seq(Request) /\ Once /\ ThreadsAccounted

(* Who leaves is gone, and all others keep their order.                      *)
LEMMA LeaveShifts ==
  ASSUME line \in Seq(Request), Once, NEW r \in Request, Leave(r)
  PROVE  /\ line' \in Seq(Request) /\ Once'
         /\ ~Queued(r)'
         /\ \A q \in Request \ {r} : /\ Queued(q)' => Queued(q)
                                     /\ Running(q) => Running(q)'
<1>1. CASE ~Queued(r)
  BY <1>1 DEF Leave, Once, Queued, Running
<1>2. CASE Queued(r)
  <2> DEFINE at == CHOOSE i \in 1..Len(line) : line[i] = r
             n == Len(line)
  <2>1. at \in 1..n /\ line[at] = r
    BY <1>2 DEF Queued
  <2>2. line' = [i \in 1..(n - 1) |-> IF i < at THEN line[i] ELSE line[i + 1]]
    BY <1>2 DEF Leave
  <2> HIDE DEF at
  <2>3. n \in Nat /\ \A i \in 1..n : line[i] \in Request
    OBVIOUS
  <2>4. \A i \in 1..(n - 1) : line'[i] = line[IF i < at THEN i ELSE i + 1] /\ line'[i] \in Request
    BY <2>1, <2>2, <2>3
  <2>5. line' \in Seq(Request) /\ Len(line') = n - 1
    BY <2>1, <2>2, <2>3, <2>4
  <2>6. Once'
    BY <2>1, <2>3, <2>4, <2>5, SMTT(30) DEF Once
  <2>7. ~Queued(r)'
    BY <2>1, <2>3, <2>4, <2>5 DEF Once, Queued
  <2>8. ASSUME NEW q \in Request \ {r}, Queued(q)' PROVE Queued(q)
    <3>1. PICK i \in 1..(n - 1) : line'[i] = q
      BY <2>5, <2>8 DEF Queued
    <3>2. (IF i < at THEN i ELSE i + 1) \in 1..n
      BY <2>3, <3>1
    <3> QED
      BY <2>4, <3>1, <3>2 DEF Queued
  <2>9. ASSUME NEW q \in Request \ {r}, Running(q) PROVE Running(q)'
    <3>1. PICK i \in 1..n : i <= Pool /\ line[i] = q
      BY <2>9 DEF Running
    <3>2. CASE i < at
      BY <2>1, <2>3, <2>4, <2>5, <3>1, <3>2 DEF Running
    <3>3. CASE i > at
      <4>1. i - 1 \in 1..(n - 1) /\ i - 1 <= Pool /\ ~(i - 1 < at)
        BY <2>1, <2>3, <3>1, <3>3, HttpAssumption
      <4>2. line'[i - 1] = q
        BY <2>4, <3>1, <4>1
      <4> QED
        BY <2>5, <4>1, <4>2 DEF Running
    <3> QED
      BY <2>1, <3>1, <3>2, <3>3
  <2> QED
    BY <2>5, <2>6, <2>7, <2>8, <2>9
<1> QED
  BY <1>1, <1>2

(* Who submits a call takes the last place.                                  *)
LEMMA SubmitAppends ==
  ASSUME line \in Seq(Request), Once, NEW r \in Request, Submit(r)
  PROVE  /\ line' \in Seq(Request) /\ Once'
         /\ \A q \in Request \ {r} : Queued(q)' => Queued(q)
         /\ \A q \in Request : Running(q) => Running(q)'
<1>1. line' = Append(line, r) /\ ~Queued(r)
  BY DEF Submit
<1>2. /\ line' \in Seq(Request) /\ Len(line') = Len(line) + 1
      /\ \A i \in 1..Len(line) : line'[i] = line[i]
      /\ line'[Len(line) + 1] = r
  BY <1>1
<1>3. Len(line) \in Nat /\ \A i \in 1..Len(line) : line[i] # r
  BY <1>1 DEF Queued
<1>4. \A i \in 1..Len(line') : i \in 1..Len(line) \/ i = Len(line) + 1
  BY <1>2, <1>3
<1>5. Once'
  BY <1>2, <1>3, <1>4 DEF Once
<1>6. \A q \in Request \ {r} : Queued(q)' => Queued(q)
  BY <1>2, <1>4 DEF Queued
<1>7. \A q \in Request : Running(q) => Running(q)'
  BY <1>2, <1>3 DEF Running
<1> QED
  BY <1>2, <1>5, <1>6, <1>7

(* Seen from the pool, a step takes one request out of the line, or leaves   *)
(* the line alone and the request with a thread if it goes on to block.      *)
Out(r) == /\ Leave(r)
          /\ pc'[r] \notin {"head", "get", "send"}
Stay(r) == /\ line' = line
           /\ pc'[r] # "idle"
           /\ pc'[r] \in {"head", "get", "send"} => Running(r)

LEMMA OutOrStay ==
  ASSUME RequestTypeOK, PoolInv, NEW r \in Request, Out(r) \/ Stay(r),
         \A q \in Request \ {r} : pc'[q] = pc[q]
  PROVE  PoolInv'
<1>1. CASE Out(r)
  BY <1>1, LeaveShifts DEF PoolInv, Out, ThreadsAccounted
<1>2. CASE Stay(r)
  <2>1. line' \in Seq(Request) /\ Once'
    BY <1>2 DEF PoolInv, Stay, Once
  <2>2. \A q \in Request : (Queued(q)' <=> Queued(q)) /\ (Running(q)' <=> Running(q))
    BY <1>2 DEF Stay, Queued, Running
  <2>3. ThreadsAccounted'
    BY <1>2, <2>2 DEF PoolInv, Stay, ThreadsAccounted
  <2> QED
    BY <2>1, <2>3 DEF PoolInv
<1> QED
  BY <1>1, <1>2

LEMMA PoolNext == RequestTypeOK /\ PoolInv /\ [Next]_vars => PoolInv'
<1> SUFFICES ASSUME RequestTypeOK, PoolInv, [Next]_vars PROVE PoolInv'
  OBVIOUS
<1>1. ASSUME NEW r \in Request, Submit(r) PROVE PoolInv'
  <2>1. pc' = pc /\ pc[r] # "idle"
    BY <1>1 DEF Submit, Pooled
  <2> QED
    BY <1>1, <2>1, SubmitAppends DEF PoolInv, ThreadsAccounted
<1>2. ASSUME NEW r \in Request, NEW e, NEW i, Arrive(r, e, i) PROVE PoolInv'
  <2>1. Out(r) \/ Stay(r)
    BY <1>2 DEF Arrive, Refuse, Answer, Goto, Out, Stay
  <2> QED
    BY <1>2, <2>1, OutOrStay DEF Arrive, Refuse, Answer, Goto
<1>3. ASSUME NEW r \in Request, ResolveDependency(r) PROVE PoolInv'
  <2>1. Out(r)
    BY <1>3 DEF ResolveDependency, Refuse, Answer, Goto, Out
  <2> QED
    BY <1>3, <2>1, OutOrStay DEF ResolveDependency, Refuse, Answer, Goto
<1>8. ASSUME NEW r \in Request, NEW e \in ProviderFailure, ProviderFails(r, e) PROVE PoolInv'
  <2>1. Out(r)
    BY <1>8 DEF ProviderFails, Unhandled, Answer, Goto, Out
  <2> QED
    BY <1>8, <2>1, OutOrStay DEF ProviderFails, Unhandled, Answer, Goto
<1>4. ASSUME NEW r \in Request, ValidateJob(r) PROVE PoolInv'
  <2>1. Running(r)
    BY <1>4 DEF ValidateJob, Handling, Pooled
  <2>2. Out(r) \/ Stay(r)
    BY <1>4, <2>1 DEF ValidateJob, Answer, Goto, Out, Stay
  <2> QED
    BY <1>4, <2>2, OutOrStay DEF ValidateJob, Answer, Goto
<1>5. ASSUME NEW r \in Request,
             CreateUpload(r) \/ HealthLive(r) \/ CreateIntakeJobLegacy(r) \/ Serialize(r)
      PROVE  PoolInv'
  <2>1. Out(r)
    BY <1>5, ZenonT(60)
    DEF CreateUpload, HealthLive, CreateIntakeJobLegacy, Serialize, Returns, Unhandled, Answer,
        Goto, Out
  <2> QED
    BY <1>5, <2>1, OutOrStay
    DEF CreateUpload, HealthLive, CreateIntakeJobLegacy, Serialize, Returns, Unhandled, Answer, Goto
<1>6. ASSUME NEW r \in Request, AwsReturns(r) PROVE PoolInv'
  <2>1. Running(r)
    BY <1>6 DEF AwsReturns, CallSucceeds, S3CallFails, SqsCallFails, PoolInv, ThreadsAccounted
  <2>2. Out(r) \/ Stay(r)
    BY <1>6, <2>1 DEF AwsReturns, CallSucceeds, S3CallFails, SqsCallFails, Returns, Answer, Goto,
                      Out, Stay
  <2> QED
    BY <1>6, <2>2, OutOrStay
    DEF AwsReturns, CallSucceeds, S3CallFails, SqsCallFails, Returns, Answer, Goto
<1>7. CASE UNCHANGED vars
  BY <1>7, SMTT(30) DEF vars, PoolInv, Once, ThreadsAccounted, Queued, Running
<1> QED
  BY <1>1, <1>2, <1>3, <1>4, <1>5, <1>6, <1>7, <1>8 DEF Next, Serve

LEMMA PoolInit == Init => PoolInv
BY DEF Init, PoolInv, Once, ThreadsAccounted, Queued, Running

-----------------------------------------------------------------------------
(* The theorems. *)

THEOREM Invariance == Spec => []IInv
BY InitInvariant, NextInvariant, PTL DEF Spec

(* For any connections, a record is left behind by exactly the upload        *)
(* requests that end in 200, or in a 500 once their S3 client is made.       *)
THEOREM RecordsAreAccounted == Spec => []RecordsAccounted
BY Invariance, PTL DEF IInv

(* No failure is answered as a verdict or in the name of the other service;  *)
(* a "not found" of S3 is always OBJECT_NOT_FOUND, also if the bucket is     *)
(* missing, and a 500 is always a client that could not be made.             *)
THEOREM FaultsAreClassified == Spec => []FaultsClassified
BY Invariance, PTL DEF IInv

THEOREM PoolInvariance == Spec => []PoolInv
<1>1. IInv => RequestTypeOK
  BY DEF IInv
<1> QED
  BY <1>1, Invariance, PoolInit, PoolNext, PTL DEF Spec

(* Every variable keeps its type, the line of the pool included.             *)
THEOREM TypeCorrect == Spec => []TypeOK
<1>1. IInv /\ PoolInv => TypeOK
  BY DEF IInv, PoolInv, TypeOK
<1> QED
  BY <1>1, Invariance, PoolInvariance, PTL

(* No thread is lost, and no blocking call goes without one, for any number  *)
(* of connections and threads.                                               *)
THEOREM ThreadsAreAccounted == Spec => []ThreadsAccounted
BY PoolInvariance, PTL DEF PoolInv

(* The requests that block in S3 or SQS.                                     *)
Blocked == {r \in Request : pc[r] \in {"head", "get", "send"}}

(* However many connections there are, no more requests block in S3 and SQS  *)
(* at a time than the pool has threads: each one stands at a place of its    *)
(* own among the first Pool of the line.                                     *)
THEOREM CallsWithinPool == Spec => [](IsFiniteSet(Blocked) /\ Cardinality(Blocked) <= Pool)
<1>1. PoolInv => IsFiniteSet(Blocked) /\ Cardinality(Blocked) <= Pool
  <2> SUFFICES ASSUME PoolInv PROVE IsFiniteSet(Blocked) /\ Cardinality(Blocked) <= Pool
    OBVIOUS
  <2> DEFINE place == [r \in Blocked |-> CHOOSE i \in 1..Pool : i <= Len(line) /\ line[i] = r]
  <2>1. Pool \in Nat /\ Len(line) \in Nat
    BY HttpAssumption DEF PoolInv
  <2>2. ASSUME NEW r \in Blocked PROVE place[r] \in 1..Pool /\ line[place[r]] = r
    <3>1. Running(r)
      BY <2>2 DEF Blocked, PoolInv, ThreadsAccounted
    <3>2. \E i \in 1..Pool : i <= Len(line) /\ line[i] = r
      BY <2>1, <3>1 DEF Running
    <3> QED
      BY <3>2
  <2>3. place \in [Blocked -> 1..Pool] /\ \A q, r \in Blocked : place[q] = place[r] => q = r
    <3> HIDE DEF place
    <3>1. \A r \in Blocked : place[r] \in 1..Pool /\ line[place[r]] = r
      BY <2>2
    <3>2. place = [r \in Blocked |-> place[r]]
      BY DEF place
    <3> QED
      BY <3>1, <3>2
  <2>4. IsFiniteSet(1..Pool) /\ Cardinality(1..Pool) = Pool
    BY <2>1, FS_Interval, SMTT(30)
  <2> HIDE DEF place
  <2>5. place \in Injection(Blocked, 1..Pool)
    BY <2>3 DEF Injection, IsInjective
  <2> QED
    BY <2>4, <2>5, FS_Injection
<1> QED
  BY <1>1, PoolInvariance, PTL
=============================================================================
