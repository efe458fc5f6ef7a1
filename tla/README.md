# A TLA+ verification of the async dataset profiling service

The service accepts CSV datasets and hands them to an asynchronous worker. A
client asks the API for a presigned URL, uploads its file to S3, and calls
`validate`; the API reads the object, judges it, and publishes a
`PROCESS_DATASET` command to SQS; a worker process receives the command,
processes it and deletes it. This directory models that path from the HTTP request
to the last delivery, checks it with TLC and proves its central properties with TLAPS.

Paths below are relative to `src/`.

## 1. Inventory

| component | state | operations | interacts through |
|---|---|---|---|
| Intake service `app/intake/service.py` | none of its own; the locals of each request | `create_presigned_upload`, `validate_s3_intake_job`, `process_intake` (legacy), `_publish_process_dataset`, `_validate_content` | registry calls, S3 calls, SQS SendMessage |
| Job registry `app/intake/job_registry.py` | `_jobs`: id to record (status, publish marker); lives and dies with the process | `put`, `get` (returns the live record), `update_status`, `mark_published`, `clear` (tests) | shared by all request threads, one lock per call |
| Validators `app/intake/validators.py` | none | filename, size and CSV-structure rules | called with the bytes |
| HTTP router and handlers `app/intake/router.py`, `errors.py`, `app/main.py` | cached S3 and SQS adapters; the requests in progress | three endpoints, error mapping, health and version | thread pool of FastAPI, shared by all routes |
| S3 adapter `app/infrastructure/s3.py` and the bucket | objects by key | presign, HeadObject, GetObject; the client's PUT | bucket shared with clients |
| SQS adapter `app/infrastructure/sqs.py` and the queue | messages, receive counts, DLQ | send, receive, delete, change visibility (unused) | queue shared by API and workers |
| Message contract `app/messaging/schemas.py` | none | build and parse the envelope | both ends of the queue |
| Worker `app/worker/service.py` | `_running`, the delivery in hand | `run`, `handle_received_message`, `request_shutdown` | receive, process, delete |
| Worker process `app/worker/main.py` | the process | signals, exit status, restart by compose | signal handler flips `_running` |
| Settings, logging, containers | configuration | | |

What is hard in it, and what makes each part correct:

- **Intake.** The handlers are synchronous functions in a thread pool, so two
  `validate` calls for one job interleave between any two registry, S3 and SQS
  calls. The publish marker is read long before it is written, and it is read
  without the lock. The presigned URL stays usable until it expires, so the object
  can change between HeadObject and GetObject, and after a verdict. A SendMessage
  whose response is lost is a failure for the caller and a command for the worker.
  botocore repeats such a request by itself. A restart empties the registry in the
  middle of requests, also of one that SQS has yet to accept. Correct means: the
  marker, the status and the response never claim a hand-off that did not happen;
  a completed hand-off is not forgotten; only acceptable bytes lead to a command;
  duplicates are bounded; a client that keeps trying gets through.
- **Worker.** A visibility timeout may expire while a delivery is processed, so
  two processes can hold one message with different receipt handles. Receives and
  deletes can take effect although the call fails. SIGTERM arrives during a long
  poll, and the process may die anywhere. Correct means: nothing leaves the queue
  before some processor finished with it; malformed bodies are neither processed
  nor deleted; each delivery runs once; a signal stops new work and the process
  comes to rest; every message is settled in the end.
- **Validators.** Two paths share the rules and must agree; trailing blank rows,
  a blank first row and duplicate names after stripping are the boundary cases.
- **Envelope.** What the API builds must always parse at the worker, and whatever
  else is in a body must not harm the worker: the validators of the model raise
  exceptions of more than one kind.
- **HTTP.** Every dependency, handler and serialization of a sync route takes a thread
  of one pool, and `validate` keeps its thread for three blocking calls. Errors
  cross four layers (SDK, adapter, service, router), each with a translation of its
  own. Correct means: no error is taken for another one or for a verdict, a refused
  request leaves nothing behind, every request is answered.
- **Both processes together.** The client is told VALIDATED long before anything is
  executed. Correct means: the answer stays true on the other side of the queue;
  only acceptable uploads are executed, and a job only so often.

`PROJECT.json` lists the hazards one by one, each at its line, with the
properties that cover it.

## 2. Modules

| module | models |
|---|---|
| `Intake.tla` | the API process: registry, the two production endpoints, the bucket as the client and the handlers see it, and the set of commands SQS accepted |
| `Handoff.tla` | abstract: what the API promises its clients and the queue. `Intake` implements it |
| `Validation.tla` | one validation request: the rules of `validators.py` in the order the multipart path and the S3 path apply them |
| `HttpApi.tla` | the routes, dependencies, exception handlers and thread pool of the API process, and the translation of errors |
| `Envelope.tla` | the message contract: what the API builds, what the worker makes of a body |
| `JobQueue.tla` | SQS and its DLQ: visibility timeout, receive count, redrive, deletes by receipt handle (external) |
| `Worker.tla` | worker processes over `JobQueue` and `Envelope`: the poll loop, message handling, signals, death and restart |
| `Pipeline.tla` | `Intake` and `Worker` over one queue |
| `Service.tla` | abstract: `Handoff` with executions and the ways an order leaves the queue. `Pipeline` implements it |
| `MCIntake.tla`, `MCValidation.tla`, `MCHttp.tla`, `MCWorker.tla`, `MCPipeline.tla` | symmetry sets and inputs for TLC |
| `IntakeProofs.tla`, `HandoffProofs.tla`, `ValidationProofs.tla`, `HttpProofs.tla`, `WorkerProofs.tla`, `PipelineProofs.tla` | the theorems |

### Intake

One action per access to shared state. `pc[t]` is the place of request thread `t`
in `validate_s3_intake_job`:

| `pc` | next access | action |
|---|---|---|
| `idle` | `registry.get` and `update_status(VALIDATING)` | `BeginValidate`, `BeginUnknown` |
| `head` | `s3.head_object` and the metadata rejections | `HeadObject`, `ReadMissing`, `ReadFails` |
| `get` | `s3.get_object_bytes` and `_validate_content` | `GetObject`, `ReadMissing`, `ReadFails` |
| `check` | `record.message_published` | `CheckPublished` |
| `publish` | `sqs.send_message` | `SendAccepted`, `SendUnanswered`, `SendFails` |
| `mark` | `registry.mark_published` | `MarkPublished` |
| `validated`, `rejected` | the last `update_status`, and the response | `RecordVerdict` |

`get` and the first `update_status` are one action. Between them another thread
could only change the status or the marker of the record, which the second call
overwrites or does not touch and the first does not return, and job records are
never removed while the process lives.

Bytes are records of a length and of whether their CSV structure is acceptable;
the filename rule passes for every stored job because `create_presigned_upload`
applied it first. The S3 key is the job id, which prefixes it. The bucket is one
optional object per job. `upload[j]` is `live` while the URL works, `expired`
afterwards, and `withheld` if presigning raised after the record was stored, so
that no client ever learned the id. `Offered` is what clients upload: all contents in
the runs of `Intake`, two samples in `Pipeline`. `sent` is everything SQS accepted; each
command carries as history the bytes that were judged, the sending thread, and
whether the sender saw SendMessage succeed. `Crash` empties the registry and the
thread pool and leaves S3 and SQS alone.

A SendMessage request whose answer reaches nobody stays on the `wire` (`SendUnanswered`) until
SQS accepts it (`AcceptLate`) or for ever; the thread is still in `send_message` and may send
again, which is botocore's own retry, give up (`SendFails`), or die with its process. So one
publish may enqueue several commands, and a request that was sent before a restart may be
accepted after it. botocore repeats the same envelope; the model tells the copies apart by their
id, because SQS does.

`Handoff` is the same process without threads, objects or marker. A job is unknown,
registered or forgotten; an order is placed for a registered job when its request leaves the
process, and one that its caller is not sure of may be accepted later, after a restart too, or never; a caller places at
most one order per job that it is sure of; who is told that a job was accepted has a
sure order behind the answer. The mapping: `stage` from registry and URL, `orders`
from `sent` and `wire`, `told` from the last replies.

### Worker, JobQueue and Envelope

`pc[w]` is `loop` at `while self._running`, `receive` in `receive_messages`,
`dispatch` with a delivery in hand before the look at `_running`, `handle` in
`handle_received_message` after it, `process` in the processor, `delete` in
`delete_message`, `stopped` after a clean return of `run`, `exited` after an
uncaught error or death. `running` is `_running`. The adapter asks for one message
per receive (`DEFAULT_MAX_MESSAGES`), so a process holds at most one delivery. A
receipt handle is the number of the receive that issued it. A delete with the
latest handle of a message in the queue removes it; a delete with an older handle
succeeds too, and SQS may or may not remove the message. There is no clock: a
visibility timeout may expire any time after the receive, which covers every
processing time. `_running` is read once per delivery (`Abandon` or `BeginHandling`), and a signal that comes after
that, during the parse, finds a delivery that will still be started. `started` and `done` are histories of deliveries handed to the
processor and deliveries whose processor returned.

A body is known by whether it is a JSON object, which fields break their type, and
its timestamp. `Parse` gives what `model_validate_json` makes of it: `accepted`
leads to `StartProcessing`, `ValidationError` to `RefuseMalformed`, and an
`OverflowError` of `_require_utc` to `ParseEscapes`, because pydantic turns only
`ValueError` and `AssertionError` of a validator into a `ValidationError` and
`handle_received_message` catches nothing else. That happens for a `created_at`
whose offset takes it out of the range of `datetime`, such as
`0001-01-01T00:00:00+02:00`.

### Pipeline

`Api` is any step of `Intake`; when it adds a command to `sent`, the message of that
id becomes visible. `Consumer` is any step of `Worker` but its `Publish`, on messages
that all carry what `Build` makes. That such a body parses is no property of its own: the
constructor runs the same validators at the publisher. The two sides share only `place`. Foreign publishers
are left to the runs of `Worker`, where bodies of every kind arrive.

`Service` extends `Handoff`: a placed order is executed, possibly again, also after it
was settled; it is settled once, as acknowledged, which takes an execution, or as
buried in the DLQ.

### HttpApi

A request goes through `dependencies` (the providers of the route, one call each),
`handler`, for `validate` then `head`, `get` and `send` in the same call, and
`serialize`. FastAPI submits each sync dependency, each sync handler and the
serialization of its result to one thread pool (40 threads, first come, first
served): `line` holds the calls in order of arrival, the first `Pool` of them run.
The legacy route is async and runs on the event loop; the exception handlers are
async too and need no thread. `fault` and `stored` are histories of the failure that a
request met and of a record put in the registry.

The providers of the S3 and the SQS adapter make a boto3 client, outside of any `except`
(`app/intake/router.py:63`, `:77`); if that raises, the catch-all answers 500
before the handler was called (`ProviderFails`). `lru_cache` keeps a client but no failure. The
model does not keep the client either, so it lets a provider fail that has succeeded before, which
no property can tell from a first failure. The other providers cannot fail: the settings were
read when the process started, and the registry is a module variable.

`MapS3Error` and `MapSqsError` translate what the SDK raised, `HttpStatus` what the
service raised. Presigning raises the adapter's own errors, which the service does not
translate, so the catch-all answers 500 with the record stored. The messages of errors,
the payloads of health and version, and the 400 that the framework itself gives for an
unreadable multipart body are left out. A client that hangs up does not stop a sync handler, so
nothing depends on it. Two first requests may both build an adapter, since `lru_cache` calls
the provider outside its lock; both adapters are alike.

### Validation

One request and no concurrency except the client's, who may replace the object
between HeadObject and GetObject. `pc` runs through `start`, `head` and `get` (S3
path only), `file` (`validate_file`), `read` (decoding and `csv.reader`), `trim` (the
loop over trailing rows and the header checks) to `done`, or to `refused` if the name
was refused at job creation. An upload is a size, whether `csv.reader` can read it,
and the rows it yields; a cell is a text of which only `strip()` matters (`Strip`).
`size` of the S3 path is what HeadObject said (`SizeSound`).
`kept` is `len(rows)` in the loop, `size`, `errors` and `counts` are the fields of the
response. `Violations` states the rules a second time, over the upload alone, without
order and without a loop, and is what the verdicts are compared with. Read errors and
retries are in `Intake` and left out here.

`Intake` judges an object in one step, on its length and one flag. `Seen(f)` is what it
has of an upload `f`: the length, cut off above the limit, and whether no code but
those for the size applies. `RefinesIntake` says that this is enough: with `Seen` for the
object and the bytes read, and `Point` for the place of the request, every step of the S3 path from
HeadObject to the verdict, the client's overwriting included, is a step of `Intake` or none.
The whole judgement happens at GetObject there, and the checks and the loop that follow
here are invisible.

Definitions marked `Faulty` in the modules are deliberate variants of an
action or a helper, each with a plausible mistake. No specification uses them; they
serve to show that the properties can fail.

## 3. Runs

Bounds: `MaxUpload = 1` already gives an empty, an acceptable, a malformed and an
oversized object. Two threads are the least that race, and every race in this code
is between two requests for one job. `MaxLost` bounds SendMessage requests whose answer
reaches nobody, those on the wire and those accepted. `MaxReceive = 2` gives a first delivery, a redelivery and a redrive.
`MaxStops` bounds signals and kills.

| run | configuration | what it shows |
|---|---|---|
| `intake` | 1 job, 2 threads, 3 ids, 1 lost publish | the safety properties under races, re-uploads, outages, lost and late answers and restarts; `Intake` implements `Handoff` |
| `intake_live` | 1 job, 2 threads, 2 ids, 1 lost publish, fair | a persistent client is told VALIDATED in the end; behaviours in which no two publishes overlap enqueue no job twice |
| `validation` | every file of up to 3 rows with up to 2 cells out of `""`, `"a"`, `" a"`, `"b"`, both paths, all kinds of names, 5 replacements, `MaxSize` 1 | verdicts, codes, counts and sizes are what the rules say of the bytes; both paths agree; the S3 path implements `Intake` |
| `worker` | 2 messages (one malformed), 2 processes, 2 receives, 2 stops | the safety properties under timeouts, outdated receipts, signals and deaths; after a signal each step of a process brings it nearer to its end |
| `worker_live` | 3 messages (one malformed, one that ends its process), 1 process, 2 receives, 2 stops, fair | shutdown completes, every message settles, and a body that ends its process is neither executed nor deleted |
| `pipeline` | 1 job, 1 thread, 2 ids, 1 lost publish, an acceptable and an oversized upload, 1 process, 2 receives | no accepted job is lost, only acceptable uploads are executed, repetition is bounded; the pair implements `Service` |
| `http` | 2 clients over four routes and a probe, one thread in the pool, fair | errors reach the client as what they are, records and threads are accounted for, every request is answered |

One job is enough for the runs because requests for different jobs share no state
(an action touches the record, object and commands of its own job only). `pipeline` has one
API thread and no signals: races of threads are in `intake`, signals and kills in
`worker`, and the product with either is out of proportion; a restart of the API, a worker
that ends on a denied call and comes back, redeliveries, and lost publishes are in. Its theorems
hold for any number of all of them. With one thread in the pool every two requests contend.

The remaining runs each exhibit a point where the text of the repository promises
more than the code keeps. For the first, second and fourth of them section 4 has a theorem that
names the cause and shows that there is no other.

| run | statement | what happens |
|---|---|---|
| `intake_duplicate` | a repeated validate does not enqueue the same work twice within this process (`app/intake/job_registry.py:119-120`) | two overlapping requests both read the marker before either sets it |
| `intake_download` | GetObject is called only after HeadObject confirmed a size within the limit (`app/infrastructure/s3.py:162-167`) | a larger upload replaces the object between the two reads |
| `worker_abandoned` | a message left at shutdown becomes available for another process (`app/worker/service.py:178-179`) | when that receive was the last one allowed, the message goes to the DLQ untried |
| `worker_parse_exit` | malformed messages are handled without terminating the worker loop (`app/worker/service.py:194-195`) | a `created_at` that cannot be converted to UTC raises `OverflowError`, which is not caught; the process ends at every delivery of that body |
| `http_health` | liveness is dependency-free, so that trouble with AWS kills no healthy container (`app/main.py:106-108`) | the probe waits for a thread while hanging S3 and SQS calls hold all of them; shown with 2 threads, and the same with 40 |

Other disagreements met while modelling, without a run of their own:

- `app/intake/schemas.py:43` says of REJECTED that nothing is published. A published
  job can be validated again after its object was replaced, and is then REJECTED with
  its command in the queue.
- `app/intake/schemas.py:182` says that the URL authorizes a single PUT. It authorizes any
  number until it expires.
- `app/infrastructure/sqs.py:169-170` says that a `BotoCoreError` never reached the
  service. A lost response is one as well (`SendUnanswered`).
- `app/intake/schemas.py:114` calls `size_bytes` the size of the uploaded file. It is the
  size of HeadObject next to a verdict on the bytes of GetObject.
- `docs/manual_test.md:158` says that a deleted message does not return. After a delete
  with an outdated handle it may, and the worker never extends the visibility timeout.
- `app/intake/router.py:173-175` says that S3 trouble is a retryable 503. A missing bucket is
  a 404 of S3 and becomes OBJECT_NOT_FOUND (`MapS3Error`, and `FaultsClassified` says so), a client
  that cannot be made is a 500, and so is trouble while presigning.
- The worker will one day read the object that a command points to. Until the URL expires
  it may not be the one that was judged; the simulated processor does not look.

A last data row whose cells are all blank is dropped and not counted, although the
comment at `app/intake/validators.py:181` only speaks of the empty rows of a final
newline; `CountsHonest` states what the code does.

One remark in the other direction: `app/intake/service.py:54-55` warns that a crash
between SendMessage and the registry update can produce a duplicate on retry. In
this version it cannot, because the restarted process answers the retry with
JOB_NOT_FOUND; `OneCommandPerThread` holds across `Crash`.
Duplicates come from overlapping requests and from lost answers instead, and a request that was on its
way at the crash is accepted at most once.

### Fairness

`Intake`: requests in progress are scheduled (weak fairness of the steps that call
nothing outside the process), a client keeps calling `validate` for its job (weak
fairness of `BeginValidate`), and no outage of S3 or SQS lasts for ever (strong
fairness of the successful calls, which are re-enabled by every retry). Uploads,
losses, expiry and crashes are not forced, and `HandoffReached` only speaks of jobs
that are not lost again.

`Worker`: calls return (weak fairness of `Run(w)` as a whole, so nothing is assumed
of their outcome), a process that ended is started again (`restart: unless-stopped`
in `docker-compose.yaml`, or the operator's next deployment), visibility timeouts
expire, redrive happens, and a message that is receivable again and again is
received some day (strong fairness). Without the bound on stops a process could be
killed before every receive for ever, and no liveness would remain.

`HttpApi`: `LocalFairSpec` schedules the event loop and the threads (weak fairness of
`Serve(r)`). `FairSpec` adds that a call to AWS ends, if only in one of botocore's
timeouts (weak fairness of `AwsReturns(r)`, whatever the outcome). `EveryRequestAnswered`
needs both; `http_health` shows what is left of it for the probe without the second. Clients
are not forced to ask.

## 4. Proofs

Everything in the proof modules is proved for arbitrary sets of jobs, threads,
message ids, messages, processes and connections, finite or not, and for any
values of the bounds allowed by the assumptions in the modules (`IntakeAssumption` and
`ValidationAssumption`: a positive upload limit, and a `None` apart from the data;
`JobQueueAssumption`: a positive `maxReceiveCount`; `WorkerAssumption`: bodies are bodies;
`PipelineAssumption` and `HttpAssumption`: the same of their constants). Beyond these,
`RepetitionIsBounded` counts and therefore takes `Thread` to be finite, and the theorems about
causes, below, have the absence of the cause as their hypothesis.

**Intake.** The properties are not inductive: that MarkPublished keeps
`MarkerTruthful` depends on what the thread knows when it gets there. `IInv` adds
that knowledge per program point: a running request is for a known job; a thread in
`check` or `publish` holds acceptable bytes; a thread in `publish` has no confirmed
command for its job yet (from `MarkerComplete`, when it found the marker unset); a
thread in `mark` has its command in the queue; a thread in `validated` finds the
marker set. What is on the `wire` is unconfirmed and about acceptable bytes (`WireHonest`).
Each action has a lemma with one step for every conjunct it disturbs.
`UpdateStatusIsStatusOnly` and `MarkIsMarkerOnly` state what the registry's updates
do to any record. Proved: `TypeCorrect`, `MarkerIsTruthful`, `MarkerIsComplete`,
`PublishedIsAcceptable`, `ReplyIsBacked`, `OneCommandEach`, and
`SerialPublishesOnce`: with a single thread the promise that `intake_duplicate`
refutes for two is kept.

**Causes.** A counterexample shows one way to break a promise; these theorems show that there is
no other.
`OverlapIsTheCause` generalizes `SerialPublishesOnce` to any number of threads: if no two requests
for one job are ever between the read and the write of its marker at once (`ExclusivePublish`),
no job is enqueued twice by confirmed sends. The invariant for it, `PublishFirst`, says that
a job with a thread about to publish has no confirmed command yet. A send by another thread would break
it, which the exclusion forbids, and so would `CheckPublished`; that one found the marker unset, and then
`MarkerComplete` and the exclusion leave no thread that could hold a command. So a lock around these steps is all that the promise needs, restarts and lost
answers notwithstanding. `OverwritingIsTheCause`: if nothing is put in the place of an object
between the two reads of a request (`HeadStaysTrue`), every download is within the limit.
`OnlyUnconvertibleEscapes`: no body but a JSON object whose `created_at` cannot be converted
ends the worker; hence `ConvertibleBodiesEndNoProcess`, where there are no such bodies. The
hypotheses are restrictions on behaviours or bodies, not on the model; TLC finds behaviours on
both sides of each.

**Handoff.** `Refinement`: every step of `Intake` is one step of `Handoff` or a stutter.
Placing an order needs that a publishing thread has no confirmed command for its job and that the job is
known (both in `IInv`); that SQS accepts it later is a stutter; telling a client needs `ReplyBacked` before the reply is
given; a crash needs, beyond `IInv`, that a request in progress has not answered yet
(`Unanswered`).

**Worker.** `IInv` adds that a receipt in hand was issued, that no two processes hold
the same delivery, that a delivery in hand that waits for its turn or is being parsed never reached a processor,
and that a delivery about to be deleted is done. Proved: `TypeCorrect`,
`AcksFollowWork`, `MalformedAreKept`, `DeliveriesRunOnce`, `ShutdownIsObeyed`, and
`ShutdownIsBounded`: `StepsLeft` counts the steps of its own that separate a process from its end, and
once the process is told to stop, no step of anyone, a call that fails or a kill included, raises it. With
it, what `ShutdownCompletes` takes from fairness is only that the process takes its next step.

**Validation.** For uploads with any number of rows and columns of any texts. The
heart is the loop: `IInv` says that the rows behind `kept` are blank
(`BlankBehind`), so when it stops at `kept` the lemma `DataRows` gives the number of
data rows, and `NothingFilled` the missing header. `RepeatedNames` shows that the
code's test for duplicate columns, which compares the length of the header with the
size of the set of its names, finds exactly the headers in which two columns share a
name (a surjection between finite sets of one size is an injection). The other
lemmas say which rule each early return stands for. Proved: `TypeCorrect`,
`VerdictIsAboutBytes`, `PathsDoAgree`, `CountsAreHonest`, and, with an invariant of its own for the
size of the response (`Sizes`), `SizeIsSound`. `ImplementsIntake` is the step from
here to `Intake`: `HeadMaps` and `GetMaps` map the two reads, `PutMaps` the client, `SeenJudged` says that
the rules broken by a file are those that `Intake` finds in its length and flag, and `VerdictComesOut`,
from `VerdictFollowsBytes`, that the steps after the download end as `Violations` says and so are
stutters of `Intake`.

**Pipeline.** `PInv` joins the invariants of the two sides with what ties them: the
queue has seen exactly the commands that were sent (`Coupled`), under ids that are used once
(`UniqueIds`), and nothing is received that was not sent. A step of `Api` is a `Publish`
or nothing for `Worker`, a step of `Consumer` is nothing for `Intake`, so the lemmas of
`WorkerProofs` and `IntakeProofs` carry over by instance. `PartsAreImplemented` says so of whole
behaviours: the pair is a behaviour of `Intake` and, seen from the other side, one of `Worker`, so the promises of both
hold of it without a new proof (`ApiPromisesCarryOver`, `WorkerPromisesCarryOver`). `NothingAcceptedIsLost` chains
`ReplyBacked` or `MarkerTruthful`, `Coupled` and `AckedAfterWork`. `RepetitionIsBounded`
maps each counted delivery to its receive number and the thread that sent its command,
and shows with `OneCommandPerThread` that no two share both; `RepetitionNeedsOverlap` drops the
factor of the threads, and with it their finiteness, where publishes do not overlap. `ServiceRefinement` takes
`Refinement` for the steps of the API and maps those of the worker to `Execute`,
`Settle` or a stutter. Also `ProcessedWasAcceptable`.

**HttpApi.** `IInv` says what holds of a request on its way: nothing failed and nothing is
answered yet, only the upload handler stores, only known jobs get to S3.
`S3ErrorMapped` and `SqsErrorMapped` follow each error through the translations. Proved:
`RecordsAreAccounted`, `FaultsAreClassified`. `PoolInv` is the invariant of the line: nobody stands in it
twice, so leaving it once gives the thread back. `LeaveShifts` and `SubmitAppends` say
what a step does to the places of the others; seen from the pool every other step takes its request
out of the line or leaves the line alone (`OutOrStay`). Proved: `TypeCorrect` and
`ThreadsAreAccounted`, for any size of the pool, and from it `CallsWithinPool`: no more
requests block in S3 and SQS than the pool has threads.

Only model-checked: the liveness properties `HandoffReached`, `ShutdownCompletes`,
`EveryMessageSettles` and `EveryRequestAnswered`, since liveness under fairness is
outside what TLAPS proves. `OverwritingIsTheCause` has no run: its hypothesis is about steps,
and TLC takes hypotheses about states only.

## 5. Plan

1. `Intake`, with proofs: done.
2. `JobQueue` and `Worker`, with proofs: done.
3. `Validation`, with proofs: done.
4. `Handoff` and its refinement by `Intake`, checked and proved: done.
5. `Envelope`, and bodies of every kind at the worker: done.
6. `Pipeline` and its refinement of `Service`, checked and proved: done.
7. `HttpApi`, with proofs of the safety properties: done.
8. The causes of the refuted promises, the implementation of `Intake` by `Validation`, of the
   parts by `Pipeline`, and the safety halves of shutdown and of the thread pool: done.

Left for later: end-to-end liveness (every accepted job is executed or dead-lettered
under the fairness of both sides), whose product is large and whose two halves are
checked; restarts of the API process in `HttpApi`; the blocking calls that `Intake` and
`HttpApi` both have of `validate`, as one abstract specification that both implement.

## 6. Not modelled

- `csv.reader` and UTF-8 decoding: an upload is given as the rows they yield, or as
  unreadable. `sanitize_filename`: it forms the last segment of the S3 key, and no
  behaviour depends on it.
- `change_message_visibility` of the SQS adapter: nothing calls it.
- More than one API process: the image runs uvicorn with `--workers 1`, and the
  registry documents that it is process-local.
- Copies of a message that SQS delivers without a timeout, and message retention:
  properties of AWS that the code neither sees nor handles. An early timeout has the
  same effect on a worker as a spurious copy.
- Settings, logging, Docker files, IAM: configuration and pure I/O without state that
  a step could break. `Settings` is read once at start and enters as constants.
