# Evaluator in TLA+

Specifications of the grading backend of this repository: what the API handlers, the
Celery workers, the broker and the database do to submissions, code-evaluation jobs and
grades, model-checked with TLC on small instances and, where marked, proved with TLAPS
for every instance. Paths are relative to `backend/app/` unless they say otherwise.

## The system

FastAPI handlers (`api/v1`) and three Celery worker pools (`workers`) share one Postgres
database and nothing else; Redis carries the task messages. `docker-compose.yml` starts
`worker-ocr` with one process, `worker-grading` with eight and `worker-code-eval` with four.

| component | state it keeps | operations | talks to | what makes it correct |
|---|---|---|---|---|
| Submission API (`submissions.py`) | `submissions` row: file, `ocr_result`, `status` | upload, ocr-correction, regrade, grade-override, process, process-bulk, dispatch, delete | all three queues, `grades` | a submission never waits for something that will not come; the active grade is the one the last request asked for |
| OCR worker (`ocr_tasks.py`) | none of its own | scan a file, store the text, ask for grading; 2 retries | OCR engines, grading queue | every upload ends graded or failed |
| Grading worker (`grading_tasks.py`) | none | grade a text against the approved rubric; 3 retries | model service, `grades` | the grade belongs to the text shown |
| Code-evaluation worker (`code_eval_tasks.py`) | `code_eval_jobs`, `code_eval_attempts` | static gate, raw run, shim analysis and retry, quality, grade | executor, model service, `grades` | jobs follow the lifecycle, end, and leave exactly one grade |
| Job creation (`code_eval.py` create_job, `submissions.py` dispatch) | `code_eval_jobs` | create and send, once per submission unless a regrade is explicit | code-eval queue | no job is lost, no submission regraded without being asked |
| Job state machine (`services/code_eval/state_machine.py`) | none | transition table | worker, API | terminal statuses are final |
| Grade store (`models`, `grades.py`) | `grades` rows with `active_version` and `classroom_status` | append, archive, push, release | Classroom | one active grade, the newest; what is released is what is active |
| Environment builds (`code_eval_env_tasks.py`, `code_eval.py`) | `code_eval_environment_versions`: status, `freeze_key` | create, build, force a rebuild, validate for publish | code-eval queue, Docker | a frozen environment does not change under a job |
| Approvals (`code_eval.py`) | `code_eval_approval_records` | generate, approve, reject | model service | what is graded with is what was approved |
| Rubrics and publish (`rubrics.py`, `assignments.py`) | `rubrics`, `assignments` | generate, edit, approve, publish | grading worker | an edit needs a new approval |
| Classroom sync (`classroom.py`, `services/classroom_sync.py`) | external | ingest, draft, assign | Google Classroom | what is recorded as released was returned to the student; an ingest repeats nothing |
| Executor (`services/code_eval/execution_service.py`, `microvm_executor.py`, `firecracker_runtime.py`) | a lock file, a Firecracker process | run a program on the backend of the deployment, or on its fallback | runtime bridge, guest agent | one microVM at a time; a verdict does not depend on who gives it |
| Runtime bridge, guest agent (`runtime_bridge_service/server.py`, `microvm_guest_agent/agent.py`) | none | compile and run a request, test case by test case | executor | the verdict is the one the executor would have given |
| Pure services (scoring, quality, shim decision, static analysis, language configuration) | none | compute | worker, model service | scores within bounds; a retry is not worse than no retry |
| Model client (`services/genai_client.py`) | none | ask, retry, classify errors | Gemini | permanent errors are not retried |
| Frontend | view state | polls the API | API | stops at a terminal status |

### What is hard here

* **Nothing is locked.** Handlers and tasks read rows, call something slow, and commit
  later. Sessions run at READ COMMITTED with `autoflush=False`; a commit writes only the
  attributes that differ from what *that session* loaded, so a stale read can hide a write
  as well as cause one.
* **Delivery.** `task_acks_late` (`celery_app.py:27`) makes delivery at least once: a message
  comes back while its first task may still run. A pool process that is killed, on the
  other hand, has its message acknowledged.
* **Several writers of one grade**: worker, worker, TA.
* **Messages and commits are two steps.** Mostly the commit comes first; in process-bulk the
  message does.
* **Retries** re-run a task on a submission that has moved on.
* **One program, four judges.** The local and the docker backend, the bridge and the guest
  agent each contain a copy of the loop over the test cases, and the lock decides which of
  them a job gets.
* **The other side of a commit.** Classroom is told before the database is, files are
  deleted before rows, and nothing is told apart when the process ends between the two.
* **An approval names a row and not a content**, and the content is rewritten by a handler
  that waits for a model.

## Modules

| module | what it is |
|---|---|
| `JobStateMachine` | `_ALLOWED_TRANSITIONS` and `_transition_to_failed` as operators; `Reachable` is its transitive closure. No state. |
| `JobLifecycle` | abstract specification of a job: created QUEUED, moves forward along the table, terminal is final |
| `GradeLedger` | abstract specification of the grades table: a commit adds one active row and archives older ones of its submission |
| `CodeEvalJob` | dispatch, creation, override, broker, and `run_code_eval_job_task` |
| `CodeEvalJobProofs` | theorems about `CodeEvalJob` |
| `SingleDeliveryProofs` | theorems about `CodeEvalJob` when no message is handed out twice at a time |
| `WrittenPipeline` | one written submission: its API requests, `run_ocr_task`, `run_grading_task`, both queues |
| `WrittenPipelineProofs` | theorems about `WrittenPipeline` |
| `TestRuns` | what each of the four judges makes of a request, as operators, and the reference verdict `Deserves`. No state. |
| `ShimDecision` | whether a failed attempt is run again, and as what. No state. |
| `Sandbox` | one microVM at a time: the lock file, the Firecracker process, kills |
| `SandboxProofs` | theorems about `Sandbox` |
| `Evaluation` | composes the three: from a request over the choice of backend, the fallback and the retry to a score, for workers that meet at the lock. Refines `Sandbox`. |
| `SumTheorems` | theorems about `SumFunction` of the community modules, which scores are made of |
| `EvaluationProofs` | theorems about `Evaluation`, and through it about `TestRuns` and `ShimDecision` |
| `Requests` | what API handlers have in common: a request loads a row and commits what it changed |
| `EnvironmentBuilds` | build requests and build tasks of environment versions |
| `Reviews` | generated tests and rubrics: rewrite, tests made by hand (`POST /approvals`), approve, reject, delete |
| `Publication` | composes these two: publish an assignment, make jobs from what is ready and approved |
| `PublicationProofs` | theorems about `Publication`, `EnvironmentBuilds` and `Reviews` |
| `GradeRelease` | drafts and releases pushed to Classroom, ingest, deletion |
| `GradeReleaseProofs` | theorems about `GradeRelease` |
| `MCCodeEvalJob`, `MCWrittenPipeline`, `MCEvaluation`, `MCPublication`, `MCGradeRelease` | constants for TLC |

### How code becomes actions

A task or a handler is cut where it reads the database, where it calls something slow and
where it commits; between two cuts it cannot be observed. What a transaction has read is
part of its process's record (`seen`, `count`, `seenSub`, `captured`, `text`) and is
forgotten at its commit, as SQLAlchemy expires loaded attributes. `FlushedStatus`
(`Flushed` in the written pipeline) is the rule that an attribute set to the value it was
loaded with is not written. `CommitGrade` archives the rows the transaction's UPDATE found
and appends the new one; a grade's id is its position, so `grades` is also the history. That both
models write it alike is what `GradeLedger` says: each maps its rows to the ledger's and refines it.

Row locks are not modelled: Postgres would make a second UPDATE of the same row wait for
the first transaction. Waiting only removes interleavings of the steps inside one
transaction. The stored states a run reaches, including those of the violations below,
are reached by schedules in which no transaction waits.

`CodeEvalJob` (variables `job`, `attempts`, `grades`, `sub` for the tables; `unsent`,
`ready`, `redelivered` for the messages; `run` per worker process; `request` per handler):
`DispatchCheck` / `DispatchCommit` is `dispatch_code_eval`, whose look for a completed job
and whose insert are two steps; `CreateJob` is `create_job` in one step, the same race being
that of dispatch; `Enqueue` is `delay`. `StartExecuting`, `RunRaw`, `RecordRaw`, `Analyze`,
`ToAnalyzing`, `ToRetrying`, `RunShim`, `RecordShim`, `Finalize`, `WriteGrade`, `Finish` are
the task in source order, `ConfigError`, `RecordBlocked` and `Reject` its gates,
`InvalidTransition`, `ServiceError`, `DatabaseError` what may raise, and `GiveUp` the handler
at the end. `Redeliver`, `WorkerDown` and `ChildKilled` are the broker's and the process
manager's part. The outcome of a program, of the gates, of the shim analysis and of the
quality model is a free choice. `gradesBefore` is a history variable of the job row.

`WrittenPipeline`: the row, the grades, a bag of messages per queue counted by retries, one
record per worker process and per handler. Text is the upload it was read from plus the
set of corrections in it, which is what `GradeIsCurrent` has to tell apart. A message sent
right after a commit is sent in the action of that commit, since nobody can see when it was
sent before a worker takes it; process-bulk sends before its commit, so there it is two
actions. Queues have no order because retries come back after a countdown and pool
processes take messages at their own pace. Rubrics are outside: a grading task finds an
approved one or none.

`Evaluation` is what happens inside one task of `CodeEvalJob` between its database
transactions; the gates and the database belong to the latter. A program is data: for each
test case its run time, exit code, output class ("same" as expected, "spaced", "other",
"blank", "binary") and output size, in a clean workspace and in one that earlier test cases
have written to. `Cases` gives the verdicts of a place, `Execute` is a run that needs no
microVM, `EnterSandbox`, `InSandbox`, `LeaveSandbox` are
`execute_firecracker_vsock_backend` with the lock, `AnalyzeAttempt` the shim, `Finalize` the
score. Scores are integers: a unit is 1/10000 of a mark per point of weight, so no division
is left out. `Sandbox` does not count time: wherever a worker waits it may also give up,
as every wait has a deadline. `Killed` and `Restarted` are the kill of a child process, whose
message is gone, and of a container, whose messages come back; the job of such a message has
left QUEUED, so that the task fails it instead of running it again (`Refuse`).

`Publication` has one process per request and per worker. `Flushed` in `Requests` is the rule
for net changes again. `Saved` is an UPDATE of a row that may be gone, or gone and uploaded again: `made` names the
request that made a row, as its primary key does. `reviewed` is what a
human has looked at before approving, which the code does not know. `overlapped`, `contested`
and `lost` are history: versions two builds of which ran together, artifacts reviewed and
rewritten at once, builds whose end nobody can record. The reads of one handler between
two waits are one action. `builds` counts the builds of a version and stands for "no build
since".

`GradeRelease` has both routers that push grades: `/grades/release` and `/grades/draft`
record what was pushed, the two bulk endpoints of the Classroom router (`release_all`,
`draft_all`) do not. `audits` are the audit entries that refer to a submission: a deletion
removes those it finds, and the database refuses its commit for any other. `classroom` is what the student can see. `Drops` is a batch going on after an
item that failed, `ProcessEnds` an API process that ends with its transaction rolled back and
Classroom as it is.

## Runs

Each configuration takes below three minutes with two TLC workers.

| run | configuration | shows |
|---|---|---|
| `job_once` | two jobs, one submission, two processes, one handler, one override, one fault, no redelivery | `GradingIsUnfinished`, and that `CodeEvalJob` implements `JobLifecycle` (`RefinesLifecycle`) and `GradeLedger` (`RefinesLedger`) |
| `job_redelivery` | one job, two processes, its message handed out a second time while the first task runs, two faults anywhere; with fairness | `TypeOK`, `AttemptLog`, `CompletedHasGrade` hold in spite of the overlap; a second grade takes a second hand-out (`GradesPerDelivery`); an unfinished job leaves everybody's hands only by the faults `Loses` names (`OnlyFaultsLoseJobs`) and ends unless it does (`JobTerminatesOrIsLost`) |
| `grade_race` | two jobs of one submission | `OneActiveGrade` fails |
| `override_race` | a job and an override | `ManualGradeStands` fails |
| `crash_mid_task` | one job, one process, one fault, with fairness | `JobTerminates` fails |
| `written_serial` | one process per queue, two handlers, one correction, regrade, override and process each | `GradeIsCurrent`, `GradingInProgress` |
| `written_arrivals` | one process per queue, one handler, a re-upload, a process-bulk, one fault (a worker going down, or the message from OCR to grading refused); one retry; with fairness | `TypeOK`, `Settles` |
| `stale_grade` | two grading processes, one correction | `GradeIsCurrent` fails |
| `bulk_stuck` | one process per queue, one process-bulk | `GradingInProgress` fails |
| `evaluation` | two workers, one kill, one failing operation on the lock file, 8 groups of scenarios (below); with fairness | `OneVM`, `NothingLeft`, `StaleLockIsForever` of the sandbox; `CreditIsDeserved`, `DeservedIsCredited`, `SameProgramSameScore` of the four judges; `RetryHelps`, `WithinMarks` of retry and score; `TasksEnd`; `Evaluation` implements `SandboxSpec` |
| `publication` | two versions, two worker processes, three requests, one fault; with fairness | `JobIsFrozen`, `ReadyHasKey`, `BuildsEnd` of environments; `ApprovedWasReviewed`, `ApprovedIsCovered`, `JobTestsWereReviewed` of reviews |
| `release` | two students, three requests, one process that ends | `ReleasedWasReturned`, `ReturnedIsRecorded`, `ReleasedActiveIsShown`, `DeleteIsWhole`, `IngestedIsSent`, `IngestIsIdempotent` |

### Bounds

* Two jobs and two processes give every overlap of two writers of one submission's grades;
  three add nothing to a property about pairs. Submissions do not interact, so one is
  enough. `MaxRedeliveries`, `MaxFaults`, `MaxOverrides` and `Limit` bound what an
  environment without them would do for ever.
* `job_redelivery` has no request handler: its job comes from create_job, since none of its
  properties reads the status of the submission. Two faults are the least for a crash of each of
  two overlapping tasks.
* Retries are counted to 1 instead of 2 and 3 (`MaxOcrRetries`, `MaxGradeRetries`): first
  try, a retry, and the limit are all there. `written_serial` has no OCR retries, which it
  says nothing about.
* `evaluation`: two workers are one that holds the lock and one that waits. `Quota` 2 with
  run times 1, 2, 3 and 5 has a test case in time, one that only docker's `Grace` lets pass and
  one that is late everywhere; `VsockWait` and `BridgeWait` 3 are less than two test cases
  of 2. The scenarios are every behaviour of one test case in the four places (`Verdict`), pairs
  of which one disturbs the other (`Sequence`), compilers (`Compiling`), ways of input
  (`Interfaces`), all deployments (`Deploying`), weights and quality (`Scoring`) and two busy
  workers (`Contending`, `Twins`). Two test cases are the least with an earlier and a later one.
  One kill leaves a stale lock, which a second cannot change; the same goes for the one failing
  operation on the file. Calls of docker may fail for any set of test cases of every attempt.
  A text that is wanted is never blank.
* `publication` and `release`: `MaxRequests` 3 with the kinds a starting state expects
  (`expected`): the stages and courses name those combinations that touch the same row. Two
  requests race; the third comes before, between or after them. `MaxFaults` is 1 because each
  lapse the properties name needs one.
* Jobs, processes and handlers are symmetric, which `job_once` uses; runs with liveness do
  not.
* Deadlock is not checked: with the requests used up and the queues empty the system stops.

### Fairness

Weak fairness for a process that has a task, an idle process with a waiting message, a
handler inside a request and a message that is owed. These are what a running Celery
process and a running ASGI server provide. Nothing obliges anybody to make a request, the
broker to redeliver, or a fault to happen, and an external call is taken to return (they have
timeouts). The same holds of `Evaluation` (weak fairness of a worker inside a task, which is
not owed the lock: it takes the lock or times out) and of `Publication` (requests that were
opened, and worker processes; neither faults nor requests are owed). `GradeRelease` states
none and has no liveness property. In `crash_mid_task` all of it is assumed and the job is stuck nevertheless.

## Where the code does not do what it says

* **Two active grades** (`grade_race`; `code_eval_tasks.py:130`). Each of two transactions
  archives what was active when its UPDATE looked. Nothing else prevents two active rows.
  PRD.md:118 promises that "only the latest run remains active". The same code is in
  `grading_tasks.py:74` and the override. What is left is the ledger: the row of the last
  commit is always among the active ones. A reader takes one of these without an order
  (`submissions.py:286`), so it may be shown the older.
* **A TA's grade archived by a run that began before it** (`override_race`). The worker does
  not look at `source`. AMGS_System_Report.md:148: "TAs retain absolute final authority."
* **A job lost with its pool process** (`crash_mid_task`; `celery_app.py:27`): the comment
  says "re-queue if worker crashes mid-task".
* **A grade of the text before the correction** (`stale_grade`; `grading_tasks.py:62`) with
  more than one grading process.
* **`grading` for good** (`bulk_stuck`; `submissions.py:663`): the message leaves before
  the commit that says so.

TLC also refutes the following, for which no run is kept:

* With redelivery, a terminal status may be overwritten and a job may write two grades:
  `RefinesLifecycle` and `OneGradePerJob` need a job not to be handed out twice at a time.
  `GradesPerDelivery` is what is left of the second, and is the same where nothing is redelivered.
  With one process `OneActiveGrade` holds as well.
* A job that a gate rejects leaves its submission `grading` (`Reject` touches the job only);
  hence `GradingIsUnfinished` asks for a job that is not COMPLETED, which the rejected job meets
  though it ends nothing. The property is about commits that overlap, not about such a job.
* A FAILED job may have a grade: a failed verdict is committed with one
  (`code_eval_tasks.py:521-550`), while `tests/integration/run_rigorous.py:562` says
  otherwise.
* "Grade write failure is non-fatal — job still completes" (`code_eval_tasks.py:164`): the
  session is unusable until rolled back, so the job is given up (`DatabaseError`).
* `GradeIsCurrent` with a re-upload: the grading of the earlier upload commits `graded` after
  the OCR of the new one has failed for good. For this reason `written_serial` has none.
* `GradeIsCurrent` with an OCR worker that goes down between its commit and its message: the
  repeated scan fails, and an older grading commits `graded`.
* `GradingInProgress` with a re-upload and a regrade in two handlers: the regrade has seen the
  old text, the OCR of the new upload fails, the regrade commits `grading`, and its task finds
  no text and returns at once, leaving the status (`grading_tasks.py`, the early returns).
* The regrade policy is a check before an insert; two dispatches at the same time both pass.

The passing runs of the later modules hold up to lapses that their properties name. A lapse
is a place where the code really does the thing; the property says that there is no other.

* *Verdicts* (`Generous`, `Strict` in `Evaluation`): docker waits longer than the quota and
  takes a compiler's failure for the program's exit code; any error of docker in the container
  of one test case is taken for a timeout of the program with exit code -1, and an output that
  cannot be read for none (`execution_service.py:493-515`, `Mishaps`), without a retry: the test
  case is failed, or passed where -1 is what it expects; a test case may expect the exit code
  that stands for a killed program; the local backend runs all test cases in one workspace,
  and one output that is not UTF-8 costs the whole local run; docker, bridge and guest compile
  the entry point only, the bridge and the guest without the flags of the profile; the guest
  does not empty the pipes while it waits (`agent.py:388`) and installs no packages.
* *Scores* (`SameProgramSameScore`): of two workers with the same program the loser of the
  lock is judged by the fallback, and docker may fail for one of them only. A white-space retry is granted to a docker run and not to a
  microVM, whose test cases the shim does not see (`shim_service.py:362`).
* *Marks* (`WithinMarks`): a score the bridge forwards from its upstream (`microvm_transport`)
  is believed and may exceed the maximum; `build_score_breakdown` clamps the percentage and
  not the total.
* *The lock* (`StaleLockIsForever`): a killed holder leaves the file, and so do an unlink or a
  first write that fails (`firecracker_runtime.py:25-48`, `MaxFaults`); no microVM runs on
  that host again until somebody removes it. The orphan is why nobody should take it over
  unseen: the mutant that does so has two microVMs.
* *Environments* (`overlapped`): a forced build that arrives while another is under way can
  leave a version ready without a key, and a job bound to it. `POST /environments/versions`
  stores the status and the key it is given (`code_eval.py:329`): a version made ready without a
  key is published and dispatched, with an empty key, until a build gives it one. `ReadyHasKey`
  is about versions that were built, and so is the last part of `JobIsFrozen`.
* *Tests* (`JobTestsWereReviewed`): approve checks `testcase_raw_with_classes` or `tests`
  (`code_eval.py:475-481`), dispatch runs `testcases` or `tests` (`submissions.py:481`). What the
  code generates has one content in both. In a record made by `POST /approvals` they may differ
  (`given` in `Contents`): the record was reviewed and passed the gate, the tests that run need
  not have. A record with none to run is refused (`submissions.py:507`).
* *Builds* (`lost`): a build whose message or whose record of failure was lost stays
  `building`. The comment at `code_eval_env_tasks.py:234` says "reuse it" of an existing freeze
  key; the column is unique, so of two versions with one specification the second fails.
* *Approvals* (`contested`): approve sets a flag on what the row holds by then, and a rewrite
  that loaded `pending` does not write it. If the two overlap, content is approved that nobody saw.
* *Releases*: `ReturnedIsRecorded` is about batches that were committed by
  `/grades/release`. One that is cut or refused leaves grades returned and not recorded, and
  the Classroom router's release records nothing at all. Drafts pushed after a release take the
  record back. Two releases of one student that overlap (`contended`) may show the older grade.
* *Deletions* (`disturbed`): a job, or a grade or an audit entry made meanwhile (a release, an
  OCR correction and a regrade add one, `submissions.py:191, 222`, `grades.py:46`), makes the
  commit of a whole batch fail after the files of it are gone (`submissions.py:328, 352`).
* A forced ingest replaces the file in place: the grades and jobs of the old one stay.

## Proofs

Every invariant, action property and refinement that a passing run checks is proved, but for the
fairness in `SandboxSpec`; liveness is not. The theorems hold for every value of the constants
that satisfies the named assumptions and, where a table has them, the premises.

### `CodeEvalJobProofs`, from `ConstantsAssumption`

| theorem | property | the argument |
|---|---|---|
| `TypeCorrect` | `TypeOK` | inductive together with `Wired`: a process that is not idle has an existing job, an idle one is exactly `Idle`, a waiting or unsent message has its job, an open request has its submission |
| `AttemptsAreLogged` | `AttemptLog` | `CountsAreOld`: what a task remembers of `attempt_count` is at most the count. With the unique constraint an insert therefore happens only at the end of the log |
| `GradedSubmissionsHaveGrades` | `GradedHasGrade` | `OwnCaptures`: a transaction archives grades of its own submission, which are older than the row it appends; and `graded` is only written with an active row appended. A theorem only, no run lists it |
| `CompletedJobsHaveGrades` | `CompletedHasGrade` | `AttemptsFirst`: a task at or behind `analyze` or `finalize` has recorded an attempt |
| `GradingIsNeverStale` | `GradingIsUnfinished` | `LastDispatch`: of a submission that is `grading` some job is not COMPLETED, and no task of that job at `finish` has read `graded`: so the commit that completes this last witness writes `graded` |
| `FaultsAloneLoseJobs` | `OnlyFaultsLoseJobs` | `StaysInHand`: a job in hand has a message or a task that carries it, and in AI_ANALYZING, from which no task can start over, the very task that analyzes it; every step passes this on or is one that `Loses` names |
| `GradesNeedDeliveries` | `GradesPerDelivery` | `GradeTokens`: the grades of a job, its tasks that may still grade and its waiting messages are together no more than the hand-outs. A crash gives a message back and takes a task; only `Redeliver` adds one. Counting tasks needs `IsFiniteSet(Slots)` |
| `GradesAreALedger` | `RefinesLedger` | `OwnCaptures`: what a commit archives is older and of the same submission (`AppendedRow`, `ArchivedRow`); every other step leaves the rows (`LedgerStep`) |

`OnlyFaultsLoseJobs` is stated of steps and needs no premise: with redelivery the stored status may
go back, but a task or a message that carries the job is there whatever the order. What the
faults do is not softened: `crash_mid_task` shows one of them.

The lemmas in front of them say what any step may do to one group of variables (`TableStep` for
the job and attempt tables, `RunStep` for a process, `RequestStep` for a handler, `GradeStep`
for the grades, `LogStep` for the attempt log), so each invariant is argued once per way its
variables change rather than once per action.

### `SingleDeliveryProofs`, from `MaxRedeliveries = 0` as well

| theorem | property | the argument |
|---|---|---|
| `LifecycleIsKept` | `RefinesLifecycle` | `SoleMessage`: a job has one unsent or waiting message or one task, never two; so `UpToDate`: the status a task has read is still the stored one, and each commit walks along the table from there (`Reachable`) |
| `JobsAreGradedOnce` | `OneGradePerJob` | with `GradedIsOver`: a job that has a grade is terminal, and `OverIsFinal`: a terminal job stays so |

`OneGradePerJob` is a theorem only: where no message is handed out twice `GradesPerDelivery` says the
same, and that is what the runs check. The premise says that the broker hands no job out while a task still has it; crashes, killed
children, retries and overrides are all there. It is needed: TLC refutes both properties with
one redelivery. `MaxRedeliveries = 0` is the instance `job_once` checks.

### `WrittenPipelineProofs`, from `PipelineAssumption`

| theorem | property | premises | the argument |
|---|---|---|---|
| `TypesHold` | `TypeOK` | none | with the bound on the retries a task carries |
| `GradingIsWaitedFor` | `GradingInProgress` | `NoRewrites` | `TextInv`: the text, once there, is never taken away, and before it is there nobody asks for a grading; so every task that finds `grading` sets another status (`GradingIsAwaited`) |
| `GradesAreALedger` | `RefinesLedger` | none | a step leaves the grades alone or is a commit of one active row, whatever rows it captured before (`GradesChange`); such a commit is an entry of the ledger. A theorem only: `job_once` checks the refinement where commits overlap |
| `ScansAreWaitedFor` | `ScanInProgress` | `NoRewrites` | `ScanIsAwaited`: a row in `processing` has a message or a task that will set another status, as what it has read differs from what it will write; `ResultIsAwaited`: one in `ocr_done` has a task that will ask for grading, or a grading that will take over; `OcrRetriesAreBounded`: the message of a worker that goes down is one the queue can hold, so it comes back. A theorem only: on the small instance `Settles` says more |
| `GradesAreCurrent` | `GradeIsCurrent` | `NoRewrites`, `OneGrader` | `OldTextIsRegraded`: whoever grades a text that was changed meanwhile has a newer request behind it; `FreshOrOwed`: a grade is of the current text, or a grading is still to come |

`NoRewrites` (no upload over the row, no process-bulk) and `OneGrader` (one grading process, no
fault) are met by `written_serial`; the theorems say more than that run: `GradingIsWaitedFor` holds
for any number of processes, handlers, retries and faults, `GradesAreCurrent` for any number of
OCR processes, handlers and retries, `ScansAreWaitedFor` for any of all of these. For the first two
none of the premises can be dropped: see `stale_grade`, `bulk_stuck` and the refutations above.
`ScanInProgress` also follows from `Settles` in `written_arrivals`, with a re-upload, a process-bulk and the one OCR
process of `docker-compose.yml`. With two OCR processes, a worker that goes down and a re-upload
TLC finds a row stuck in `ocr_done`: the repeated scan ends with the very text it had loaded, so
its UPDATE leaves out the column that the re-upload has cleared meanwhile, and the grading
finds no text and returns. So the premise is needed for more than one OCR process.

### `SandboxProofs`, from `SandboxAssumption`

| theorem | property | the argument |
|---|---|---|
| `SandboxInvariant`, `SandboxTypes` | `IndInv`, `SandboxTypeOK` | inductive: the type invariant; `HolderHasFile` (a descriptor comes with the file and belongs to one worker), `StepNeedsLock` (who is past the lock holds it, who is before it does not), `VMIsHeld`, `OrphanIsLockedIn` (an orphan is alone behind a file nobody holds), `LeftByKill` |
| `OneVMAtATime` | `OneVM` | two processes would need two holders, or a holder beside a stale lock: `HolderHasFile`, `VMIsHeld`, `OrphanIsLockedIn` |
| `NothingIsLeft` | `NothingLeft` | `VMIsHeld`, `LeftByKill` (an orphan is left by a kill, a file without a holder by a kill or a fault) |
| `StaleLockStays` | `StaleLockIsForever` | with the file there and no holder nobody gets past the lock and nobody is entitled to remove it |

`OneVM` alone is not inductive: a worker about to start its VM must be known to hold the lock
(`StepNeedsLock`), and the step that creates the file must be known to find no orphan, which is
what `OrphanIsLockedIn` says.

### `EvaluationProofs`, from `EvaluationAssumption`, `ScenariosAssumption`, `TimesAssumption` and `SandboxAssumption`

| theorem | property | the argument |
|---|---|---|
| `TasksKeepToSandbox`, `MicroVMIsExclusive` | the safety part of `SandboxSpec`; `OneVM`, `NothingLeft` | every action of `Evaluation` is a step of `Sandbox` or leaves its variables alone |
| `TypesHold` | `EvaluationTypeOK` | `StageOf`: where a task is says how many attempts it has made, and a decision to retry is made once |
| `CreditsAreDeserved`, `DeservedAreCredited` | `CreditIsDeserved`, `DeservedIsCredited` | each place agrees with `Deserves` on each test case but for its lapses (`LocalJudges`, `DockerJudges`, `BridgeJudges`, `GuestJudges`, over all programs, run times, quotas and, for docker, containers that fail); every recorded attempt is one that a backend of the deployment gives (`GivenAttempt`) |
| `RetriesHelp` | `RetryHelps` | `RetryOf`: before a white-space retry the rule has looked at a first attempt of the same program, every failure of which is white space; collapsing it passes those and, where docker fails for the same containers, keeps the rest (`RetryPasses`) |
| `TotalsAreWithinMarks` | `WithinMarks` | `MarksInv`: a patched program has the weights of the one it replaces, so an attempt earns at most the sum of the weights, and that sum only if every test case passed (`SumsCompare`); the total is that score times the marks, mixed with the quality score at its weight (`ScaledTotal`, `CombinedTotal`) |
| `SameProgramsScoreAlike` | `SameProgramSameScore` | without a retry or a lapse both attempts have the same verdicts, so their scores are sums of equal functions (`SameVerdicts`) |

`ScenariosAssumption` says that deployments, busy workers and jobs are of their types. The
program, its test cases, its run times and the number of workers are arbitrary; TLC has them
from small sets.

### `SumTheorems`, from no assumption

| theorem | the argument |
|---|---|
| `SumsCompare` | `SumFunction` looks its result up in a table over the subsets of the domain, which the library defines by CHOOSE. `TableExists`: a finite set has such a table; `TablesAgree`: two agree where both have an entry; `TablesCompare`: sums compare as their summands do. Each of these is an induction, argued from a smallest counterexample (`SmallestSubset`), because the library's induction theorems take an operator as a parameter |

### `PublicationProofs`, from `StagesAssumption`, `BuildsAssumption` and `RequestsAssumption`

| theorem | property | the argument |
|---|---|---|
| `TypesHold` | `PublicationTypeOK` | requests by what they hold |
| `ReadyVersionsHaveKeys` | `ReadyHasKey` | `OneBuild`: of a version that is not `overlapped` one request, message or task builds at a time, and a build that ends `ready` has stored its key, which a row created `ready` by hand need not have (`builds[v] > 0`); so the copy of the row it works on is the row (`RequestIsCurrent`, `TaskIsCurrent`) |
| `JobsAreFrozen` | `JobIsFrozen` | `BoundIsFrozen`, which also speaks of jobs not yet committed: a ready version stays as it is until a build is asked for |
| `ApprovedWasLookedAt` | `ApprovedWasReviewed` | `NoMeeting` and `SeenIsCurrent`: unless a review and a rewrite overlapped, what an approver saw is what the row holds; a rewrite puts the status back (`RewriteUndoes`) |
| `ApprovedTestsAreCovered` | `ApprovedIsCovered` | `ApprovalChecked`: approve tests the coverage of the content it loaded, and every later rewrite writes covered tests |
| `JobTestsWereLookedAt` | `JobTestsWereReviewed` | `BoundTestsReviewed`, from the two above at the moment a job takes its tests; dispatch itself refuses a record that gives none (`given`) |

The rows of `Reviews` carry the request that made them (`made`), as the table has a key: without
it a deleted rubric that is uploaded again would be taken for the row an older request had
loaded. `StagesAssumption` says that the starting rows are rows.

### `GradeReleaseProofs`, from `CoursesAssumption`, `ReleaseAssumption` and `RequestsAssumption`

| theorem | property | the argument |
|---|---|---|
| `TypesHold` | `ReleaseTypeOK` | requests by what they hold; ids of grades are below the next one |
| `ReleasedGradesWereReturned`, `ReturnedGradesAreRecorded` | `ReleasedWasReturned`, `ReturnedIsRecorded` | `ReturnedAreMarked`, `MarkedWereReturned`: the marks a batch carries are exactly what it has returned so far; `CopiesAreRecorded`: a copy that says `released` is of a row that does |
| `ReleasedGradesAreShown` | `ReleasedActiveIsShown` | `OneActive`; `OneRelease` and `OncePerStudent`: of a student not `contended` one release is open and reaches her once; so nothing is pushed after its grade (`PushedIsShown`, `PushIsCurrent`) |
| `DeletionsAreWhole` | `DeleteIsWhole` | `TakesAreLeft`: what a deletion has unlinked is what its commit will delete, with the jobs, the grades and the audit entries that refer to it; `RefusalsDisturb`: what makes the commit refuse is recorded in `disturbed` |
| `IngestedRowsAreSent` | `IngestedIsSent` | `SendingsOwe`: a stored ingest still has the rows whose message is not sent |
| `IngestsAreIdempotent` | `IngestIsIdempotent` | `TakesAreForced`: an ingest takes a row that is there only when forced, and it is one row |

### Only model-checked

* `JobTerminatesOrIsLost`, `Settles`, `TasksEnd`, `BuildsEnd`, and the fairness in `SandboxSpec`:
  liveness is out of the prover's reach.
* The five refutations, by their nature.

## Plan

Done: the job, its worker and its state machine; the written pipeline; evaluation from request
to score with the sandbox; environments, reviews and publication; releases, ingest and
deletion; the ledger of grades that jobs and the written pipeline share; the safety theorems of
all of them. Left, in this order:

1. What is left of the premises of `WrittenPipelineProofs`: the weaker statements that hold with a
   re-upload or a process-bulk and one OCR process, and with a second grading process.
2. The model client's retry loop with its permanent and transient errors.

## Not modelled

* `grading_service.py`, `genai_client.py`, `rubric_generator.py`, `consistency_validator.py`,
  prompts and the parsing of model answers: an answer is a choice of the models that ask for it.
* OCR engines, image processing and PDF pages: numerics.
* In the sandbox: the vsock path and its fallback, the contents of the run directory, the time a
  compiler takes, the choice of a docker image, authentication of the bridge. Each is a step
  that succeeds or fails.
* In publication: creation and deletion of assignments (deleting one that is published with a
  version of its own violates a foreign key, `assignments.py:205-253`), `is_active`, which no
  endpoint changes, and the version that dispatch falls back to, which needs a published
  assignment without one.
* Coursework creation and links, OAuth and token files.
* The frontend, deployment files and one-off scripts, those that write to the database past
  the handlers among them. Of the audit rows only the submission they refer to. Duplicate
  detection by image hash rejects a request and changes nothing. Reads have no action.

Three promises in comments are left without a run: "re-review required" of generated tests and
"must re-approve after any edit" of rubrics hold but for an overlap (`contested`), and the
docstring at `grades.py:17` ("Grades must currently be in `draft` or `not_synced` state") asks for
a state the handler does not look at: a grade may be released again.
