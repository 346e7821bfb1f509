---------------------------- MODULE CodeEvalJob ----------------------------
(***************************************************************************)
(* Code-evaluation jobs: the API requests that create them, the broker     *)
(* that delivers them, the Celery task that walks them to a terminal       *)
(* status, and the grade rows that the task and the TA both write.         *)
(*                                                                         *)
(* A task is a sequence of database transactions.  Its session expires     *)
(* every loaded attribute at commit, so each transaction begins by reading *)
(* the job row again (ReadJob) and ends by writing only the attributes it  *)
(* changed; at READ COMMITTED nothing protects the row in between.  The    *)
(* actions below are those reads and commits, and the slow calls (running  *)
(* the program, the shim analysis, the quality model) between them.        *)
(***************************************************************************)
EXTENDS Naturals, Sequences, FiniteSets, JobStateMachine

CONSTANTS
    Jobs,           \* identifiers of code_eval_jobs rows
    Subs,           \* submissions of published coding assignments
    Slots,          \* Celery worker processes of code_eval_queue
    Requests,       \* API request handlers that run at the same time
    QualityOnly,    \* jobs whose quality weight is 100 percent
    ShimRetry,      \* settings.code_eval_enable_shim_retry
    MaxRedeliveries,\* bound: how often the broker hands out a job still being worked on
    MaxFaults,      \* bound: crashes and database errors in a behaviour
    MaxOverrides,   \* bound: grades entered by the TA
    None            \* no job, no submission, nothing read

ASSUME ConstantsAssumption ==
    /\ QualityOnly \subseteq Jobs
    /\ IsFiniteSet(Slots)
    /\ ShimRetry \in BOOLEAN
    /\ MaxRedeliveries \in Nat /\ MaxFaults \in Nat /\ MaxOverrides \in Nat
    /\ None \notin Jobs \cup Subs \cup JobStates \cup {"grading", "graded", "ocr_done"}

VARIABLES
    job,         \* code_eval_jobs: status, submission, attempt_count, grade_id
    attempts,    \* code_eval_attempts: the rows of each job, in commit order
    grades,      \* grades: all rows, in commit order; a row's id is its position
    sub,         \* submissions.status
    unsent,      \* jobs committed whose message has not been sent
    ready,       \* broker: messages of each job waiting for a worker
    redelivered, \* broker: how often each job was handed out while a task had it
    run,         \* per worker process: the task it executes
    request,     \* per handler: the request it executes
    faults       \* crashes and database errors so far

vars == <<job, attempts, grades, sub, unsent, ready, redelivered, run, request, faults>>
tables == <<job, attempts, grades, sub>>
broker == <<unsent, ready, redelivered>>

----------------------------------------------------------------------------
\* SubmissionStatus, the part a coding submission goes through after upload.
SubStatuses == {"ocr_done", "grading", "graded"}
Sources == {"code_eval", "ta_manual"}

\* Where a task is: between two commits, or in a call that touches no table.
Steps == {"idle", "gate", "blocked", "reject", "run_raw", "record_raw", "analyze",
          "to_analyzing", "to_retrying", "run_shim", "record_shim", "finalize",
          "write_grade", "finish", "except", "ack"}

\* Steps whose transaction reads the job row before anything else.
ReadSteps == {"gate", "blocked", "reject", "record_raw", "to_analyzing", "to_retrying",
              "record_shim", "finalize", "except"}

NoRow == [status |-> None, sub |-> None, attemptCount |-> 0, gradeId |-> 0,
          explicit |-> FALSE, gradesBefore |-> 0]

\* gradesBefore is history: how many grade rows there were when the job was made.
JobRows == [status : JobStates, sub : Subs, attemptCount : Nat, gradeId : Nat,
            explicit : BOOLEAN, gradesBefore : Nat]

AttemptRows == [index : Nat, stage : {"EXECUTING_RAW", "RETRYING_SHIM"}]

GradeRows == [sub : Subs, source : Sources, job : Jobs \cup {None}, active : BOOLEAN]

\* seen, count, seenSub, captured: what the open transaction has read.
Idle == [at |-> "idle", job |-> None, seen |-> None, count |-> 0, passed |-> FALSE,
         seenSub |-> None, captured |-> {}, unacked |-> FALSE]

Runs == [at : Steps, job : Jobs \cup {None}, seen : JobStates \cup {None}, count : Nat,
         passed : BOOLEAN, seenSub : SubStatuses \cup {None}, captured : SUBSET Nat,
         unacked : BOOLEAN]

NoRequest == [kind |-> "none", sub |-> None, seenSub |-> None, explicit |-> FALSE,
              captured |-> {}]

RequestRecords == [kind : {"none", "dispatch", "override"}, sub : Subs \cup {None},
                   seenSub : SubStatuses \cup {None}, explicit : BOOLEAN,
                   captured : SUBSET Nat]

TypeOK ==
    /\ job \in [Jobs -> JobRows \cup {NoRow}]
    /\ attempts \in [Jobs -> Seq(AttemptRows)]
    /\ grades \in Seq(GradeRows)
    /\ sub \in [Subs -> SubStatuses]
    /\ unsent \subseteq Jobs
    /\ ready \in [Jobs -> Nat]
    /\ redelivered \in [Jobs -> Nat]
    /\ run \in [Slots -> Runs]
    /\ request \in [Requests -> RequestRecords]
    /\ faults \in Nat

Init ==
    /\ job = [j \in Jobs |-> NoRow]
    /\ attempts = [j \in Jobs |-> <<>>]
    /\ grades = <<>>
    /\ sub = [s \in Subs |-> "ocr_done"]
    /\ unsent = {}
    /\ ready = [j \in Jobs |-> 0]
    /\ redelivered = [j \in Jobs |-> 0]
    /\ run = [w \in Slots |-> Idle]
    /\ request = [r \in Requests |-> NoRequest]
    /\ faults = 0

----------------------------------------------------------------------------
(* The tables *)

Exists(j) == job[j] # NoRow

\* The rows the deactivating UPDATE ... WHERE active_version finds.
ActiveGrades(s) == {g \in DOMAIN grades : grades[g].sub = s /\ grades[g].active}

\* A commit whose archiving UPDATE comes after the INSERT, and so hits the new row.
ArchiveAfterInsert(captured, row) ==
    Append([g \in DOMAIN grades |->
                IF grades[g].sub = row.sub THEN [grades[g] EXCEPT !.active = FALSE]
                ELSE grades[g]],
           [row EXCEPT !.active = FALSE])

\* A commit that archives the rows the transaction found active and adds its own.
CommitGrade(captured, row) ==
    Append([g \in DOMAIN grades |->
                IF g \in captured THEN [grades[g] EXCEPT !.active = FALSE] ELSE grades[g]],
           row)

\* An UPDATE of submission.status that expects a submission never graded before.
FirstStatus(s, loaded, value) == IF loaded = "ocr_done" THEN value ELSE sub[s]

\* An attribute set to the value it was loaded with is not part of the UPDATE.
FlushedStatus(s, loaded, value) == IF loaded = value THEN sub[s] ELSE value

----------------------------------------------------------------------------
(* The API *)

CompletedBefore(s) == \E j \in Jobs : job[j].sub = s /\ job[j].status = "COMPLETED"

NewJob(s, explicit) ==
    [status |-> InitialState, sub |-> s, attemptCount |-> 0, gradeId |-> 0,
     explicit |-> explicit, gradesBefore |-> Len(grades)]

\* dispatch_code_eval up to its last check.  The environment, rubric and testcases
\* it also asks for are taken to be in place.
DispatchCheck(r, s, explicit) ==
    /\ request[r] = NoRequest
    /\ explicit \/ ~CompletedBefore(s)
    /\ request' = [request EXCEPT ![r] = [NoRequest EXCEPT
           !.kind = "dispatch", !.sub = s, !.seenSub = sub[s], !.explicit = explicit]]
    /\ UNCHANGED <<tables, broker, run, faults>>

\* dispatch_code_eval: the commit of the job and of submission.status.
DispatchCommit(r, j) ==
    LET s == request[r].sub IN
    /\ request[r].kind = "dispatch"
    /\ ~Exists(j)
    /\ job' = [job EXCEPT ![j] = NewJob(s, request[r].explicit)]
    /\ sub' = [sub EXCEPT ![s] = FlushedStatus(s, request[r].seenSub, "grading")]
    /\ unsent' = unsent \cup {j}
    /\ request' = [request EXCEPT ![r] = NoRequest]
    /\ UNCHANGED <<attempts, grades, ready, redelivered, run, faults>>

\* create_job leaves submission.status alone.  explicit is body.explicit_regrade, or
\* a regrade_policy other than new_only_unless_explicit.
CreateJob(j, s, explicit) ==
    /\ ~Exists(j)
    /\ explicit \/ ~CompletedBefore(s)
    /\ job' = [job EXCEPT ![j] = NewJob(s, explicit)]
    /\ unsent' = unsent \cup {j}
    /\ UNCHANGED <<attempts, grades, sub, ready, redelivered, run, request, faults>>

\* run_code_eval_job_task.delay, after the commit of either request.
Enqueue(j) ==
    /\ j \in unsent
    /\ unsent' = unsent \ {j}
    /\ ready' = [ready EXCEPT ![j] = @ + 1]
    /\ UNCHANGED <<tables, redelivered, run, request, faults>>

Overrides == {g \in DOMAIN grades : grades[g].source = "ta_manual"}

\* manual_grade_override loads the submission and its active grades ...
OverrideRead(r, s) ==
    /\ request[r] = NoRequest
    /\ Cardinality(Overrides) < MaxOverrides
    /\ request' = [request EXCEPT ![r] = [NoRequest EXCEPT
           !.kind = "override", !.sub = s, !.seenSub = sub[s], !.captured = ActiveGrades(s)]]
    /\ UNCHANGED <<tables, broker, run, faults>>

\* ... and commits them archived, with the TA's grade active.
OverrideCommit(r) ==
    LET s == request[r].sub IN
    /\ request[r].kind = "override"
    /\ grades' = CommitGrade(request[r].captured,
                    [sub |-> s, source |-> "ta_manual", job |-> None, active |-> TRUE])
    /\ sub' = [sub EXCEPT ![s] = FlushedStatus(s, request[r].seenSub, "graded")]
    /\ request' = [request EXCEPT ![r] = NoRequest]
    /\ UNCHANGED <<job, attempts, broker, run, faults>>

----------------------------------------------------------------------------
(* The broker and the worker processes *)

StartTask(w, j) ==
    /\ run[w] = Idle
    /\ ready[j] > 0
    /\ ready' = [ready EXCEPT ![j] = @ - 1]
    /\ run' = [run EXCEPT ![w] = [Idle EXCEPT !.at = "gate", !.job = j, !.unacked = TRUE]]
    /\ UNCHANGED <<tables, unsent, redelivered, request, faults>>

\* task_acks_late: only a task that has returned is acknowledged.
Ack(w) ==
    /\ run[w].at = "ack"
    /\ run' = [run EXCEPT ![w] = Idle]
    /\ UNCHANGED <<tables, broker, request, faults>>

\* The broker gives an unacknowledged message to another worker while the task still
\* runs: a lost connection, or a task longer than the visibility timeout.
Redeliver(w) ==
    LET j == run[w].job IN
    /\ run[w].unacked
    /\ redelivered[j] < MaxRedeliveries
    /\ redelivered' = [redelivered EXCEPT ![j] = @ + 1]
    /\ ready' = [ready EXCEPT ![j] = @ + 1]
    /\ run' = [run EXCEPT ![w] = [@ EXCEPT !.unacked = FALSE]]
    /\ UNCHANGED <<tables, unsent, request, faults>>

Fault == faults < MaxFaults /\ faults' = faults + 1

\* The worker goes down: its transaction is rolled back, its message comes back.
WorkerDown(w) ==
    LET j == run[w].job IN
    /\ Fault
    /\ run[w] # Idle
    /\ run' = [run EXCEPT ![w] = Idle]
    /\ ready' = IF run[w].unacked THEN [ready EXCEPT ![j] = @ + 1] ELSE ready
    /\ UNCHANGED <<tables, unsent, redelivered, request>>

\* A child process is killed: task_reject_on_worker_lost is not set, so Celery
\* acknowledges the message of a task whose process was lost.
ChildKilled(w) ==
    /\ Fault
    /\ run[w] # Idle
    /\ run' = [run EXCEPT ![w] = Idle]
    /\ UNCHANGED <<tables, broker, request>>

\* .delay raises, or the API goes down before it: the row stays, nobody is told.
EnqueueFails(j) ==
    /\ Fault
    /\ j \in unsent
    /\ unsent' = unsent \ {j}
    /\ UNCHANGED <<tables, ready, redelivered, run, request>>

----------------------------------------------------------------------------
(* run_code_eval_job_task *)

InTransaction(w, step) == run[w].at = step /\ run[w].seen # None

\* After a commit every loaded attribute is expired.
GoTo(w, step) ==
    run' = [run EXCEPT ![w] = [@ EXCEPT !.at = step, !.seen = None, !.count = 0]]

\* An exception: db.rollback(), and the handler at the end of the task.
Raise(w) ==
    run' = [run EXCEPT ![w] = [Idle EXCEPT !.at = "except", !.job = run[w].job,
                                           !.unacked = run[w].unacked]]

ReadJob(w) ==
    LET j == run[w].job IN
    /\ run[w].at \in ReadSteps /\ run[w].seen = None
    /\ run' = [run EXCEPT ![w] = [@ EXCEPT !.seen = job[j].status,
                                           !.count = job[j].attemptCount]]
    /\ UNCHANGED <<tables, broker, request, faults>>

\* What each step asks validate_transition for.
Target(step) ==
    CASE step = "gate"         -> "EXECUTING_RAW"
      [] step = "to_analyzing" -> "AI_ANALYZING"
      [] step = "to_retrying"  -> "RETRYING_SHIM"
      [] OTHER                 -> "FINALIZING"

MayMove(w, step) == InTransaction(w, step) /\ CanTransition(run[w].seen, Target(step))

\* _transition raises ValueError, nothing is written.
InvalidTransition(w) ==
    /\ \E step \in {"gate", "reject", "to_analyzing", "to_retrying", "finalize"} :
           InTransaction(w, step) /\ ~CanTransition(run[w].seen, Target(step))
    /\ Raise(w)
    /\ UNCHANGED <<tables, broker, request, faults>>

\* A table without the unique constraint.
IndexNeverTaken(j, n) == FALSE

\* The unique constraint on (job_id, attempt_index).
IndexTaken(j, n) == \E i \in DOMAIN attempts[j] : attempts[j][i].index = n

\* _record_attempt and the commit after it, which also writes `status`.
RecordAttempt(w, stage, status, next) ==
    LET j == run[w].job
        n == run[w].count + 1
    IN  /\ \/ /\ IndexTaken(j, n)
              /\ Raise(w)
              /\ UNCHANGED <<job, attempts>>
           \/ /\ ~IndexTaken(j, n)
              /\ attempts' = [attempts EXCEPT ![j] =
                                 Append(@, [index |-> n, stage |-> stage])]
              /\ job' = [job EXCEPT ![j] = [@ EXCEPT !.attemptCount = n, !.status = status]]
              /\ GoTo(w, next)
        /\ UNCHANGED <<grades, sub, broker, request, faults>>

\* A commit that moves the job and nothing else.
CommitStatus(w, status, next) ==
    /\ job' = [job EXCEPT ![run[w].job] = [@ EXCEPT !.status = status]]
    /\ GoTo(w, next)
    /\ UNCHANGED <<attempts, grades, sub, broker, request, faults>>

\* parse_language_config rejects the environment's language_config: the attempt is
\* recorded in the commit that starts the job.
ConfigError(w) ==
    /\ MayMove(w, "gate")
    /\ RecordAttempt(w, "EXECUTING_RAW", "EXECUTING_RAW", "reject")

\* run_static_analysis_gate blocks the sources, or lets them run.
StartExecuting(w) ==
    /\ MayMove(w, "gate")
    /\ \E next \in {"blocked", "run_raw"} : CommitStatus(w, "EXECUTING_RAW", next)

RecordBlocked(w) ==
    /\ InTransaction(w, "blocked")
    /\ RecordAttempt(w, "EXECUTING_RAW", job[run[w].job].status, "reject")

\* FINALIZING and FAILED in one commit; the submission is left as it is.
Reject(w) ==
    /\ MayMove(w, "reject")
    /\ CommitStatus(w, "FAILED", "ack")

\* execute_code_eval_job, outside any transaction.
Execute(w, step, next) ==
    /\ run[w].at = step
    /\ \E passed \in BOOLEAN :
           run' = [run EXCEPT ![w] = [@ EXCEPT !.at = next, !.passed = passed]]
    /\ UNCHANGED <<tables, broker, request, faults>>

RunRaw(w) == Execute(w, "run_raw", "record_raw")
RunShim(w) == Execute(w, "run_shim", "record_shim")

RecordRaw(w) ==
    /\ InTransaction(w, "record_raw")
    /\ RecordAttempt(w, "EXECUTING_RAW", job[run[w].job].status,
                     IF run[w].passed \/ ~ShimRetry THEN "finalize" ELSE "analyze")

\* analyze_for_retrying_shim finds the failure eligible or not.
Analyze(w) ==
    /\ run[w].at = "analyze"
    /\ \E next \in {"to_analyzing", "finalize"} :
           run' = [run EXCEPT ![w] = [@ EXCEPT !.at = next]]
    /\ UNCHANGED <<tables, broker, request, faults>>

ToAnalyzing(w) ==
    /\ MayMove(w, "to_analyzing")
    /\ CommitStatus(w, "AI_ANALYZING", "to_retrying")

ToRetrying(w) ==
    /\ MayMove(w, "to_retrying")
    /\ CommitStatus(w, "RETRYING_SHIM", "run_shim")

RecordShim(w) ==
    /\ InTransaction(w, "record_shim")
    /\ RecordAttempt(w, "RETRYING_SHIM", job[run[w].job].status, "finalize")

\* FINALIZING stays in memory while the quality model is asked.
Finalize(w) ==
    /\ MayMove(w, "finalize")
    /\ run' = [run EXCEPT ![w] = [@ EXCEPT !.at = "write_grade"]]
    /\ UNCHANGED <<tables, broker, request, faults>>

\* _write_grade's UPDATE, and the read of the submission after it.
WriteGrade(w) ==
    LET s == job[run[w].job].sub IN
    /\ run[w].at = "write_grade"
    /\ run' = [run EXCEPT ![w] = [@ EXCEPT !.at = "finish", !.captured = ActiveGrades(s),
                                           !.seenSub = sub[s]]]
    /\ UNCHANGED <<tables, broker, request, faults>>

\* treat_as_passed
Verdict(w) == IF run[w].passed \/ run[w].job \in QualityOnly THEN "COMPLETED" ELSE "FAILED"

\* A terminal job row that was not linked to its grade.
ClosedUnlinked(row, status, gradeId) == [row EXCEPT !.status = status]

\* What the last commit writes to the job row.
Closed(row, status, gradeId) == [row EXCEPT !.status = status, !.gradeId = gradeId]

\* The last commit: grade rows, grade_id, the terminal status, the submission.
Finish(w) ==
    LET j == run[w].job
        s == job[j].sub
    IN  /\ run[w].at = "finish"
        /\ grades' = CommitGrade(run[w].captured,
                        [sub |-> s, source |-> "code_eval", job |-> j, active |-> TRUE])
        /\ job' = [job EXCEPT ![j] = Closed(@, Verdict(w), Len(grades) + 1)]
        /\ sub' = [sub EXCEPT ![s] = FlushedStatus(s, run[w].seenSub, "graded")]
        /\ run' = [run EXCEPT ![w] = [Idle EXCEPT !.at = "ack", !.job = j,
                                                  !.unacked = run[w].unacked]]
        /\ UNCHANGED <<attempts, broker, request, faults>>

\* A call other than the database raises: the static analysis of odd sources, an
\* execution backend, the shim analysis, the quality model's client.
ServiceError(w) ==
    /\ \/ run[w].at \in {"run_raw", "analyze", "run_shim"}
       \/ \E step \in {"gate", "finalize"} : MayMove(w, step)
    /\ Raise(w)
    /\ UNCHANGED <<tables, broker, request, faults>>

\* A read or a commit fails.  _write_grade catches the error, but the session cannot
\* be used again before a rollback, so the next access to the job raises all the same.
DatabaseError(w) ==
    /\ Fault
    /\ run[w].at \in ReadSteps \cup {"write_grade", "finish"}
    /\ IF run[w].at = "except" THEN GoTo(w, "ack") ELSE Raise(w)
    /\ UNCHANGED <<tables, broker, request>>

\* A slip: the handler starts the task over instead.
StartOver(w) ==
    /\ InTransaction(w, "except")
    /\ GoTo(w, "gate")
    /\ UNCHANGED <<tables, broker, request, faults>>

\* The handler at the end: give the job up, unless it is over or the walk is illegal.
GiveUp(w) ==
    /\ InTransaction(w, "except")
    /\ IF run[w].seen \notin Terminal /\ CanGiveUp(run[w].seen)
       THEN job' = [job EXCEPT ![run[w].job] = [@ EXCEPT !.status = "FAILED"]]
       ELSE UNCHANGED job
    /\ GoTo(w, "ack")
    /\ UNCHANGED <<attempts, grades, sub, broker, request, faults>>

----------------------------------------------------------------------------
Api ==
    \/ \E r \in Requests, s \in Subs, explicit \in BOOLEAN : DispatchCheck(r, s, explicit)
    \/ \E r \in Requests, j \in Jobs : DispatchCommit(r, j)
    \/ \E j \in Jobs, s \in Subs, explicit \in BOOLEAN : CreateJob(j, s, explicit)
    \/ \E j \in Jobs : Enqueue(j) \/ EnqueueFails(j)
    \/ \E r \in Requests, s \in Subs : OverrideRead(r, s)
    \/ \E r \in Requests : OverrideCommit(r)

\* One step of the task in slot w.
Task(w) ==
    \/ ReadJob(w) \/ InvalidTransition(w)
    \/ ConfigError(w) \/ StartExecuting(w) \/ RecordBlocked(w) \/ Reject(w)
    \/ RunRaw(w) \/ RecordRaw(w)
    \/ Analyze(w) \/ ToAnalyzing(w) \/ ToRetrying(w) \/ RunShim(w) \/ RecordShim(w)
    \/ Finalize(w) \/ WriteGrade(w) \/ Finish(w)
    \/ ServiceError(w) \/ GiveUp(w) \/ Ack(w)

Disturbance(w) == Redeliver(w) \/ WorkerDown(w) \/ ChildKilled(w) \/ DatabaseError(w)

Next ==
    \/ Api
    \/ \E w \in Slots : Task(w) \/ Disturbance(w) \/ \E j \in Jobs : StartTask(w, j)

Spec == Init /\ [][Next]_vars

\* A worker process keeps executing its task, an idle one takes a waiting message,
\* and a request handler sends the message it owes.  Nobody has to ask for a job.
Fairness ==
    /\ \A w \in Slots : WF_vars(Task(w))
    /\ \A j \in Jobs : WF_vars(\E w \in Slots : StartTask(w, j)) /\ WF_vars(Enqueue(j))

FairSpec == Spec /\ Fairness

----------------------------------------------------------------------------
(* What should hold *)

\* The attempt log of a job is gapless and free of duplicates, and attempt_count is
\* its length, although every task computes the next index from a row it read before
\* a slow call and two tasks may hold the same job.
AttemptLog ==
    \A j \in Jobs :
        /\ Len(attempts[j]) = job[j].attemptCount
        /\ \A i \in DOMAIN attempts[j] : attempts[j][i].index = i

\* get_job_grade: a COMPLETED job is linked to a grade row it wrote itself, for its
\* own submission, and backed by an attempt.
CompletedHasGrade ==
    \A j \in Jobs :
        job[j].status = "COMPLETED" =>
            /\ job[j].gradeId \in DOMAIN grades
            /\ LET row == grades[job[j].gradeId]
               IN  row.job = j /\ row.sub = job[j].sub
            /\ Len(attempts[j]) > 0

\* A submission shown as graded has a grade to show.
GradedHasGrade ==
    \A s \in Subs : sub[s] = "graded" => ActiveGrades(s) # {}

\* A submission does not stay `grading` once all of its jobs are COMPLETED, although a
\* commit writes submission.status only when it differs from a value read before.  A job
\* that a gate rejected is FAILED and leaves the submission `grading`, so the job meant
\* here may be over.
GradingIsUnfinished ==
    \A s \in Subs :
        sub[s] = "grading" => \E j \in Jobs : job[j].sub = s /\ job[j].status # "COMPLETED"

\* A job is graded at most once, so a grade is never archived by a second run of the
\* job that wrote it.  This needs tasks of one job not to overlap.
OneGradePerJob ==
    \A g, h \in DOMAIN grades :
        (grades[g].job = grades[h].job /\ grades[g].job # None) => g = h

GradesOf(j) == {g \in DOMAIN grades : grades[g].job = j}

\* Every further grade of a job takes a further hand-out of its message while a task
\* had it: crashes, whose messages come back, and overlapping tasks do not multiply
\* grades by themselves.
GradesPerDelivery ==
    \A j \in Jobs : Cardinality(GradesOf(j)) <= 1 + redelivered[j]

\* PRD.md, "only the latest run remains active".
OneActiveGrade ==
    \A s \in Subs : Cardinality(ActiveGrades(s)) <= 1

\* Rows a job finds when it is created may be archived by it, rows that are younger
\* than the job may not: a grade the TA enters while it runs is the last word.
ManualGradeStands ==
    \A g \in Overrides :
        ~grades[g].active =>
            \E later \in DOMAIN grades :
                /\ later > g
                /\ grades[later].sub = grades[g].sub
                /\ grades[later].job # None => job[grades[later].job].gradesBefore >= g

\* The task in slot w can still end job j.  One that gives the job up cannot if it read
\* a status with no walk to FAILED: a terminal one, or AI_ANALYZING.
Carries(w, j) ==
    /\ run[w].job = j /\ run[w].at # "ack"
    /\ run[w].at = "except" => run[w].seen \notin Terminal \cup {"AI_ANALYZING"}

\* The commit to AI_ANALYZING cannot be given up: only the task that goes on from it,
\* and has not read another status since, will end the job.
CarriesAnalysis(w, j) ==
    run[w].job = j /\ run[w].at = "to_retrying" /\ run[w].seen \in {None, "AI_ANALYZING"}

\* Somebody is still to end job j: the handler that owes its message, the broker that
\* has it, or a task.
InHand(j) ==
    \/ ~Exists(j) \/ job[j].status \in Terminal
    \/ job[j].status = "AI_ANALYZING" /\ \E w \in Slots : CarriesAnalysis(w, j)
    \/ /\ job[j].status # "AI_ANALYZING"
       /\ j \in unsent \/ ready[j] > 0 \/ \E w \in Slots : Carries(w, j)

\* The faults that can leave job j unfinished with nobody to end it: its message is not
\* sent, its task's process is killed, its worker goes down after the message was given
\* away or during the shim analysis, or the database fails there or in the handler.
Loses(j) ==
    \/ EnqueueFails(j)
    \/ \E w \in Slots :
        /\ run[w].job = j
        /\ \/ ChildKilled(w)
           \/ WorkerDown(w) /\ (~run[w].unacked \/ job[j].status = "AI_ANALYZING")
           \/ DatabaseError(w) /\ (run[w].at = "except" \/ job[j].status = "AI_ANALYZING")

\* A job is lost, that is unfinished and in nobody's hands, only by those faults: no
\* order of redelivered tasks, refused transitions and raising services loses one.
OnlyFaultsLoseJobs ==
    [][\A j \in Jobs : InHand(j) => InHand(j)' \/ Loses(j)]_vars

\* The stored status of every job follows the promised lifecycle.
JL == INSTANCE JobLifecycle WITH status <- [j \in Jobs |-> job[j].status], Absent <- None
RefinesLifecycle == JL!Spec

\* The task's grades and the TA's are entries of one ledger.
GL == INSTANCE GradeLedger WITH
          rows <- [g \in DOMAIN grades |-> [sub |-> grades[g].sub, source |-> grades[g].source,
                                            active |-> grades[g].active]]
RefinesLedger == GL!Spec

\* Every job the API has committed reaches COMPLETED or FAILED.
JobTerminates ==
    \A j \in Jobs : Exists(j) ~> (job[j].status \in Terminal)

\* Every job reaches COMPLETED or FAILED unless it is lost, in spite of the faults and
\* redeliveries that do not lose it (OnlyFaultsLoseJobs says which do).
JobTerminatesOrIsLost ==
    \A j \in Jobs : Exists(j) ~> (job[j].status \in Terminal \/ ~InHand(j))
=============================================================================
