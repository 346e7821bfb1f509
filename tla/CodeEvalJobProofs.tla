------------------------- MODULE CodeEvalJobProofs -------------------------
(***************************************************************************)
(* What holds of CodeEvalJob for any number of jobs, submissions, worker   *)
(* processes, request handlers, deliveries and faults: type correctness,   *)
(* the attempt log, a graded submission having a grade, a completed job    *)
(* being linked to its own, a submission in grading having a job that is   *)
(* not COMPLETED, no job being lost but by the faults that are named, no   *)
(* job having more grades than its message was handed out, and the grades  *)
(* being a ledger (GradeLedger).                                           *)
(*                                                                         *)
(* Next has some thirty actions, but there are only five ways in which it  *)
(* touches the tables (TableStep) and four in which it moves a task        *)
(* (RunStep); every invariant below is argued over those cases.            *)
(***************************************************************************)
EXTENDS CodeEvalJob, FiniteSetTheorems, SequenceTheorems, TLAPS

----------------------------------------------------------------------------
(* Lemmas about rows and tasks *)

\* The fields of a job row have the types of its columns.
LEMMA JobRowFields ==
    ASSUME NEW row \in JobRows
    PROVE  /\ row.status \in JobStates /\ row.sub \in Subs
           /\ row.attemptCount \in Nat /\ row.gradeId \in Nat
    BY DEF JobRows

\* The UPDATEs of a job row that the task makes.
LEMMA JobRowMoved ==
    ASSUME NEW row \in JobRows, NEW status \in JobStates
    PROVE  [row EXCEPT !.status = status] \in JobRows
    BY DEF JobRows

\* The same with the attempt count, or with the grade that closes the job.
LEMMA JobRowUpdates ==
    ASSUME NEW row \in JobRows, NEW status \in JobStates, NEW n \in Nat
    PROVE  /\ [row EXCEPT !.attemptCount = n, !.status = status] \in JobRows
           /\ Closed(row, status, n) \in JobRows
    BY DEF JobRows, Closed

\* The absent row is told from every row by its status.
LEMMA NoRowIsAbsent == NoRow \notin JobRows
    BY ConstantsAssumption DEF NoRow, JobRows

\* A task record stays one when a step moves it ...
LEMMA MovedRun ==
    ASSUME NEW task \in Runs, NEW at \in Steps
    PROVE  /\ [task EXCEPT !.at = at] \in Runs
           /\ [task EXCEPT !.at = at, !.seen = None, !.count = 0] \in Runs
           /\ \A passed \in BOOLEAN : [task EXCEPT !.at = at, !.passed = passed] \in Runs
    BY DEF Runs

\* ... when it reads the job row, or the grades and the submission.
LEMMA ReadingRun ==
    ASSUME NEW task \in Runs
    PROVE  /\ \A seen \in JobStates, count \in Nat :
                   [task EXCEPT !.seen = seen, !.count = count] \in Runs
           /\ \A captured \in SUBSET Nat, seenSub \in SubStatuses :
                   [task EXCEPT !.at = "finish", !.captured = captured, !.seenSub = seenSub]
                       \in Runs
    BY DEF Runs, Steps

\* The records a worker process is set to as a whole.
LEMMA FreshRuns ==
    ASSUME NEW at \in Steps, NEW j \in Jobs, NEW unacked \in BOOLEAN
    PROVE  /\ Idle \in Runs
           /\ [Idle EXCEPT !.at = at, !.job = j, !.unacked = unacked] \in Runs
    BY DEF Idle, Runs, Steps

----------------------------------------------------------------------------
(* What a step may do *)

\* Every message and every task belongs to a row that was committed before it.
Wired ==
    /\ \A w \in Slots :
        /\ run[w].at # "idle" => (run[w].job \in Jobs /\ Exists(run[w].job))
        /\ run[w].at = "idle" => run[w] = Idle
    /\ \A j \in Jobs : (j \in unsent \/ ready[j] > 0) => Exists(j)
    /\ \A r \in Requests : request[r].kind # "none" => request[r].sub \in Subs

\* The task in slot w goes on as `task`: same job, and what it has read of the tables
\* is what it had read before, nothing, or what they hold now.
Continues(w, task) ==
    /\ run[w].at # "idle" /\ task.at # "idle"
    /\ task.job = run[w].job
    /\ task.unacked => run[w].unacked
    /\ task.captured \in {{}, run[w].captured, ActiveGrades(job[run[w].job].sub)}
    /\ \/ task.seen = None
       \/ task.count = run[w].count /\ run[w].seen # None
       \/ task.count = job[run[w].job].attemptCount

Starts(task) ==
    \E j \in Jobs :
        ready[j] > 0 /\ task = [Idle EXCEPT !.at = "gate", !.job = j, !.unacked = TRUE]

\* A task that has just started has read nothing.
LEMMA StartsFresh ==
    ASSUME NEW task, Starts(task)
    PROVE  task.at = "gate" /\ task.seen = None /\ task.captured = {}
<1>1. PICK j \in Jobs : task = [Idle EXCEPT !.at = "gate", !.job = j, !.unacked = TRUE]
    BY DEF Starts
<1>2. QED BY <1>1 DEF Idle

\* A task that moves on without having read anything new.
LEMMA GoToContinues ==
    ASSUME TypeOK, NEW w \in Slots, run[w].at # "idle", NEW step \in Steps \ {"idle"},
           GoTo(w, step)
    PROVE  \E task \in Runs : run' = [run EXCEPT ![w] = task] /\ Continues(w, task)
<1> DEFINE task == [run[w] EXCEPT !.at = step, !.seen = None, !.count = 0]
<1>1. run[w] \in Runs BY DEF TypeOK
<1>2. task \in Runs BY <1>1, MovedRun
<1>3. Continues(w, task) BY <1>1 DEF Continues, Runs
<1>4. run' = [run EXCEPT ![w] = task] BY DEF GoTo
<1>5. QED BY <1>2, <1>3, <1>4

\* A task that raises.
LEMMA RaiseContinues ==
    ASSUME TypeOK, Wired, NEW w \in Slots, run[w].at # "idle", Raise(w)
    PROVE  \E task \in Runs : run' = [run EXCEPT ![w] = task] /\ Continues(w, task)
<1> DEFINE task == [Idle EXCEPT !.at = "except", !.job = run[w].job, !.unacked = run[w].unacked]
<1>1. run[w] \in Runs BY DEF TypeOK
<1>2. run[w].job \in Jobs BY DEF Wired
<1>3. run[w].unacked \in BOOLEAN BY <1>1 DEF Runs
<1>4. task \in Runs BY <1>2, <1>3, FreshRuns DEF Steps
<1>5. Continues(w, task) BY DEF Continues, Idle
<1>6. run' = [run EXCEPT ![w] = task] BY DEF Raise
<1>7. QED BY <1>4, <1>5, <1>6

\* _record_attempt and its commit: the task goes on or raises.
LEMMA RecordAttemptContinues ==
    ASSUME TypeOK, Wired, NEW w \in Slots, run[w].at # "idle",
           NEW stage, NEW status, NEW next \in Steps \ {"idle"},
           RecordAttempt(w, stage, status, next)
    PROVE  \E task \in Runs : run' = [run EXCEPT ![w] = task] /\ Continues(w, task)
<1>1. Raise(w) \/ GoTo(w, next) BY DEF RecordAttempt
<1>2. QED BY <1>1, GoToContinues, RaiseContinues

\* The grades a transaction captures are identified by natural numbers.
LEMMA ActiveGradesAreIds ==
    ASSUME TypeOK, NEW s
    PROVE  ActiveGrades(s) \in SUBSET Nat
<1>1. grades \in Seq(GradeRows) BY DEF TypeOK
<1>2. DOMAIN grades \subseteq Nat BY <1>1
<1>3. QED BY <1>2 DEF ActiveGrades

\* Whatever the task does, it goes on with its job or is done with it.
LEMMA TaskContinues ==
    ASSUME TypeOK, Wired, NEW w \in Slots, Task(w)
    PROVE  \E task \in Runs :
               run' = [run EXCEPT ![w] = task] /\ (task = Idle \/ Continues(w, task))
<1>1. run[w] \in Runs /\ run[w].at \in Steps BY DEF TypeOK, Runs
<1>2. run[w].at # "idle" => (run[w].job \in Jobs /\ job[run[w].job] \in JobRows)
    BY DEF TypeOK, Wired, Exists
<1>3. CASE ReadJob(w)
    <2> DEFINE task == [run[w] EXCEPT !.seen = job[run[w].job].status,
                                      !.count = job[run[w].job].attemptCount]
    <2>1. run[w].at # "idle" BY <1>3 DEF ReadJob, ReadSteps
    <2>2. task \in Runs BY <1>1, <1>2, <2>1, JobRowFields, ReadingRun
    <2>3. Continues(w, task) BY <1>1, <2>1 DEF Continues, Runs
    <2>4. run' = [run EXCEPT ![w] = task] BY <1>3 DEF ReadJob
    <2>5. QED BY <2>2, <2>3, <2>4
<1>4. CASE InvalidTransition(w) \/ ServiceError(w)
    <2>1. run[w].at # "idle" BY <1>4 DEF InvalidTransition, ServiceError, InTransaction, MayMove
    <2>2. Raise(w) BY <1>4 DEF InvalidTransition, ServiceError
    <2>3. QED BY <2>1, <2>2, RaiseContinues
<1>5. CASE ConfigError(w) \/ RecordBlocked(w) \/ RecordRaw(w) \/ RecordShim(w)
    <2>1. run[w].at # "idle"
        BY <1>5 DEF ConfigError, RecordBlocked, RecordRaw, RecordShim, InTransaction, MayMove
    <2>2. \E stage, status : \E next \in Steps \ {"idle"} : RecordAttempt(w, stage, status, next)
        BY <1>5 DEF ConfigError, RecordBlocked, RecordRaw, RecordShim, Steps
    <2>3. QED BY <2>1, <2>2, RecordAttemptContinues
<1>6. CASE StartExecuting(w) \/ Reject(w) \/ ToAnalyzing(w) \/ ToRetrying(w) \/ GiveUp(w)
    <2>1. run[w].at # "idle"
        BY <1>6 DEF StartExecuting, Reject, ToAnalyzing, ToRetrying, GiveUp, InTransaction, MayMove
    <2>2. \E step \in Steps \ {"idle"} : GoTo(w, step)
        BY <1>6 DEF StartExecuting, Reject, ToAnalyzing, ToRetrying, GiveUp, CommitStatus, Steps
    <2>3. QED BY <2>1, <2>2, GoToContinues
<1>7. CASE RunRaw(w) \/ RunShim(w)
    <2>1. run[w].at # "idle" BY <1>7 DEF RunRaw, RunShim, Execute
    <2>2. PICK next \in {"record_raw", "record_shim"}, passed \in BOOLEAN :
              run' = [run EXCEPT ![w] = [run[w] EXCEPT !.at = next, !.passed = passed]]
        BY <1>7 DEF RunRaw, RunShim, Execute
    <2> DEFINE task == [run[w] EXCEPT !.at = next, !.passed = passed]
    <2>3. task \in Runs BY <1>1, MovedRun DEF Steps
    <2>4. Continues(w, task) BY <1>1, <2>1 DEF Continues, Runs
    <2>5. QED BY <2>2, <2>3, <2>4
<1>8. CASE Analyze(w) \/ Finalize(w)
    <2>1. run[w].at # "idle" BY <1>8 DEF Analyze, Finalize, MayMove, InTransaction
    <2>2. PICK next \in {"to_analyzing", "finalize", "write_grade"} :
              run' = [run EXCEPT ![w] = [run[w] EXCEPT !.at = next]]
        BY <1>8 DEF Analyze, Finalize
    <2> DEFINE task == [run[w] EXCEPT !.at = next]
    <2>3. task \in Runs BY <1>1, MovedRun DEF Steps
    <2>4. Continues(w, task) BY <1>1, <2>1 DEF Continues, Runs
    <2>5. QED BY <2>2, <2>3, <2>4
<1>9. CASE WriteGrade(w)
    <2>1. run[w].at # "idle" BY <1>9 DEF WriteGrade
    <2> DEFINE s == job[run[w].job].sub
    <2> DEFINE task == [run[w] EXCEPT !.at = "finish", !.captured = ActiveGrades(s),
                                      !.seenSub = sub[s]]
    <2>2. s \in Subs BY <1>2, <2>1, JobRowFields
    <2>3. sub[s] \in SubStatuses BY <2>2 DEF TypeOK
    <2>4. task \in Runs BY <1>1, <2>3, ActiveGradesAreIds, ReadingRun
    <2>5. Continues(w, task) BY <1>1, <2>1 DEF Continues, Runs
    <2>6. run' = [run EXCEPT ![w] = task] BY <1>9 DEF WriteGrade
    <2>7. QED BY <2>4, <2>5, <2>6
<1>10. CASE Finish(w)
    <2>1. run[w].at # "idle" BY <1>10 DEF Finish
    <2> DEFINE task == [Idle EXCEPT !.at = "ack", !.job = run[w].job, !.unacked = run[w].unacked]
    <2>2. run[w].unacked \in BOOLEAN BY <1>1 DEF Runs
    <2>3. task \in Runs BY <1>2, <2>1, <2>2, FreshRuns DEF Steps
    <2>4. Continues(w, task) BY <2>1 DEF Continues, Idle
    <2>5. run' = [run EXCEPT ![w] = task] BY <1>10 DEF Finish
    <2>6. QED BY <2>3, <2>4, <2>5
<1>11. CASE Ack(w)
    <2>1. Idle \in Runs BY FreshRuns DEF Idle, Runs, Steps
    <2>2. QED BY <1>11, <2>1 DEF Ack
<1>12. QED
    BY <1>3, <1>4, <1>5, <1>6, <1>7, <1>8, <1>9, <1>10, <1>11 DEF Task

\* One step changes at most one task: it goes on, stops, or a message starts it.
LEMMA RunStep ==
    ASSUME TypeOK, Wired, Next
    PROVE  \/ UNCHANGED run
           \/ \E w \in Slots : \E task \in Runs :
                  /\ run' = [run EXCEPT ![w] = task]
                  /\ task = Idle \/ Continues(w, task) \/ Starts(task)
<1>1. CASE Api
    BY <1>1 DEF Api, DispatchCheck, DispatchCommit, CreateJob, Enqueue, EnqueueFails,
                OverrideRead, OverrideCommit
<1>2. ASSUME NEW w \in Slots, Task(w)
      PROVE  \E task \in Runs :
                 run' = [run EXCEPT ![w] = task] /\ (task = Idle \/ Continues(w, task))
    BY <1>2, TaskContinues
<1>3. ASSUME NEW w \in Slots, Disturbance(w)
      PROVE  \E task \in Runs :
                 run' = [run EXCEPT ![w] = task] /\ (task = Idle \/ Continues(w, task))
    <2>1. run[w] \in Runs BY DEF TypeOK
    <2>2. CASE Redeliver(w)
        <3> DEFINE task == [run[w] EXCEPT !.unacked = FALSE]
        <3>1. run[w].unacked BY <2>2 DEF Redeliver
        <3>2. run[w].at # "idle" BY <3>1 DEF Wired, Idle
        <3>3. task \in Runs BY <2>1 DEF Runs
        <3>4. Continues(w, task)
            <4>1. task.count = run[w].count /\ task.seen = run[w].seen BY <2>1 DEF Runs
            <4>2. QED BY <2>1, <3>2, <4>1 DEF Continues, Runs
        <3>5. run' = [run EXCEPT ![w] = task] BY <2>2 DEF Redeliver
        <3>6. QED BY <3>3, <3>4, <3>5
    <2>3. CASE WorkerDown(w) \/ ChildKilled(w)
        <3>1. Idle \in Runs BY DEF Idle, Runs, Steps
        <3>2. run' = [run EXCEPT ![w] = Idle] BY <2>3 DEF WorkerDown, ChildKilled
        <3>3. QED BY <3>1, <3>2
    <2>4. CASE DatabaseError(w)
        <3>1. run[w].at # "idle" BY <2>4 DEF DatabaseError, ReadSteps
        <3>2. GoTo(w, "ack") \/ Raise(w) BY <2>4 DEF DatabaseError
        <3>3. QED BY <3>1, <3>2, GoToContinues, RaiseContinues DEF Steps
    <2>5. QED BY <1>3, <2>2, <2>3, <2>4 DEF Disturbance
<1>4. ASSUME NEW w \in Slots, NEW j \in Jobs, StartTask(w, j)
      PROVE  \E task \in Runs : run' = [run EXCEPT ![w] = task] /\ Starts(task)
    <2> DEFINE task == [Idle EXCEPT !.at = "gate", !.job = j, !.unacked = TRUE]
    <2>1. task \in Runs BY FreshRuns DEF Steps
    <2>2. Starts(task) BY <1>4 DEF StartTask, Starts
    <2>3. run' = [run EXCEPT ![w] = task] BY <1>4 DEF StartTask
    <2>4. QED BY <2>1, <2>2, <2>3
<1>5. QED BY <1>1, <1>2, <1>3, <1>4 DEF Next

\* The INSERT of a job, with or without the UPDATE of its submission.
Created(j, s, explicit) ==
    /\ ~Exists(j)
    /\ job' = [job EXCEPT ![j] = NewJob(s, explicit)]
    /\ UNCHANGED <<attempts, grades>>
    /\ \/ UNCHANGED sub
       \/ \E loaded : sub' = [sub EXCEPT ![s] = FlushedStatus(s, loaded, "grading")]

\* The INSERT of an attempt, with the index computed from the row read earlier.
Recorded(w) ==
    LET j == run[w].job
        n == run[w].count + 1
    IN  /\ run[w].at # "idle" /\ run[w].seen # None
        /\ ~IndexTaken(j, n)
        /\ \E stage \in {"EXECUTING_RAW", "RETRYING_SHIM"} :
               attempts' = [attempts EXCEPT ![j] = Append(@, [index |-> n, stage |-> stage])]
        /\ \E status \in {"EXECUTING_RAW", job[j].status} :
               job' = [job EXCEPT ![j] = [@ EXCEPT !.attemptCount = n, !.status = status]]
        /\ UNCHANGED <<grades, sub>>

\* The UPDATE of a job's status alone; no such UPDATE completes a job.
Moved(w) ==
    /\ run[w].at # "idle"
    /\ \E status \in JobStates \ {"COMPLETED"} :
           job' = [job EXCEPT ![run[w].job] = [@ EXCEPT !.status = status]]
    /\ UNCHANGED <<attempts, grades, sub>>

\* The five ways in which a step touches the tables.
LEMMA TableStep ==
    ASSUME TypeOK, Wired, Next
    PROVE  \/ UNCHANGED tables
           \/ \E j \in Jobs, s \in Subs, explicit \in BOOLEAN : Created(j, s, explicit)
           \/ \E r \in Requests : OverrideCommit(r)
           \/ \E w \in Slots : Recorded(w) \/ Moved(w) \/ Finish(w)
<1>1. CASE Api
    <2>1. ASSUME NEW r \in Requests, NEW j \in Jobs, DispatchCommit(r, j)
          PROVE  \E s \in Subs, explicit \in BOOLEAN : Created(j, s, explicit)
        <3>1. request[r].sub \in Subs BY <2>1 DEF DispatchCommit, Wired
        <3>2. request[r].explicit \in BOOLEAN BY DEF TypeOK, RequestRecords
        <3>3. Created(j, request[r].sub, request[r].explicit)
            BY <2>1 DEF DispatchCommit, Created
        <3>4. QED BY <3>1, <3>2, <3>3
    <2>2. ASSUME NEW j \in Jobs, NEW s \in Subs, NEW explicit \in BOOLEAN,
                 CreateJob(j, s, explicit)
          PROVE  Created(j, s, explicit)
        BY <2>2 DEF CreateJob, Created
    <2>3. ASSUME NEW j \in Jobs, Enqueue(j) \/ EnqueueFails(j)
          PROVE  UNCHANGED tables
        BY <2>3 DEF Enqueue, EnqueueFails, tables
    <2>4. ASSUME NEW r \in Requests, NEW s \in Subs, NEW explicit \in BOOLEAN,
                 DispatchCheck(r, s, explicit) \/ OverrideRead(r, s)
          PROVE  UNCHANGED tables
        BY <2>4 DEF DispatchCheck, OverrideRead, tables
    <2>5. QED BY <1>1, <2>1, <2>2, <2>3, <2>4 DEF Api
<1>2. ASSUME NEW w \in Slots, Task(w)
      PROVE  UNCHANGED tables \/ Recorded(w) \/ Moved(w) \/ Finish(w)
    <2>1. ASSUME NEW stage \in {"EXECUTING_RAW", "RETRYING_SHIM"},
                 NEW status \in {"EXECUTING_RAW", job[run[w].job].status}, NEW next,
                 run[w].at # "idle", run[w].seen # None,
                 RecordAttempt(w, stage, status, next)
          PROVE  UNCHANGED tables \/ Recorded(w)
        BY <2>1 DEF RecordAttempt, Recorded, tables
    <2>2. CASE ConfigError(w) \/ RecordBlocked(w) \/ RecordRaw(w) \/ RecordShim(w)
        BY <2>1, <2>2 DEF ConfigError, RecordBlocked, RecordRaw, RecordShim, InTransaction,
                          MayMove
    <2>3. CASE StartExecuting(w) \/ Reject(w) \/ ToAnalyzing(w) \/ ToRetrying(w)
        BY <2>3 DEF StartExecuting, Reject, ToAnalyzing, ToRetrying, CommitStatus, Moved,
                    InTransaction, MayMove, JobStates
    <2>4. CASE GiveUp(w)
        BY <2>4 DEF GiveUp, Moved, InTransaction, JobStates, tables
    <2>5. CASE Finish(w)
        BY <2>5
    <2>6. CASE ReadJob(w) \/ InvalidTransition(w) \/ RunRaw(w) \/ Analyze(w) \/ RunShim(w)
                 \/ Finalize(w) \/ WriteGrade(w) \/ ServiceError(w) \/ Ack(w)
        BY <2>6 DEF ReadJob, InvalidTransition, RunRaw, RunShim, Execute, Analyze, Finalize,
                    WriteGrade, ServiceError, Ack
    <2>7. QED BY <1>2, <2>2, <2>3, <2>4, <2>5, <2>6 DEF Task
<1>3. ASSUME NEW w \in Slots, Disturbance(w) \/ \E j \in Jobs : StartTask(w, j)
      PROVE  UNCHANGED tables
    BY <1>3 DEF Disturbance, Redeliver, WorkerDown, ChildKilled, DatabaseError, StartTask
<1>4. QED BY <1>1, <1>2, <1>3 DEF Next

----------------------------------------------------------------------------
(* Type correctness *)

\* The rows appended to grades.
LEMMA CommitGradeType ==
    ASSUME TypeOK, NEW captured, NEW row \in GradeRows
    PROVE  CommitGrade(captured, row) \in Seq(GradeRows)
<1> DEFINE archived == [g \in DOMAIN grades |->
                IF g \in captured THEN [grades[g] EXCEPT !.active = FALSE] ELSE grades[g]]
<1>1. grades \in Seq(GradeRows) BY DEF TypeOK
<1>2. ASSUME NEW g \in DOMAIN grades
      PROVE  archived[g] \in GradeRows
    <2>1. grades[g] \in GradeRows BY <1>1
    <2>2. [grades[g] EXCEPT !.active = FALSE] \in GradeRows BY <2>1 DEF GradeRows
    <2>3. QED BY <2>1, <2>2
<1>3. archived \in Seq(GradeRows) BY <1>1, <1>2
<1>4. QED BY <1>3 DEF CommitGrade

\* The tables keep their types, and rows their submission.
LEMMA TablesType ==
    ASSUME TypeOK, Wired, Next
    PROVE  /\ job' \in [Jobs -> JobRows \cup {NoRow}]
           /\ attempts' \in [Jobs -> Seq(AttemptRows)]
           /\ grades' \in Seq(GradeRows)
           /\ sub' \in [Subs -> SubStatuses]
           /\ \A j \in Jobs : Exists(j) => (Exists(j)' /\ job'[j].sub = job[j].sub)
<1>1. CASE UNCHANGED tables
    BY <1>1 DEF TypeOK, tables, Exists
<1>2. ASSUME NEW j \in Jobs, NEW s \in Subs, NEW explicit \in BOOLEAN, Created(j, s, explicit)
      PROVE  /\ job' \in [Jobs -> JobRows \cup {NoRow}]
             /\ UNCHANGED <<attempts, grades>>
             /\ sub' \in [Subs -> SubStatuses]
             /\ \A k \in Jobs : Exists(k) => (Exists(k)' /\ job'[k].sub = job[k].sub)
    <2>1. Len(grades) \in Nat BY DEF TypeOK
    <2>2. NewJob(s, explicit) \in JobRows BY <2>1 DEF NewJob, JobRows, InitialState, JobStates
    <2>3. sub' \in [Subs -> SubStatuses]
        BY <1>2 DEF Created, FlushedStatus, TypeOK, SubStatuses
    <2>4. job' \in [Jobs -> JobRows \cup {NoRow}] BY <1>2, <2>2 DEF Created, TypeOK
    <2>5. QED BY <1>2, <2>3, <2>4 DEF Created, Exists, TypeOK
<1>3. ASSUME NEW r \in Requests, OverrideCommit(r)
      PROVE  UNCHANGED <<job, attempts>> /\ grades' \in Seq(GradeRows)
             /\ sub' \in [Subs -> SubStatuses]
    <2> DEFINE s == request[r].sub
    <2> DEFINE row == [sub |-> s, source |-> "ta_manual", job |-> None, active |-> TRUE]
    <2>1. s \in Subs BY <1>3 DEF OverrideCommit, Wired
    <2>2. row \in GradeRows BY <2>1 DEF GradeRows, Sources
    <2>3. grades' \in Seq(GradeRows) BY <1>3, <2>2, CommitGradeType DEF OverrideCommit
    <2>4. sub' \in [Subs -> SubStatuses]
        BY <1>3 DEF OverrideCommit, FlushedStatus, TypeOK, SubStatuses
    <2>5. QED BY <1>3, <2>3, <2>4 DEF OverrideCommit
<1>4. ASSUME NEW w \in Slots, Recorded(w) \/ Moved(w) \/ Finish(w)
      PROVE  /\ job' \in [Jobs -> JobRows \cup {NoRow}]
             /\ attempts' \in [Jobs -> Seq(AttemptRows)]
             /\ grades' \in Seq(GradeRows)
             /\ sub' \in [Subs -> SubStatuses]
             /\ \A k \in Jobs : Exists(k) => (Exists(k)' /\ job'[k].sub = job[k].sub)
    <2> DEFINE j == run[w].job
    <2>1. run[w].at # "idle" BY <1>4 DEF Recorded, Moved, Finish
    <2>2. j \in Jobs /\ job[j] \in JobRows BY <2>1 DEF TypeOK, Wired, Exists
    <2>3. job[j].status \in JobStates /\ job[j].sub \in Subs BY <2>2, JobRowFields
    <2>4. run[w].count \in Nat BY DEF TypeOK, Runs
    <2>5. Len(grades) + 1 \in Nat BY DEF TypeOK
    <2>6. ASSUME NEW row \in JobRows, row.sub = job[j].sub, job' = [job EXCEPT ![j] = row]
          PROVE  /\ job' \in [Jobs -> JobRows \cup {NoRow}]
                 /\ \A k \in Jobs : Exists(k) => (Exists(k)' /\ job'[k].sub = job[k].sub)
        BY <2>2, <2>6, NoRowIsAbsent DEF TypeOK, Exists
    <2>7. CASE Recorded(w)
        <3>1. PICK status \in {"EXECUTING_RAW", job[j].status} :
                  job' = [job EXCEPT ![j] = [job[j] EXCEPT !.attemptCount = run[w].count + 1,
                                                           !.status = status]]
            BY <2>7 DEF Recorded
        <3> DEFINE row == [job[j] EXCEPT !.attemptCount = run[w].count + 1, !.status = status]
        <3>2. row \in JobRows
            <4>1. status \in JobStates BY <2>3 DEF JobStates
            <4>2. run[w].count + 1 \in Nat BY <2>4
            <4>3. QED BY <2>2, <4>1, <4>2, JobRowUpdates
        <3>3. row.sub = job[j].sub BY <2>2 DEF JobRows
        <3>4. attempts' \in [Jobs -> Seq(AttemptRows)]
            <4>1. PICK stage \in {"EXECUTING_RAW", "RETRYING_SHIM"} :
                      attempts' = [attempts EXCEPT ![j] =
                          Append(attempts[j], [index |-> run[w].count + 1, stage |-> stage])]
                BY <2>7 DEF Recorded
            <4>2. [index |-> run[w].count + 1, stage |-> stage] \in AttemptRows
                BY <2>4 DEF AttemptRows
            <4>3. QED BY <2>2, <4>1, <4>2 DEF TypeOK
        <3>5. QED BY <2>6, <2>7, <3>1, <3>2, <3>3, <3>4 DEF Recorded, TypeOK
    <2>8. CASE Moved(w)
        <3>1. PICK status \in JobStates : job' = [job EXCEPT ![j] = [job[j] EXCEPT !.status = status]]
            BY <2>8 DEF Moved
        <3> DEFINE row == [job[j] EXCEPT !.status = status]
        <3>2. row \in JobRows BY <2>2, JobRowMoved
        <3>3. row.sub = job[j].sub BY <2>2 DEF JobRows
        <3>4. QED BY <2>6, <2>8, <3>1, <3>2, <3>3 DEF Moved, TypeOK
    <2>9. CASE Finish(w)
        <3> DEFINE row == Closed(job[j], Verdict(w), Len(grades) + 1)
        <3>1. Verdict(w) \in JobStates BY DEF Verdict, JobStates
        <3>2. row \in JobRows BY <2>2, <2>5, <3>1, JobRowUpdates
        <3>3. row.sub = job[j].sub BY <2>2 DEF Closed, JobRows
        <3>4. job' = [job EXCEPT ![j] = row] BY <2>9 DEF Finish
        <3>5. [sub |-> job[j].sub, source |-> "code_eval", job |-> j, active |-> TRUE]
                  \in GradeRows
            BY <2>2, <2>3 DEF GradeRows, Sources
        <3>6. grades' \in Seq(GradeRows) BY <2>9, <3>5, CommitGradeType DEF Finish
        <3>7. sub' \in [Subs -> SubStatuses]
            BY <2>9 DEF Finish, FlushedStatus, TypeOK, SubStatuses
        <3>8. QED BY <2>6, <2>9, <3>2, <3>3, <3>4, <3>6, <3>7 DEF Finish, TypeOK
    <2>10. QED BY <1>4, <2>7, <2>8, <2>9
<1>5. CASE \E r \in Requests : OverrideCommit(r)
    BY <1>3, <1>5 DEF TypeOK, Exists
<1>6. CASE \E j \in Jobs, s \in Subs, explicit \in BOOLEAN : Created(j, s, explicit)
    BY <1>2, <1>6 DEF TypeOK
<1>7. QED BY <1>1, <1>4, <1>5, <1>6, TableStep

\* The broker's part of TypeOK and Wired.
Messages ==
    /\ unsent \subseteq Jobs
    /\ ready \in [Jobs -> Nat]
    /\ redelivered \in [Jobs -> Nat]
    /\ faults \in Nat
    /\ \A j \in Jobs : (j \in unsent \/ ready[j] > 0) => Exists(j)

\* The broker only ever holds messages of jobs whose row is committed.
LEMMA BrokerType ==
    ASSUME TypeOK, Wired, Next
    PROVE  Messages'
<1>1. Messages BY DEF TypeOK, Wired, Messages
<1>2. \A j \in Jobs : Exists(j) => Exists(j)' BY TablesType
<1>3. ASSUME NEW j \in Jobs, Exists(j)', ready' = ready, unsent' = unsent \cup {j},
             redelivered' = redelivered, faults' = faults
      PROVE  Messages'
    BY <1>1, <1>2, <1>3 DEF Messages
<1>4. ASSUME NEW j \in Jobs, Exists(j), unsent' \subseteq unsent,
             NEW n \in Nat, ready' = [ready EXCEPT ![j] = n],
             NEW m \in Nat, redelivered' = [redelivered EXCEPT ![j] = m],
             faults' \in {faults, faults + 1}
      PROVE  Messages'
    <2>1. ready' \in [Jobs -> Nat] /\ redelivered' \in [Jobs -> Nat] BY <1>1, <1>4 DEF Messages
    <2>2. faults' \in Nat BY <1>1, <1>4 DEF Messages
    <2>3. ASSUME NEW k \in Jobs, k \in unsent' \/ ready'[k] > 0
          PROVE  Exists(k)'
        <3>1. k = j \/ ready'[k] = ready[k] BY <1>1, <1>4 DEF Messages
        <3>2. QED BY <1>1, <1>2, <1>4, <2>3, <3>1 DEF Messages
    <2>4. QED BY <1>1, <1>4, <2>1, <2>2, <2>3 DEF Messages
<1>5. ASSUME unsent' = unsent, ready' = ready, redelivered' = redelivered,
             faults' \in {faults, faults + 1}
      PROVE  Messages'
    BY <1>1, <1>2, <1>5 DEF Messages
<1>6. ASSUME NEW j \in Jobs, Enqueue(j) \/ EnqueueFails(j)
      PROVE  Messages'
    <2>1. Exists(j) /\ ready[j] \in Nat /\ redelivered[j] \in Nat
        BY <1>1, <1>6 DEF Enqueue, EnqueueFails, Messages
    <2>2. /\ ready' = [ready EXCEPT ![j] = ready[j] + 1] \/ ready' = [ready EXCEPT ![j] = ready[j]]
          /\ redelivered' = [redelivered EXCEPT ![j] = redelivered[j]]
          /\ unsent' \subseteq unsent /\ faults' \in {faults, faults + 1}
        BY <1>1, <1>6 DEF Enqueue, EnqueueFails, Fault, Messages
    <2>3. ready[j] + 1 \in Nat BY <2>1
    <2>4. QED BY <1>4, <2>1, <2>2, <2>3
<1>7. ASSUME NEW w \in Slots, NEW j \in Jobs, StartTask(w, j)
      PROVE  Messages'
    <2>1. Exists(j) /\ ready[j] \in Nat /\ ready[j] > 0 /\ redelivered[j] \in Nat
        BY <1>1, <1>7 DEF StartTask, Messages
    <2>2. ready[j] - 1 \in Nat BY <2>1
    <2>3. /\ ready' = [ready EXCEPT ![j] = ready[j] - 1] /\ unsent' = unsent
          /\ redelivered' = [redelivered EXCEPT ![j] = redelivered[j]] /\ faults' = faults
        BY <1>1, <1>7 DEF StartTask, Messages
    <2>4. QED BY <1>4, <2>1, <2>2, <2>3
<1>8. ASSUME NEW w \in Slots, run[w].unacked, Redeliver(w) \/ WorkerDown(w)
      PROVE  Messages'
    <2> DEFINE j == run[w].job
    <2>1. j \in Jobs /\ Exists(j) BY <1>8 DEF Wired, Idle
    <2>2. ready[j] + 1 \in Nat /\ redelivered[j] \in Nat /\ redelivered[j] + 1 \in Nat
        BY <1>1, <2>1 DEF Messages
    <2>3. /\ ready' = [ready EXCEPT ![j] = ready[j] + 1] /\ unsent' = unsent
          /\ \/ redelivered' = [redelivered EXCEPT ![j] = redelivered[j]]
             \/ redelivered' = [redelivered EXCEPT ![j] = redelivered[j] + 1]
          /\ faults' \in {faults, faults + 1}
        BY <1>1, <1>8 DEF Redeliver, WorkerDown, Fault, Messages
    <2>4. QED BY <1>4, <2>1, <2>2, <2>3
<1>9. ASSUME NEW w \in Slots,
             \/ ChildKilled(w) \/ DatabaseError(w) \/ Task(w)
             \/ WorkerDown(w) /\ ~run[w].unacked
      PROVE  Messages'
    <2>1. unsent' = unsent /\ ready' = ready /\ redelivered' = redelivered
          /\ faults' \in {faults, faults + 1}
        BY <1>9 DEF ChildKilled, DatabaseError, WorkerDown, Fault, broker, Task, ReadJob,
            InvalidTransition, ConfigError, StartExecuting, RecordBlocked, Reject, RunRaw,
            RecordRaw, Analyze, ToAnalyzing, ToRetrying, RunShim, RecordShim, Finalize,
            WriteGrade, Finish, ServiceError, GiveUp, Ack, RecordAttempt, CommitStatus, Execute
    <2>2. QED BY <1>5, <2>1
<1>10. ASSUME NEW j \in Jobs, NEW s, NEW explicit, job' = [job EXCEPT ![j] = NewJob(s, explicit)]
       PROVE  Exists(j)'
    <2>1. job'[j].status = InitialState BY <1>10 DEF NewJob, TypeOK
    <2>2. QED BY <2>1, ConstantsAssumption DEF Exists, NoRow, InitialState, JobStates
<1>11. CASE Api
    <2>1. ASSUME NEW r \in Requests, NEW j \in Jobs, DispatchCommit(r, j)
          PROVE  Messages'
        BY <1>3, <1>10, <2>1 DEF DispatchCommit
    <2>2. ASSUME NEW j \in Jobs, NEW s \in Subs, NEW explicit \in BOOLEAN,
                 CreateJob(j, s, explicit)
          PROVE  Messages'
        BY <1>3, <1>10, <2>2 DEF CreateJob
    <2>3. ASSUME NEW r \in Requests, NEW s \in Subs, NEW explicit \in BOOLEAN,
                 DispatchCheck(r, s, explicit) \/ OverrideRead(r, s)
          PROVE  Messages'
        BY <1>5, <2>3 DEF DispatchCheck, OverrideRead, broker
    <2>4. ASSUME NEW r \in Requests, OverrideCommit(r)
          PROVE  Messages'
        BY <1>5, <2>4 DEF OverrideCommit, broker
    <2>5. QED BY <1>6, <1>11, <2>1, <2>2, <2>3, <2>4 DEF Api
<1>12. CASE \E w \in Slots : Task(w) \/ Disturbance(w) \/ \E j \in Jobs : StartTask(w, j)
    BY <1>7, <1>8, <1>9, <1>12 DEF Disturbance, Redeliver
<1>13. QED BY <1>11, <1>12 DEF Next

\* What a handler has read when it waits between its two transactions.
LEMMA OpenRequests ==
    ASSUME TypeOK, NEW s \in Subs, NEW explicit \in BOOLEAN
    PROVE  /\ [NoRequest EXCEPT !.kind = "dispatch", !.sub = s, !.seenSub = sub[s],
                                !.explicit = explicit] \in RequestRecords
           /\ [NoRequest EXCEPT !.kind = "override", !.sub = s, !.seenSub = sub[s],
                                !.captured = ActiveGrades(s)] \in RequestRecords
           /\ NoRequest \in RequestRecords
<1>1. sub[s] \in SubStatuses BY DEF TypeOK
<1>2. ActiveGrades(s) \in SUBSET Nat BY ActiveGradesAreIds
<1>3. QED BY <1>1, <1>2 DEF NoRequest, RequestRecords

\* A handler has nothing open, what it had open, or a fresh read of one submission.
LEMMA RequestStep ==
    ASSUME TypeOK, Next
    PROVE  \/ UNCHANGED request
           \/ \E q \in Requests : \E opened \in RequestRecords :
                  /\ request' = [request EXCEPT ![q] = opened]
                  /\ \/ opened.kind = "none"
                     \/ /\ opened.sub \in Subs
                        /\ opened.captured \in {{}, ActiveGrades(opened.sub)}
<1>1. ASSUME NEW q \in Requests, NEW s \in Subs, NEW explicit \in BOOLEAN,
             DispatchCheck(q, s, explicit)
      PROVE  \E opened \in RequestRecords :
                 /\ request' = [request EXCEPT ![q] = opened]
                 /\ opened.sub \in Subs /\ opened.captured = {}
    <2> DEFINE opened == [NoRequest EXCEPT !.kind = "dispatch", !.sub = s, !.seenSub = sub[s],
                                           !.explicit = explicit]
    <2>1. opened \in RequestRecords BY OpenRequests
    <2>2. opened.sub = s /\ opened.captured = {} BY DEF NoRequest
    <2>3. request' = [request EXCEPT ![q] = opened] BY <1>1 DEF DispatchCheck
    <2>4. QED BY <2>1, <2>2, <2>3
<1>2. ASSUME NEW q \in Requests, NEW s \in Subs, OverrideRead(q, s)
      PROVE  \E opened \in RequestRecords :
                 /\ request' = [request EXCEPT ![q] = opened]
                 /\ opened.sub \in Subs /\ opened.captured = ActiveGrades(opened.sub)
    <2> DEFINE opened == [NoRequest EXCEPT !.kind = "override", !.sub = s, !.seenSub = sub[s],
                                           !.captured = ActiveGrades(s)]
    <2>1. opened \in RequestRecords BY OpenRequests
    <2>2. opened.sub = s /\ opened.captured = ActiveGrades(s) BY DEF NoRequest
    <2>3. request' = [request EXCEPT ![q] = opened] BY <1>2 DEF OverrideRead
    <2>4. QED BY <2>1, <2>2, <2>3
<1>3. CASE Api
    <2>1. CASE \E q \in Requests, s \in Subs, explicit \in BOOLEAN : DispatchCheck(q, s, explicit)
        BY <1>1, <2>1
    <2>2. CASE \E q \in Requests, s \in Subs : OverrideRead(q, s)
        BY <1>2, <2>2
    <2>3. CASE \/ \E q \in Requests, j \in Jobs : DispatchCommit(q, j)
               \/ \E q \in Requests : OverrideCommit(q)
        <3>1. NoRequest \in RequestRecords /\ NoRequest.kind = "none"
            BY ConstantsAssumption DEF NoRequest, RequestRecords
        <3>2. QED BY <2>3, <3>1 DEF DispatchCommit, OverrideCommit
    <2>4. CASE \/ \E j \in Jobs, s \in Subs, explicit \in BOOLEAN : CreateJob(j, s, explicit)
               \/ \E j \in Jobs : Enqueue(j) \/ EnqueueFails(j)
        BY <2>4 DEF CreateJob, Enqueue, EnqueueFails
    <2>5. QED BY <1>3, <2>1, <2>2, <2>3, <2>4 DEF Api
<1>4. CASE \E w \in Slots : Task(w) \/ Disturbance(w) \/ \E j \in Jobs : StartTask(w, j)
        BY <1>4 DEF Disturbance, Redeliver, WorkerDown, ChildKilled, DatabaseError, StartTask,
            Task, ReadJob, InvalidTransition, ConfigError, StartExecuting, RecordBlocked,
            Reject, RunRaw, RecordRaw, Analyze, ToAnalyzing, ToRetrying, RunShim, RecordShim,
            Finalize, WriteGrade, Finish, ServiceError, GiveUp, Ack, RecordAttempt,
            CommitStatus, Execute
<1>5. QED BY <1>3, <1>4 DEF Next

\* TypeOK together with Wired is inductive; TypeOK alone is not, as a task could
\* then read a row that does not exist.
LEMMA TypeStep ==
    ASSUME TypeOK, Wired, [Next]_vars
    PROVE  TypeOK' /\ Wired'
<1>1. CASE UNCHANGED vars
    BY <1>1 DEF vars, TypeOK, Wired, Exists
<1>2. CASE Next
    <2>1. run' \in [Slots -> Runs] BY <1>2, RunStep DEF TypeOK
    <2>2. request' \in [Requests -> RequestRecords] BY <1>2, RequestStep DEF TypeOK
    <2>3. TypeOK' BY <1>2, <2>1, <2>2, TablesType, BrokerType DEF TypeOK, Messages
    <2>4. ASSUME NEW w \in Slots
          PROVE  /\ run'[w].at # "idle" =>
                        (run'[w].job \in Jobs /\ job'[run'[w].job] # NoRow)
                 /\ run'[w].at = "idle" => run'[w] = Idle
        <3>1. \A j \in Jobs : job[j] # NoRow => job'[j] # NoRow BY <1>2, TablesType DEF Exists
        <3>2. CASE run'[w] = run[w] BY <3>1, <3>2 DEF Wired, Exists
        <3>3. CASE run'[w] = Idle BY <3>3 DEF Idle
        <3>4. CASE Continues(w, run'[w])
            BY <3>1, <3>4 DEF Continues, Wired, Exists
        <3>5. CASE Starts(run'[w])
            BY <3>1, <3>5 DEF Starts, Idle, Wired, Exists
        <3>6. QED BY <1>2, <3>2, <3>3, <3>4, <3>5, RunStep DEF TypeOK
    <2>5. \A r \in Requests : request'[r].kind # "none" => request'[r].sub \in Subs
        BY <1>2, RequestStep DEF Wired, TypeOK
    <2>6. Wired' BY <1>2, <2>4, <2>5, BrokerType DEF Wired, Messages, Exists
    <2>7. QED BY <2>3, <2>6
<1>3. QED BY <1>1, <1>2

\* Nothing exists at first.
LEMMA TypeInit == Init => TypeOK /\ Wired
<1> SUFFICES ASSUME Init PROVE TypeOK /\ Wired
    OBVIOUS
<1>1. TypeOK
    BY DEF Init, TypeOK, Idle, Runs, Steps, NoRequest, RequestRecords, SubStatuses
<1>2. Wired BY DEF Init, Wired, Idle, NoRequest
<1>3. QED BY <1>1, <1>2

\* Every value the tables, the broker and the tasks ever hold has its type.
THEOREM TypeCorrect == Spec => []TypeOK
<1>1. Init => TypeOK /\ Wired BY TypeInit
<1>2. TypeOK /\ Wired /\ [Next]_vars => (TypeOK /\ Wired)' BY TypeStep
<1>3. QED BY <1>1, <1>2, PTL DEF Spec

----------------------------------------------------------------------------
(* The attempt log *)

\* A task never knows of more attempts than there are.
CountsAreOld ==
    \A w \in Slots :
        run[w].seen # None => run[w].count <= job[run[w].job].attemptCount

\* What a step does to one job's log: nothing, or the next entry and the new count.
LEMMA LogStep ==
    ASSUME TypeOK, Wired, AttemptLog, CountsAreOld, Next, NEW j \in Jobs
    PROVE  \/ /\ attempts'[j] = attempts[j]
              /\ job'[j].attemptCount = job[j].attemptCount
           \/ /\ \E stage : attempts'[j] =
                     Append(attempts[j], [index |-> Len(attempts[j]) + 1, stage |-> stage])
              /\ job'[j].attemptCount = job[j].attemptCount + 1
<1>1. CASE UNCHANGED tables
    BY <1>1 DEF tables
<1>2. CASE \E k \in Jobs, s \in Subs, explicit \in BOOLEAN : Created(k, s, explicit)
    <2>1. PICK k \in Jobs, s \in Subs, explicit \in BOOLEAN : Created(k, s, explicit) BY <1>2
    <2>2. job[k].attemptCount = 0 BY <2>1 DEF Created, Exists, NoRow
    <2>3. job'[k].attemptCount = 0 BY <2>1 DEF Created, NewJob, TypeOK
    <2>4. QED BY <2>1, <2>2, <2>3 DEF Created, TypeOK
<1>3. CASE \E r \in Requests : OverrideCommit(r)
    BY <1>3 DEF OverrideCommit
<1>4. ASSUME NEW w \in Slots, Recorded(w)
      PROVE  \/ /\ attempts'[j] = attempts[j]
                /\ job'[j].attemptCount = job[j].attemptCount
             \/ /\ \E stage : attempts'[j] =
                       Append(attempts[j], [index |-> Len(attempts[j]) + 1, stage |-> stage])
                /\ job'[j].attemptCount = job[j].attemptCount + 1
    <2> DEFINE k == run[w].job
    <2> DEFINE n == run[w].count + 1
    <2>1. k \in Jobs /\ job[k] \in JobRows BY <1>4 DEF Recorded, TypeOK, Wired, Exists
    <2>2. run[w].count \in Nat /\ run[w].count <= job[k].attemptCount
        BY <1>4 DEF Recorded, CountsAreOld, TypeOK, Runs
    <2>3. Len(attempts[k]) = job[k].attemptCount /\ Len(attempts[k]) \in Nat
          /\ DOMAIN attempts[k] = 1 .. Len(attempts[k])
        BY <2>1 DEF AttemptLog, TypeOK
    <2>4. \A i \in 1 .. Len(attempts[k]) : i # n
        BY <1>4, <2>1, <2>3 DEF Recorded, IndexTaken, AttemptLog
    <2>5. n = Len(attempts[k]) + 1 BY <2>2, <2>3, <2>4
    <2>6. /\ \E stage : attempts' = [attempts EXCEPT ![k] =
                              Append(attempts[k], [index |-> n, stage |-> stage])]
          /\ \E status : job' = [job EXCEPT ![k] =
                              [job[k] EXCEPT !.attemptCount = n, !.status = status]]
        BY <1>4 DEF Recorded
    <2>7. CASE j = k
        <3>1. job'[k].attemptCount = n BY <2>1, <2>6 DEF TypeOK, JobRows
        <3>2. \E stage : attempts'[k] = Append(attempts[k], [index |-> n, stage |-> stage])
            BY <2>1, <2>6 DEF TypeOK
        <3>3. QED BY <2>3, <2>5, <2>7, <3>1, <3>2
    <2>8. CASE j # k
        BY <2>1, <2>6, <2>8 DEF TypeOK
    <2>9. QED BY <2>7, <2>8
<1>5. ASSUME NEW w \in Slots, Moved(w) \/ Finish(w)
      PROVE  attempts'[j] = attempts[j] /\ job'[j].attemptCount = job[j].attemptCount
    <2>1. run[w].job \in Jobs /\ job[run[w].job] \in JobRows
        BY <1>5 DEF Moved, Finish, TypeOK, Wired, Exists
    <2>2. attempts' = attempts BY <1>5 DEF Moved, Finish
    <2>3. CASE Moved(w) BY <2>1, <2>2, <2>3 DEF Moved, TypeOK, JobRows
    <2>4. CASE Finish(w) BY <2>1, <2>2, <2>4 DEF Finish, Closed, TypeOK, JobRows
    <2>5. QED BY <1>5, <2>3, <2>4
<1>6. QED BY <1>1, <1>2, <1>3, <1>4, <1>5, TableStep

\* AttemptLog is inductive once stale counts are known to be too small, never too
\* large: the unique constraint refuses every index that is not the next one.
LEMMA AttemptLogStep ==
    ASSUME TypeOK, Wired, AttemptLog, CountsAreOld, [Next]_vars
    PROVE  AttemptLog' /\ CountsAreOld'
<1>1. CASE UNCHANGED vars
    BY <1>1 DEF vars, AttemptLog, CountsAreOld
<1>2. CASE Next
    <2>1. ASSUME NEW j \in Jobs
          PROVE  /\ Len(attempts'[j]) = job'[j].attemptCount
                 /\ \A i \in DOMAIN attempts'[j] : attempts'[j][i].index = i
        <3>1. attempts[j] \in Seq(AttemptRows) /\ Len(attempts[j]) = job[j].attemptCount
              /\ \A i \in 1 .. Len(attempts[j]) : attempts[j][i].index = i
            BY DEF TypeOK, AttemptLog
        <3>2. CASE attempts'[j] = attempts[j] /\ job'[j].attemptCount = job[j].attemptCount
            BY <3>1, <3>2
        <3>3. ASSUME NEW stage,
                     attempts'[j] = Append(attempts[j],
                                           [index |-> Len(attempts[j]) + 1, stage |-> stage]),
                     job'[j].attemptCount = job[j].attemptCount + 1
              PROVE  /\ Len(attempts'[j]) = job'[j].attemptCount
                     /\ \A i \in DOMAIN attempts'[j] : attempts'[j][i].index = i
            <4> DEFINE row == [index |-> Len(attempts[j]) + 1, stage |-> stage]
            <4>1. Len(attempts'[j]) = Len(attempts[j]) + 1 /\ Len(attempts[j]) \in Nat
                BY <3>1, <3>3
            <4>2. DOMAIN attempts'[j] = 1 .. Len(attempts[j]) + 1 BY <3>1, <3>3
            <4>3. ASSUME NEW i \in 1 .. Len(attempts[j]) + 1
                  PROVE  attempts'[j][i].index = i
                <5>1. CASE i = Len(attempts[j]) + 1
                    <6>1. attempts'[j][i] = row BY <3>1, <3>3, <5>1
                    <6>2. QED BY <5>1, <6>1
                <5>2. CASE i # Len(attempts[j]) + 1
                    <6>1. i \in 1 .. Len(attempts[j]) BY <4>1, <5>2
                    <6>2. attempts'[j][i] = attempts[j][i] BY <3>1, <3>3, <6>1
                    <6>3. QED BY <3>1, <6>1, <6>2
                <5>3. QED BY <5>1, <5>2
            <4>4. QED BY <3>1, <3>3, <4>1, <4>2, <4>3
        <3>4. QED BY <1>2, <3>2, <3>3, LogStep
    <2>2. ASSUME NEW w \in Slots, run'[w].seen # None
          PROVE  run'[w].count <= job'[run'[w].job].attemptCount
        <3>1. \A j \in Jobs : Exists(j) => /\ job[j].attemptCount \in Nat
                                           /\ job'[j].attemptCount \in Nat
                                           /\ job[j].attemptCount <= job'[j].attemptCount
            <4>1. ASSUME NEW j \in Jobs, Exists(j)
                  PROVE  /\ job[j].attemptCount \in Nat
                         /\ \/ job'[j].attemptCount = job[j].attemptCount
                            \/ job'[j].attemptCount = job[j].attemptCount + 1
                BY <1>2, <4>1, LogStep, JobRowFields DEF TypeOK, Exists
            <4>2. QED BY <4>1
        <3>2. run[w].count \in Nat BY DEF TypeOK, Runs
        <3>3. run[w].at = "idle" \/ (run[w].job \in Jobs /\ Exists(run[w].job)) BY DEF Wired
        <3>4. CASE run'[w] = run[w]
            BY <2>2, <3>1, <3>2, <3>3, <3>4 DEF CountsAreOld, Wired, Idle
        <3>5. CASE Continues(w, run'[w])
            BY <2>2, <3>1, <3>2, <3>3, <3>5 DEF Continues, CountsAreOld
        <3>6. CASE run'[w] = Idle \/ Starts(run'[w])
            <4>1. run'[w].seen = None BY <3>6, StartsFresh DEF Idle
            <4>2. QED BY <2>2, <4>1
        <3>7. QED BY <1>2, <3>4, <3>5, <3>6, RunStep DEF TypeOK
    <2>3. QED BY <2>1, <2>2 DEF AttemptLog, CountsAreOld
<1>3. QED BY <1>1, <1>2

\* However many tasks work on a job and however stale the rows they read, the attempts
\* of a job are numbered 1, 2, ... and attempt_count is their number.
THEOREM AttemptsAreLogged == Spec => []AttemptLog
<1>1. Init => TypeOK /\ Wired /\ AttemptLog /\ CountsAreOld
    <2>1. Init => AttemptLog BY DEF Init, AttemptLog, NoRow
    <2>2. Init => CountsAreOld BY DEF Init, CountsAreOld, Idle
    <2>3. QED BY <2>1, <2>2, TypeInit
<1>2. TypeOK /\ Wired /\ AttemptLog /\ CountsAreOld /\ [Next]_vars
          => (TypeOK /\ Wired /\ AttemptLog /\ CountsAreOld)'
    BY TypeStep, AttemptLogStep
<1>3. QED BY <1>1, <1>2, PTL DEF Spec

----------------------------------------------------------------------------
(* Grades *)

\* What a commit of a grade does to the table: one row more, and the others are kept,
\* except that captured ones may lose their active mark.
LEMMA CommitGradeRows ==
    ASSUME TypeOK, NEW captured, NEW row \in GradeRows, grades' = CommitGrade(captured, row)
    PROVE  /\ Len(grades) \in Nat
           /\ DOMAIN grades = 1 .. Len(grades) /\ DOMAIN grades' = 1 .. Len(grades) + 1
           /\ grades'[Len(grades) + 1] = row
           /\ \A g \in DOMAIN grades :
                  /\ grades'[g].sub = grades[g].sub /\ grades'[g].job = grades[g].job
                  /\ g \notin captured => grades'[g].active = grades[g].active
<1> DEFINE archived == [g \in DOMAIN grades |->
                IF g \in captured THEN [grades[g] EXCEPT !.active = FALSE] ELSE grades[g]]
<1>1. grades \in Seq(GradeRows) BY DEF TypeOK
<1>2. \A g \in DOMAIN grades : grades[g] \in GradeRows BY <1>1
<1>3. \A g \in DOMAIN grades : [grades[g] EXCEPT !.active = FALSE] \in GradeRows
    BY <1>2 DEF GradeRows
<1>4. archived \in Seq(GradeRows) /\ Len(archived) = Len(grades) BY <1>1, <1>2, <1>3
<1>5. grades' = Append(archived, row) BY DEF CommitGrade
<1>6. Len(grades) \in Nat /\ DOMAIN grades = 1 .. Len(grades) BY <1>1
<1>7. DOMAIN grades' = 1 .. Len(grades) + 1 /\ grades'[Len(grades) + 1] = row
    BY <1>4, <1>5, <1>6
<1>8. ASSUME NEW g \in DOMAIN grades
      PROVE  /\ grades'[g].sub = grades[g].sub /\ grades'[g].job = grades[g].job
             /\ g \notin captured => grades'[g].active = grades[g].active
    <2>1. grades'[g] = archived[g] BY <1>4, <1>5, <1>6
    <2>2. grades[g] \in GradeRows BY <1>2
    <2>3. CASE g \in captured
        <3>1. grades'[g] = [grades[g] EXCEPT !.active = FALSE] BY <2>1, <2>3
        <3>2. QED BY <2>2, <2>3, <3>1 DEF GradeRows
    <2>4. CASE g \notin captured
        BY <2>1, <2>4
    <2>5. QED BY <2>3, <2>4
<1>9. QED BY <1>6, <1>7, <1>8

\* In particular every row stays a row of its job and submission.
LEMMA CommitGradeKeeps ==
    ASSUME TypeOK, NEW captured, NEW row \in GradeRows, grades' = CommitGrade(captured, row)
    PROVE  /\ Len(grades) + 1 \in DOMAIN grades' /\ grades'[Len(grades) + 1] = row
           /\ \A g \in DOMAIN grades : /\ g \in DOMAIN grades'
                                        /\ grades'[g].sub = grades[g].sub
                                        /\ grades'[g].job = grades[g].job
    BY CommitGradeRows

\* The rows a transaction is going to archive are rows of its own submission.
OwnCaptures ==
    /\ \A w \in Slots : \A g \in run[w].captured :
           g \in DOMAIN grades /\ grades[g].sub = job[run[w].job].sub
    /\ \A r \in Requests : request[r].kind # "none" =>
           \A g \in request[r].captured :
               g \in DOMAIN grades /\ grades[g].sub = request[r].sub

\* A step either leaves the grades alone or commits one for the submission whose
\* rows it archives; a submission becomes graded in no other way.
LEMMA GradeStep ==
    ASSUME TypeOK, Wired, OwnCaptures, Next
    PROVE  \/ /\ UNCHANGED grades
              /\ \A s \in Subs : sub'[s] = "graded" => sub[s] = "graded"
           \/ \E captured : \E row \in GradeRows :
                  /\ grades' = CommitGrade(captured, row)
                  /\ row.active
                  /\ \A g \in captured : g \in DOMAIN grades /\ grades[g].sub = row.sub
                  /\ \A s \in Subs : sub'[s] = "graded" => (sub[s] = "graded" \/ s = row.sub)
<1>1. CASE UNCHANGED tables
    BY <1>1 DEF tables
<1>2. CASE \E j \in Jobs, s \in Subs, explicit \in BOOLEAN : Created(j, s, explicit)
    BY <1>2 DEF Created, FlushedStatus, TypeOK
<1>3. ASSUME NEW r \in Requests, OverrideCommit(r)
      PROVE  \E captured : \E row \in GradeRows :
                  /\ grades' = CommitGrade(captured, row)
                  /\ row.active
                  /\ \A g \in captured : g \in DOMAIN grades /\ grades[g].sub = row.sub
                  /\ \A s \in Subs : sub'[s] = "graded" => (sub[s] = "graded" \/ s = row.sub)
    <2> DEFINE row == [sub |-> request[r].sub, source |-> "ta_manual", job |-> None,
                       active |-> TRUE]
    <2>1. request[r].kind # "none" /\ request[r].sub \in Subs BY <1>3 DEF OverrideCommit, Wired
    <2>2. row \in GradeRows /\ row.active BY <2>1 DEF GradeRows, Sources
    <2>3. grades' = CommitGrade(request[r].captured, row) BY <1>3 DEF OverrideCommit
    <2>4. \A g \in request[r].captured : g \in DOMAIN grades /\ grades[g].sub = row.sub
        BY <2>1 DEF OwnCaptures
    <2>5. \A s \in Subs : s # row.sub => sub'[s] = sub[s] BY <1>3 DEF OverrideCommit, TypeOK
    <2>6. QED BY <2>2, <2>3, <2>4, <2>5
<1>4. ASSUME NEW w \in Slots, Finish(w)
      PROVE  \E captured : \E row \in GradeRows :
                  /\ grades' = CommitGrade(captured, row)
                  /\ row.active
                  /\ \A g \in captured : g \in DOMAIN grades /\ grades[g].sub = row.sub
                  /\ \A s \in Subs : sub'[s] = "graded" => (sub[s] = "graded" \/ s = row.sub)
    <2> DEFINE row == [sub |-> job[run[w].job].sub, source |-> "code_eval", job |-> run[w].job,
                       active |-> TRUE]
    <2>1. run[w].job \in Jobs /\ job[run[w].job] \in JobRows
        BY <1>4 DEF Finish, Wired, TypeOK, Exists
    <2>2. row \in GradeRows /\ row.active BY <2>1, JobRowFields DEF GradeRows, Sources
    <2>3. grades' = CommitGrade(run[w].captured, row) BY <1>4 DEF Finish
    <2>4. \A g \in run[w].captured : g \in DOMAIN grades /\ grades[g].sub = row.sub
        BY DEF OwnCaptures
    <2>5. \A s \in Subs : s # row.sub => sub'[s] = sub[s] BY <1>4 DEF Finish, TypeOK
    <2>6. QED BY <2>2, <2>3, <2>4, <2>5
<1>5. ASSUME NEW w \in Slots, Recorded(w) \/ Moved(w)
      PROVE  UNCHANGED <<grades, sub>>
    BY <1>5 DEF Recorded, Moved
<1>6. QED BY <1>1, <1>2, <1>3, <1>4, <1>5, TableStep

\* Rows are never removed and never change their submission, so what a transaction
\* captured stays among the rows of its submission.
LEMMA OwnCapturesStep ==
    ASSUME TypeOK, Wired, OwnCaptures, Next
    PROVE  OwnCaptures'
<1>1. \A g \in DOMAIN grades : g \in DOMAIN grades' /\ grades'[g].sub = grades[g].sub
    <2>1. CASE UNCHANGED grades BY <2>1
    <2>2. ASSUME NEW captured, NEW row \in GradeRows, grades' = CommitGrade(captured, row)
          PROVE  \A g \in DOMAIN grades : g \in DOMAIN grades' /\ grades'[g].sub = grades[g].sub
        BY <2>2, CommitGradeRows
    <2>3. QED BY <2>1, <2>2, GradeStep
<1>2. \A j \in Jobs : Exists(j) => job'[j].sub = job[j].sub BY TablesType
<1>3. ASSUME NEW w \in Slots, NEW g \in run'[w].captured
      PROVE  g \in DOMAIN grades' /\ grades'[g].sub = job'[run'[w].job].sub
    <2>1. CASE run'[w] = run[w]
        <3>1. run[w].at # "idle" BY <1>3, <2>1 DEF Wired, Idle
        <3>2. run[w].job \in Jobs /\ Exists(run[w].job) BY <3>1 DEF Wired
        <3>3. g \in DOMAIN grades /\ grades[g].sub = job[run[w].job].sub
            BY <1>3, <2>1 DEF OwnCaptures
        <3>4. QED BY <1>1, <1>2, <2>1, <3>2, <3>3
    <2>2. CASE run'[w] = Idle \/ Starts(run'[w])
        <3>1. run'[w].captured = {} BY <2>2, StartsFresh DEF Idle
        <3>2. QED BY <1>3, <3>1
    <2>3. CASE Continues(w, run'[w])
        <3>1. run[w].job \in Jobs /\ Exists(run[w].job) /\ run'[w].job = run[w].job
            BY <2>3 DEF Continues, Wired
        <3>2. g \in run[w].captured \/ g \in ActiveGrades(job[run[w].job].sub)
            BY <1>3, <2>3 DEF Continues
        <3>3. g \in DOMAIN grades /\ grades[g].sub = job[run[w].job].sub
            BY <3>2 DEF OwnCaptures, ActiveGrades
        <3>4. QED BY <1>1, <1>2, <3>1, <3>3
    <2>4. QED BY <2>1, <2>2, <2>3, RunStep DEF TypeOK
<1>4. ASSUME NEW r \in Requests, request'[r].kind # "none", NEW g \in request'[r].captured
      PROVE  g \in DOMAIN grades' /\ grades'[g].sub = request'[r].sub
    <2>1. CASE request'[r] = request[r]
        BY <1>1, <1>4, <2>1 DEF OwnCaptures
    <2>2. CASE request'[r].captured \in {{}, ActiveGrades(request'[r].sub)}
        BY <1>1, <1>4, <2>2 DEF ActiveGrades
    <2>3. QED BY <1>4, <2>1, <2>2, RequestStep DEF TypeOK
<1>5. QED BY <1>3, <1>4 DEF OwnCaptures

\* A commit archives rows of its own submission only, and adds an active one there.
LEMMA GradedStep ==
    ASSUME TypeOK, Wired, OwnCaptures, GradedHasGrade, Next
    PROVE  GradedHasGrade'
<1>1. CASE /\ UNCHANGED grades
           /\ \A s \in Subs : sub'[s] = "graded" => sub[s] = "graded"
    BY <1>1 DEF GradedHasGrade, ActiveGrades
<1>2. ASSUME NEW captured, NEW row \in GradeRows, grades' = CommitGrade(captured, row),
             row.active, \A g \in captured : g \in DOMAIN grades /\ grades[g].sub = row.sub,
             \A s \in Subs : sub'[s] = "graded" => (sub[s] = "graded" \/ s = row.sub)
      PROVE  GradedHasGrade'
    <2> DEFINE new == Len(grades) + 1
    <2>1. /\ Len(grades) \in Nat
          /\ DOMAIN grades = 1 .. Len(grades) /\ DOMAIN grades' = 1 .. new
          /\ grades'[new] = row
          /\ \A g \in DOMAIN grades :
                 /\ grades'[g].sub = grades[g].sub
                 /\ g \notin captured => grades'[g].active = grades[g].active
        BY <1>2, CommitGradeRows
    <2>2. new \in DOMAIN grades' /\ \A g \in DOMAIN grades : g \in DOMAIN grades' /\ new > g
        BY <2>1
    <2>3. ASSUME NEW s \in Subs, sub'[s] = "graded"
          PROVE  \E g \in DOMAIN grades' : grades'[g].sub = s /\ grades'[g].active
        <3>1. CASE s = row.sub BY <1>2, <2>1, <2>2, <3>1
        <3>2. CASE s # row.sub
            <4>1. PICK g \in DOMAIN grades : grades[g].sub = s /\ grades[g].active
                BY <1>2, <2>3, <3>2 DEF GradedHasGrade, ActiveGrades
            <4>2. g \notin captured BY <1>2, <3>2, <4>1
            <4>3. QED BY <2>1, <2>2, <4>1, <4>2
        <3>3. QED BY <3>1, <3>2
    <2>4. QED BY <2>3 DEF GradedHasGrade, ActiveGrades
<1>3. QED BY <1>1, <1>2, GradeStep

GradesInv == TypeOK /\ Wired /\ OwnCaptures /\ GradedHasGrade

\* What captured rows and graded submissions are, step by step.
LEMMA GradesInvariant == Spec => []GradesInv
<1>1. Init => GradesInv
    <2>1. ASSUME Init PROVE OwnCaptures BY <2>1 DEF Init, OwnCaptures, Idle, NoRequest
    <2>2. ASSUME Init PROVE GradedHasGrade BY <2>2 DEF Init, GradedHasGrade
    <2>3. QED BY <2>1, <2>2, TypeInit DEF GradesInv
<1>2. GradesInv /\ [Next]_vars => GradesInv'
    <2>1. ASSUME GradesInv, UNCHANGED vars PROVE GradesInv'
        BY <2>1 DEF GradesInv, vars, TypeOK, Wired, Exists, OwnCaptures, GradedHasGrade,
                    ActiveGrades
    <2>2. ASSUME GradesInv, Next PROVE GradesInv'
        BY <2>2, TypeStep, OwnCapturesStep, GradedStep DEF GradesInv
    <2>3. QED BY <2>1, <2>2
<1>3. QED BY <1>1, <1>2, PTL DEF Spec

\* Whatever the interleaving, a submission shown as graded has an active grade.
THEOREM GradedSubmissionsHaveGrades == Spec => []GradedHasGrade
<1>1. GradesInv => GradedHasGrade BY DEF GradesInv
<1>2. QED BY <1>1, GradesInvariant, PTL

\* A sequence one longer.
LEMMA AppendedRow ==
    ASSUME NEW S, NEW n \in Nat, NEW s \in [1 .. n -> S], NEW e \in S
    PROVE  Append(s, e) = [i \in 1 .. n + 1 |-> IF i = n + 1 THEN e ELSE s[i]]
<1>1. s \in Seq(S) /\ Len(s) = n OBVIOUS
<1>2. Append(s, e) \in Seq(S) /\ Len(Append(s, e)) = n + 1 BY <1>1
<1>3. \A i \in 1 .. n + 1 : Append(s, e)[i] = IF i = n + 1 THEN e ELSE s[i] BY <1>1
<1>4. Append(s, e) \in [1 .. n + 1 -> S] BY <1>2, LenProperties
<1>5. QED BY <1>3, <1>4

\* A ledger row out of use.
LEMMA ArchivedRow ==
    ASSUME NEW s, NEW source, NEW active
    PROVE  [[sub |-> s, source |-> source, active |-> active] EXCEPT !.active = FALSE]
               = [sub |-> s, source |-> source, active |-> FALSE]
<1> DEFINE row == [sub |-> s, source |-> source, active |-> active]
<1>1. row \in [sub : {s}, source : {source}, active : {active}] OBVIOUS
<1> HIDE DEF row
<1> DEFINE archived == [row EXCEPT !.active = FALSE]
<1>2. archived \in [sub : {s}, source : {source}, active : {FALSE}] BY <1>1
<1> HIDE DEF archived
<1>3. archived = [sub |-> s, source |-> source, active |-> FALSE] BY <1>2
<1>4. [row EXCEPT !.active = FALSE] = [sub |-> s, source |-> source, active |-> FALSE]
    BY <1>3 DEF archived
<1>5. QED BY <1>4 DEF row

\* A commit of a grade, with the rows that its transaction captured, is an entry of the
\* ledger.
LEMMA LedgerStep ==
    ASSUME TypeOK, NEW captured, NEW row \in GradeRows, row.active,
           \A g \in captured : g \in DOMAIN grades /\ grades[g].sub = row.sub,
           grades' = CommitGrade(captured, row)
    PROVE  GL!Next
<1> DEFINE Seen(g) == [sub |-> g.sub, source |-> g.source, active |-> g.active]
<1> DEFINE n == Len(grades)
<1> DEFINE archived == [g \in DOMAIN grades |->
                IF g \in captured THEN [grades[g] EXCEPT !.active = FALSE] ELSE grades[g]]
<1> DEFINE seen == [g \in DOMAIN grades |-> Seen(grades[g])]
<1> DEFINE kept == [g \in DOMAIN seen |->
                IF g \in captured THEN [seen[g] EXCEPT !.active = FALSE] ELSE seen[g]]
<1>1. grades \in Seq(GradeRows) BY DEF TypeOK
<1>2. n \in Nat /\ DOMAIN grades = 1 .. n BY <1>1
<1>3. \A g \in 1 .. n : grades[g] \in GradeRows BY <1>1, <1>2
<1>4. \A g \in 1 .. n : archived[g] \in GradeRows /\ Seen(archived[g]) = kept[g]
    <2>1. ASSUME NEW g \in 1 .. n PROVE archived[g] \in GradeRows /\ Seen(archived[g]) = kept[g]
        <3>1. grades[g] \in GradeRows BY <1>3
        <3>2. CASE g \in captured
            <4>1. archived[g] = [grades[g] EXCEPT !.active = FALSE] BY <1>2, <3>2
            <4>2. kept[g] = [Seen(grades[g]) EXCEPT !.active = FALSE] BY <1>2, <3>2
            <4>3. [grades[g] EXCEPT !.active = FALSE] \in GradeRows BY <3>1 DEF GradeRows
            <4>4. Seen([grades[g] EXCEPT !.active = FALSE])
                      = [Seen(grades[g]) EXCEPT !.active = FALSE]
                <5> DEFINE off == [grades[g] EXCEPT !.active = FALSE]
                <5>1. off.sub = grades[g].sub /\ off.source = grades[g].source
                      /\ off.active = FALSE
                    BY <3>1 DEF GradeRows
                <5>2. [Seen(grades[g]) EXCEPT !.active = FALSE]
                          = [sub |-> grades[g].sub, source |-> grades[g].source,
                             active |-> FALSE]
                    BY ArchivedRow
                <5> HIDE DEF off
                <5>3. QED BY <5>1, <5>2
            <4>5. QED BY <4>1, <4>2, <4>3, <4>4
        <3>3. CASE g \notin captured BY <1>2, <3>1, <3>3
        <3>4. QED BY <3>2, <3>3
    <2>2. QED BY <2>1
<1>5. archived \in [1 .. n -> GradeRows] /\ kept = [g \in 1 .. n |-> kept[g]]
    BY <1>2, <1>4
<1>6. grades' = Append(archived, row) BY DEF CommitGrade
<1>7. Seen(row) \in GL!NewRows BY DEF GL!NewRows, GradeRows
<1>8. GL!Commit(Seen(row), captured)
    <2>1. \A g \in captured : seen[g].sub = Seen(row).sub OBVIOUS
    <2>2. [g \in DOMAIN grades' |-> Seen(grades'[g])] = Append(kept, Seen(row))
        <3> HIDE DEF archived, kept, seen
        <3>1. grades' = [g \in 1 .. n + 1 |-> IF g = n + 1 THEN row ELSE archived[g]]
            <4> HIDE DEF n
            <4>1. QED BY <1>2, <1>5, <1>6, AppendedRow
        <3>2. Append(kept, Seen(row))
                  = [g \in 1 .. n + 1 |-> IF g = n + 1 THEN Seen(row) ELSE kept[g]]
            <4> HIDE DEF Seen
            <4> DEFINE S == {kept[g] : g \in 1 .. n} \cup {Seen(row)}
            <4>1. kept \in [1 .. n -> S] BY <1>5
            <4>2. Seen(row) \in S OBVIOUS
            <4> HIDE DEF S, n
            <4>3. QED BY <1>2, <4>1, <4>2, AppendedRow
        <3>3. \A g \in 1 .. n : Seen(archived[g]) = kept[g] BY <1>4
        <3> HIDE DEF Seen, n
        <3>4. \A g \in 1 .. n + 1 : g = n + 1 \/ g \in 1 .. n BY <1>2
        <3>5. DOMAIN grades' = 1 .. n + 1 BY <3>1
        <3>6. \A g \in 1 .. n + 1 :
                  Seen(grades'[g]) = IF g = n + 1 THEN Seen(row) ELSE kept[g]
            BY <3>1, <3>3, <3>4
        <3>7. QED BY <3>2, <3>5, <3>6
    <2>3. QED BY <2>1, <2>2 DEF GL!Commit
<1>9. captured \in SUBSET DOMAIN seen OBVIOUS
<1>10. QED BY <1>7, <1>8, <1>9 DEF GL!Next

\* The tasks and the TAs, with all that they read before they commit, write one ledger:
\* no grade is lost, rewritten or archived by a grade of another submission.
THEOREM GradesAreALedger == Spec => RefinesLedger
<1> DEFINE rows == [g \in DOMAIN grades |-> [sub |-> grades[g].sub, source |-> grades[g].source,
                                             active |-> grades[g].active]]
<1>1. Init => GL!Init BY DEF Init, GL!Init
<1>2. ASSUME GradesInv, [Next]_vars PROVE [GL!Next]_rows
    <2>1. CASE UNCHANGED grades BY <2>1
    <2>2. CASE Next /\ ~UNCHANGED grades
        BY <1>2, <2>2, GradeStep, LedgerStep DEF GradesInv
    <2>3. QED BY <1>2, <2>1, <2>2 DEF vars
<1>3. QED BY <1>1, <1>2, GradesInvariant, PTL DEF Spec, RefinesLedger, GL!Spec

----------------------------------------------------------------------------
(* Completed jobs *)

\* Steps a task only takes once it has recorded an attempt of its job.
Attempted == {"analyze", "to_analyzing", "to_retrying", "run_shim", "record_shim",
              "finalize", "write_grade", "finish"}

AttemptsFirst ==
    \A w \in Slots : run[w].at \in Attempted => Len(attempts[run[w].job]) > 0

\* Where a task is after a commit and after an exception.
LEMMA WhereTo ==
    ASSUME TypeOK, NEW w \in Slots
    PROVE  /\ \A step : GoTo(w, step) => run'[w].at = step
           /\ Raise(w) => run'[w].at = "except"
<1>1. ASSUME NEW step, GoTo(w, step) PROVE run'[w].at = step
    BY <1>1 DEF GoTo, TypeOK, Runs
<1>2. ASSUME Raise(w) PROVE run'[w].at = "except"
    BY <1>2 DEF Raise, Idle, TypeOK
<1>3. QED BY <1>1, <1>2

\* A task touches no task but itself.
LEMMA OtherTasks ==
    ASSUME TypeOK, NEW v \in Slots, NEW w \in Slots, v # w,
           Task(v) \/ Disturbance(v) \/ \E j \in Jobs : StartTask(v, j)
    PROVE  run'[w] = run[w]
    BY DEF Disturbance, Redeliver, WorkerDown, ChildKilled, DatabaseError, StartTask,
        Task, ReadJob, InvalidTransition, ConfigError, StartExecuting, RecordBlocked,
        Reject, RunRaw, RecordRaw, Analyze, ToAnalyzing, ToRetrying, RunShim, RecordShim,
        Finalize, WriteGrade, Finish, ServiceError, GiveUp, Ack, RecordAttempt,
        CommitStatus, Execute, GoTo, Raise, TypeOK

\* A task gets past its first attempt by recording it, and in no other way.
LEMMA AttemptedStep ==
    ASSUME TypeOK, Wired, Next, NEW w \in Slots, run'[w].at \in Attempted
    PROVE  run'[w].job = run[w].job /\ (run[w].at \in Attempted \/ Recorded(w))
<1>1. run'[w].job = run[w].job /\ run[w].at # "idle"
    <2>1. CASE run'[w] = run[w] BY <2>1 DEF Attempted
    <2>2. CASE run'[w] = Idle \/ Starts(run'[w])
        BY <2>2, StartsFresh DEF Idle, Attempted
    <2>3. CASE Continues(w, run'[w]) BY <2>3 DEF Continues
    <2>4. QED BY <2>1, <2>2, <2>3, RunStep DEF TypeOK
<1>2. ASSUME NEW v \in Slots, v # w, Task(v) \/ Disturbance(v) \/ \E j \in Jobs : StartTask(v, j)
      PROVE  run'[w] = run[w]
    BY <1>2, OtherTasks
<1>3. CASE Task(w)
    <2>1. ASSUME NEW stage, NEW status, NEW next, RecordAttempt(w, stage, status, next)
          PROVE  run'[w].at = "except" \/ ~IndexTaken(run[w].job, run[w].count + 1)
        BY <2>1 DEF RecordAttempt, Raise, Idle, TypeOK
    <2>2. CASE RecordRaw(w)
        <3>1. InTransaction(w, "record_raw") BY <2>2 DEF RecordRaw
        <3>2. PICK next : RecordAttempt(w, "EXECUTING_RAW", job[run[w].job].status, next)
            BY <2>2 DEF RecordRaw
        <3>3. ~IndexTaken(run[w].job, run[w].count + 1) BY <2>1, <3>2 DEF Attempted
        <3>4. Recorded(w)
            BY <3>1, <3>2, <3>3 DEF RecordAttempt, Recorded, InTransaction
        <3>5. QED BY <1>1, <3>4
    <2>3. CASE ConfigError(w) \/ RecordBlocked(w)
        <3>1. run'[w].at \in {"except", "reject"}
            BY <2>3, WhereTo DEF ConfigError, RecordBlocked, RecordAttempt
        <3>2. QED BY <3>1 DEF Attempted
    <2>4. CASE StartExecuting(w) \/ Reject(w) \/ GiveUp(w)
        <3>1. run'[w].at \in {"blocked", "run_raw", "ack"}
            BY <2>4, WhereTo DEF StartExecuting, Reject, GiveUp, CommitStatus
        <3>2. QED BY <3>1 DEF Attempted
    <2>5. CASE RunRaw(w)
        <3>1. run'[w].at = "record_raw" BY <2>5 DEF RunRaw, Execute, TypeOK, Runs
        <3>2. QED BY <3>1 DEF Attempted
    <2>6. CASE InvalidTransition(w) \/ ServiceError(w) \/ Finish(w) \/ Ack(w)
        <3>1. CASE InvalidTransition(w) \/ ServiceError(w)
            <4>1. run'[w].at = "except" BY <3>1, WhereTo DEF InvalidTransition, ServiceError
            <4>2. QED BY <4>1 DEF Attempted
        <3>2. CASE Finish(w)
            <4>1. run'[w].at = "ack" BY <3>2 DEF Finish, Idle, TypeOK
            <4>2. QED BY <4>1 DEF Attempted
        <3>3. CASE Ack(w)
            <4>1. run'[w].at = "idle" BY <3>3 DEF Ack, Idle, TypeOK
            <4>2. QED BY <4>1 DEF Attempted
        <3>4. QED BY <2>6, <3>1, <3>2, <3>3
    <2>7. CASE ReadJob(w)
        BY <1>1, <2>7 DEF ReadJob, TypeOK, Runs
    <2>8. CASE Analyze(w) \/ ToAnalyzing(w) \/ ToRetrying(w) \/ RunShim(w) \/ RecordShim(w)
               \/ Finalize(w) \/ WriteGrade(w)
        BY <1>1, <2>8 DEF Analyze, ToAnalyzing, ToRetrying, RunShim, Execute, RecordShim,
                          Finalize, WriteGrade, MayMove, InTransaction, Attempted
    <2>9. QED BY <1>3, <2>2, <2>3, <2>4, <2>5, <2>6, <2>7, <2>8 DEF Task
<1>4. CASE Disturbance(w) \/ \E j \in Jobs : StartTask(w, j)
    <2>1. CASE Redeliver(w) BY <1>1, <2>1 DEF Redeliver, TypeOK, Runs
    <2>2. CASE WorkerDown(w) \/ ChildKilled(w) \/ DatabaseError(w)
        <3>1. GoTo(w, "ack") \/ Raise(w) \/ run' = [run EXCEPT ![w] = Idle]
            BY <2>2 DEF WorkerDown, ChildKilled, DatabaseError
        <3>2. run'[w].at \in {"idle", "ack", "except"}
            BY <3>1, WhereTo DEF Idle, TypeOK
        <3>3. QED BY <3>2 DEF Attempted
    <2>3. CASE \E j \in Jobs : StartTask(w, j)
        <3>1. run[w] = Idle BY <2>3 DEF StartTask
        <3>2. QED BY <1>1, <3>1 DEF Idle
    <2>4. QED BY <1>4, <2>1, <2>2, <2>3 DEF Disturbance
<1>5. CASE Api \/ run'[w] = run[w]
    <2>1. run'[w] = run[w]
        BY <1>5 DEF Api, DispatchCheck, DispatchCommit, CreateJob, Enqueue, EnqueueFails,
                    OverrideRead, OverrideCommit
    <2>2. QED BY <2>1
<1>6. QED BY <1>2, <1>3, <1>4, <1>5 DEF Next

\* A step that leaves a job COMPLETED leaves its link to a grade row intact: rows keep
\* their job and submission, and only Finish sets the status and the link, together.
LEMMA CompletedStep ==
    ASSUME TypeOK, Wired, AttemptLog, CountsAreOld, AttemptsFirst, CompletedHasGrade, Next
    PROVE  CompletedHasGrade' /\ AttemptsFirst'
<1> DEFINE Linked(j) == /\ job[j].gradeId \in DOMAIN grades
                        /\ grades[job[j].gradeId].job = j
                        /\ grades[job[j].gradeId].sub = job[j].sub
                        /\ Len(attempts[j]) > 0
<1>1. ASSUME NEW j \in Jobs
      PROVE  Len(attempts[j]) \in Nat /\ Len(attempts'[j]) \in Nat
             /\ Len(attempts'[j]) >= Len(attempts[j])
    <2>1. attempts[j] \in Seq(AttemptRows) BY DEF TypeOK
    <2>2. CASE attempts'[j] = attempts[j] BY <2>1, <2>2
    <2>3. CASE \E row : attempts'[j] = Append(attempts[j], row) BY <2>1, <2>3
    <2>4. QED BY <2>2, <2>3, LogStep
<1>2. AttemptsFirst'
    <2>1. ASSUME NEW w \in Slots, run'[w].at \in Attempted
          PROVE  Len(attempts'[run'[w].job]) > 0
        <3>1. run'[w].job = run[w].job /\ (run[w].at \in Attempted \/ Recorded(w))
            BY <2>1, AttemptedStep
        <3>2. run[w].job \in Jobs BY <3>1 DEF Wired, Recorded, Attempted
        <3>3. CASE run[w].at \in Attempted
            BY <1>1, <3>1, <3>2, <3>3 DEF AttemptsFirst
        <3>4. CASE Recorded(w)
            <4>1. attempts[run[w].job] \in Seq(AttemptRows) BY <3>2 DEF TypeOK
            <4>2. \E row : attempts'[run[w].job] = Append(attempts[run[w].job], row)
                BY <3>2, <3>4 DEF Recorded, TypeOK
            <4>3. QED BY <3>1, <4>1, <4>2
        <3>5. QED BY <3>1, <3>3, <3>4
    <2>2. QED BY <2>1 DEF AttemptsFirst
<1>3. ASSUME NEW j \in Jobs, job'[j].status = "COMPLETED"
      PROVE  Linked(j)'
    <2>1. ASSUME job[j].status = "COMPLETED"
          PROVE  Linked(j)
        BY <2>1 DEF CompletedHasGrade
    <2>2. CASE UNCHANGED tables BY <1>3, <2>1, <2>2 DEF tables
    <2>3. CASE \E k \in Jobs, s \in Subs, explicit \in BOOLEAN : Created(k, s, explicit)
        <3>1. PICK k \in Jobs, s \in Subs, explicit \in BOOLEAN : Created(k, s, explicit)
            BY <2>3
        <3>2. job'[k].status = "QUEUED" BY <3>1 DEF Created, NewJob, InitialState, TypeOK
        <3>3. j # k BY <1>3, <3>2
        <3>4. job'[j] = job[j] /\ UNCHANGED <<attempts, grades>>
            BY <3>1, <3>3 DEF Created, TypeOK
        <3>5. QED BY <1>3, <2>1, <3>4
    <2>4. CASE \E r \in Requests : OverrideCommit(r)
        <3>1. PICK r \in Requests : OverrideCommit(r) BY <2>4
        <3>2. request[r].sub \in Subs BY <3>1 DEF OverrideCommit, Wired
        <3>3. [sub |-> request[r].sub, source |-> "ta_manual", job |-> None, active |-> TRUE]
                  \in GradeRows
            BY <3>2 DEF GradeRows, Sources
        <3>4. \A g \in DOMAIN grades : /\ g \in DOMAIN grades'
                                       /\ grades'[g].sub = grades[g].sub
                                       /\ grades'[g].job = grades[g].job
            BY <3>1, <3>3, CommitGradeKeeps DEF OverrideCommit
        <3>5. QED BY <1>3, <2>1, <3>1, <3>4 DEF OverrideCommit
    <2>5. ASSUME NEW w \in Slots, Recorded(w)
          PROVE  Linked(j)'
        <3>1. run[w].job \in Jobs /\ job[run[w].job] \in JobRows
            BY <2>5 DEF Recorded, TypeOK, Wired, Exists
        <3>2. PICK status \in {"EXECUTING_RAW", job[run[w].job].status} :
                  job' = [job EXCEPT ![run[w].job] = [job[run[w].job] EXCEPT
                              !.attemptCount = run[w].count + 1, !.status = status]]
            BY <2>5 DEF Recorded
        <3>3. job'[j].gradeId = job[j].gradeId /\ job'[j].sub = job[j].sub
              /\ job'[j].status \in {"EXECUTING_RAW", job[j].status}
            BY <3>1, <3>2 DEF TypeOK, JobRows
        <3>4. job[j].status = "COMPLETED" BY <1>3, <3>3
        <3>5. QED BY <1>1, <2>1, <2>5, <3>3, <3>4 DEF Recorded
    <2>6. ASSUME NEW w \in Slots, Moved(w)
          PROVE  Linked(j)'
        <3>1. run[w].job \in Jobs /\ job[run[w].job] \in JobRows
            BY <2>6 DEF Moved, TypeOK, Wired, Exists
        <3>2. PICK status \in JobStates \ {"COMPLETED"} :
                  job' = [job EXCEPT ![run[w].job] = [job[run[w].job] EXCEPT !.status = status]]
            BY <2>6 DEF Moved
        <3>3. j # run[w].job BY <1>3, <3>1, <3>2 DEF TypeOK, JobRows
        <3>4. job'[j] = job[j] BY <3>1, <3>2, <3>3 DEF TypeOK
        <3>5. QED BY <1>3, <2>1, <2>6, <3>4 DEF Moved
    <2>7. ASSUME NEW w \in Slots, Finish(w)
          PROVE  Linked(j)'
        <3> DEFINE k == run[w].job
        <3> DEFINE row == [sub |-> job[k].sub, source |-> "code_eval", job |-> k, active |-> TRUE]
        <3>1. k \in Jobs /\ job[k] \in JobRows BY <2>7 DEF Finish, TypeOK, Wired, Exists
        <3>2. row \in GradeRows BY <3>1, JobRowFields DEF GradeRows, Sources
        <3>3. grades' = CommitGrade(run[w].captured, row) BY <2>7 DEF Finish
        <3>4. /\ Len(grades) + 1 \in DOMAIN grades' /\ grades'[Len(grades) + 1] = row
              /\ \A g \in DOMAIN grades : /\ g \in DOMAIN grades'
                                           /\ grades'[g].sub = grades[g].sub
                                           /\ grades'[g].job = grades[g].job
            BY <3>2, <3>3, CommitGradeKeeps
        <3>5. job' = [job EXCEPT ![k] = Closed(job[k], Verdict(w), Len(grades) + 1)]
              /\ UNCHANGED attempts
            BY <2>7 DEF Finish
        <3>6. CASE j = k
            <4>1. job'[k].gradeId = Len(grades) + 1 /\ job'[k].sub = job[k].sub
                BY <3>1, <3>5 DEF TypeOK, Closed, JobRows
            <4>2. Len(attempts[k]) > 0 BY <2>7 DEF Finish, AttemptsFirst, Attempted
            <4>3. QED BY <3>4, <3>5, <3>6, <4>1, <4>2
        <3>7. CASE j # k
            <4>1. job'[j] = job[j] BY <3>5, <3>7 DEF TypeOK
            <4>2. QED BY <1>3, <2>1, <3>4, <3>5, <4>1
        <3>8. QED BY <3>6, <3>7
    <2>8. QED BY <2>2, <2>3, <2>4, <2>5, <2>6, <2>7, TableStep
<1>4. CompletedHasGrade' BY <1>3 DEF CompletedHasGrade
<1>5. QED BY <1>2, <1>4

CompletedInv ==
    TypeOK /\ Wired /\ AttemptLog /\ CountsAreOld /\ AttemptsFirst /\ CompletedHasGrade

\* A completed job is linked to a grade it wrote for its own submission after at
\* least one attempt, even when several tasks of the job overlap.
THEOREM CompletedJobsHaveGrades == Spec => []CompletedHasGrade
<1>1. Init => CompletedInv
    <2>1. ASSUME Init PROVE AttemptLog /\ CountsAreOld /\ AttemptsFirst
        BY <2>1 DEF Init, AttemptLog, NoRow, CountsAreOld, AttemptsFirst, Idle, Attempted
    <2>2. ASSUME Init PROVE CompletedHasGrade
        BY <2>2, ConstantsAssumption DEF Init, CompletedHasGrade, NoRow, JobStates
    <2>3. QED BY <2>1, <2>2, TypeInit DEF CompletedInv
<1>2. CompletedInv /\ [Next]_vars => CompletedInv'
    <2>1. ASSUME CompletedInv, UNCHANGED vars PROVE AttemptsFirst' /\ CompletedHasGrade'
        BY <2>1 DEF CompletedInv, vars, AttemptsFirst, CompletedHasGrade
    <2>2. ASSUME CompletedInv, Next PROVE AttemptsFirst' /\ CompletedHasGrade'
        BY <2>2, CompletedStep DEF CompletedInv
    <2>3. QED BY <2>1, <2>2, TypeStep, AttemptLogStep DEF CompletedInv
<1>3. CompletedInv => CompletedHasGrade BY DEF CompletedInv
<1>4. QED BY <1>1, <1>2, <1>3, PTL DEF Spec

----------------------------------------------------------------------------
(* Submissions being graded *)

\* The job dispatched last for a submission being graded is not completed, and a task
\* about to write its grade has seen that the submission is being graded.
LastDispatch ==
    \A s \in Subs : sub[s] = "grading" =>
        \E j \in Jobs :
            /\ job[j].sub = s /\ job[j].status # "COMPLETED"
            /\ \A w \in Slots :
                   run[w].job = j /\ run[w].at = "finish" => run[w].seenSub # "graded"

\* A task comes to its last commit by _write_grade, and in no other way.
LEMMA FinishStep ==
    ASSUME TypeOK, Wired, Next, NEW w \in Slots, run'[w].at = "finish"
    PROVE  /\ run'[w].job = run[w].job /\ run[w].at # "idle"
           /\ (run[w].at = "finish" /\ run'[w].seenSub = run[w].seenSub) \/ WriteGrade(w)
<1>1. run'[w].job = run[w].job /\ run[w].at # "idle"
    BY AttemptedStep DEF Attempted, Recorded
<1>2. ASSUME NEW v \in Slots, v # w, Task(v) \/ Disturbance(v) \/ \E j \in Jobs : StartTask(v, j)
      PROVE  run'[w] = run[w]
    BY <1>2, OtherTasks
<1>3. CASE Task(w)
    <2>1. CASE ReadJob(w)
        BY <1>1, <2>1 DEF ReadJob, ReadSteps, TypeOK, Runs
    <2>2. CASE RunRaw(w) \/ RunShim(w) \/ Analyze(w) \/ Finalize(w)
        BY <2>2 DEF RunRaw, RunShim, Execute, Analyze, Finalize, TypeOK, Runs
    <2>3. CASE InvalidTransition(w) \/ ServiceError(w)
        BY <2>3, WhereTo DEF InvalidTransition, ServiceError
    <2>4. CASE ConfigError(w) \/ RecordBlocked(w) \/ RecordRaw(w) \/ RecordShim(w)
        <3>1. \E stage, status : \E next \in {"reject", "finalize", "analyze"} :
                  RecordAttempt(w, stage, status, next)
            BY <2>4 DEF ConfigError, RecordBlocked, RecordRaw, RecordShim
        <3>2. QED BY <3>1, WhereTo DEF RecordAttempt
    <2>5. CASE StartExecuting(w) \/ Reject(w) \/ ToAnalyzing(w) \/ ToRetrying(w) \/ GiveUp(w)
        <3>1. \E step \in {"blocked", "run_raw", "ack", "to_retrying", "run_shim"} : GoTo(w, step)
            BY <2>5 DEF StartExecuting, Reject, ToAnalyzing, ToRetrying, GiveUp, CommitStatus
        <3>2. QED BY <3>1, WhereTo
    <2>6. CASE Finish(w)
        BY <2>6 DEF Finish, Idle, TypeOK
    <2>7. CASE Ack(w)
        BY <2>7 DEF Ack, Idle, TypeOK
    <2>8. QED BY <1>1, <1>3, <2>1, <2>2, <2>3, <2>4, <2>5, <2>6, <2>7 DEF Task
<1>4. CASE Disturbance(w) \/ \E j \in Jobs : StartTask(w, j)
    <2>1. CASE Redeliver(w) BY <1>1, <2>1 DEF Redeliver, TypeOK, Runs
    <2>2. CASE DatabaseError(w)
        <3>1. GoTo(w, "ack") \/ Raise(w) BY <2>2 DEF DatabaseError
        <3>2. QED BY <3>1, WhereTo
    <2>3. CASE WorkerDown(w) \/ ChildKilled(w)
        BY <2>3 DEF WorkerDown, ChildKilled, Idle, TypeOK
    <2>4. CASE \E j \in Jobs : StartTask(w, j)
        BY <1>1, <2>4 DEF StartTask, Idle
    <2>5. QED BY <1>4, <2>1, <2>2, <2>3, <2>4 DEF Disturbance
<1>5. CASE Api \/ run'[w] = run[w]
    <2>1. run'[w] = run[w]
        BY <1>5 DEF Api, DispatchCheck, DispatchCommit, CreateJob, Enqueue, EnqueueFails,
                    OverrideRead, OverrideCommit
    <2>2. QED BY <1>1, <2>1
<1>6. QED BY <1>2, <1>3, <1>4, <1>5 DEF Next

\* What becomes of a job that is not completed: it stays so, unless its task commits.
LEMMA CompletedByFinish ==
    ASSUME TypeOK, Wired, Next, NEW j \in Jobs, Exists(j), job[j].status # "COMPLETED"
    PROVE  job'[j].status # "COMPLETED" \/ \E w \in Slots : Finish(w) /\ run[w].job = j
<1>1. CASE UNCHANGED tables BY <1>1 DEF tables
<1>2. CASE \E k \in Jobs, s \in Subs, explicit \in BOOLEAN : Created(k, s, explicit)
    BY <1>2 DEF Created, TypeOK
<1>3. CASE \E r \in Requests : OverrideCommit(r)
    BY <1>3 DEF OverrideCommit
<1>4. ASSUME NEW w \in Slots, Recorded(w) \/ Moved(w) \/ Finish(w)
      PROVE  job'[j].status # "COMPLETED" \/ (Finish(w) /\ run[w].job = j)
    <2>1. run[w].job \in Jobs /\ job[run[w].job] \in JobRows
        BY <1>4 DEF Recorded, Moved, Finish, TypeOK, Wired, Exists
    <2>2. CASE run[w].job # j
        BY <1>4, <2>2 DEF Recorded, Moved, Finish, TypeOK
    <2>3. CASE run[w].job = j /\ (Recorded(w) \/ Moved(w))
        <3>1. PICK status \in (JobStates \ {"COMPLETED"}) \cup {"EXECUTING_RAW", job[j].status} :
                  \/ job' = [job EXCEPT ![j] = [job[j] EXCEPT !.status = status]]
                  \/ \E n : job' = [job EXCEPT ![j] = [job[j] EXCEPT !.attemptCount = n, !.status = status]]
            BY <2>3 DEF Recorded, Moved
        <3>2. status # "COMPLETED" BY <3>1
        <3>3. job[j] \in JobRows BY <2>1, <2>3
        <3>4. /\ [job[j] EXCEPT !.status = status].status = status
              /\ \A n : [job[j] EXCEPT !.attemptCount = n, !.status = status].status = status
            BY <3>3 DEF JobRows
        <3>5. job'[j].status = status BY <3>1, <3>4 DEF TypeOK
        <3>6. QED BY <3>2, <3>5
    <2>4. QED BY <1>4, <2>2, <2>3
<1>5. QED BY <1>1, <1>2, <1>3, <1>4, TableStep

\* The witness of a submission being graded is the job dispatched last: its tasks read
\* `grading`, and then its grade ends the grading.
LEMMA GradingStep ==
    ASSUME TypeOK, Wired, LastDispatch, Next
    PROVE  LastDispatch'
<1> DEFINE Witness(s, j) ==
        /\ job[j].sub = s /\ job[j].status # "COMPLETED"
        /\ \A w \in Slots : run[w].job = j /\ run[w].at = "finish" => run[w].seenSub # "graded"
<1>1. ASSUME NEW s \in Subs, sub[s] = "grading", sub'[s] = "grading"
      PROVE  \E j \in Jobs : Witness(s, j)'
    <2>1. PICK j \in Jobs : Witness(s, j) BY <1>1 DEF LastDispatch
    <2>2. Exists(j) BY <1>1, <2>1, ConstantsAssumption DEF Exists, NoRow
    <2>3. job'[j].sub = s BY <2>1, <2>2, TablesType
    <2>4. job'[j].status # "COMPLETED"
        <3>1. ASSUME NEW w \in Slots, Finish(w), run[w].job = j
              PROVE  FALSE
            <4>1. run[w].seenSub # "graded" BY <2>1, <3>1 DEF Finish
            <4>2. sub'[s] = "graded" BY <2>1, <3>1, <4>1 DEF Finish, FlushedStatus, TypeOK
            <4>3. QED BY <1>1, <4>2
        <3>2. QED BY <2>1, <2>2, <3>1, CompletedByFinish
    <2>5. ASSUME NEW w \in Slots, run'[w].job = j, run'[w].at = "finish"
          PROVE  run'[w].seenSub # "graded"
        <3>1. run[w].job = j BY <2>5, FinishStep
        <3>2. CASE run[w].at = "finish" /\ run'[w].seenSub = run[w].seenSub
            BY <2>1, <3>1, <3>2
        <3>3. CASE WriteGrade(w)
            BY <1>1, <2>1, <3>1, <3>3 DEF WriteGrade, TypeOK, Runs
        <3>4. QED BY <2>5, <3>2, <3>3, FinishStep
    <2>6. QED BY <2>3, <2>4, <2>5
<1>2. ASSUME NEW s \in Subs, sub[s] # "grading", sub'[s] = "grading"
      PROVE  \E j \in Jobs : Witness(s, j)'
    <2>1. PICK j \in Jobs, t \in Subs, explicit \in BOOLEAN : Created(j, t, explicit)
        BY <1>2, TableStep
           DEF tables, OverrideCommit, Recorded, Moved, Finish, FlushedStatus, TypeOK
    <2>2. t = s BY <1>2, <2>1 DEF Created, FlushedStatus, TypeOK
    <2>3. job'[j].sub = s /\ job'[j].status # "COMPLETED"
        BY <2>1, <2>2 DEF Created, NewJob, InitialState, TypeOK
    <2>4. ASSUME NEW w \in Slots, run'[w].job = j, run'[w].at = "finish"
          PROVE  FALSE
        BY <2>1, <2>4, FinishStep DEF Wired, Created
    <2>5. QED BY <2>3, <2>4
<1>3. QED BY <1>1, <1>2 DEF LastDispatch

\* Whatever the interleaving, and even when tasks of one job overlap, a submission is
\* `grading` only as long as one of its jobs is not COMPLETED: running, or FAILED.
THEOREM GradingIsNeverStale == Spec => []GradingIsUnfinished
<1> DEFINE Inv == TypeOK /\ Wired /\ LastDispatch
<1>1. Init => Inv
    <2>1. ASSUME Init PROVE LastDispatch BY <2>1 DEF Init, LastDispatch
    <2>2. QED BY <2>1, TypeInit
<1>2. Inv /\ [Next]_vars => Inv'
    <2>1. ASSUME Inv, UNCHANGED vars PROVE LastDispatch'
        BY <2>1 DEF vars, LastDispatch
    <2>2. ASSUME Inv, Next PROVE LastDispatch'
        BY <2>2, GradingStep
    <2>3. QED BY <2>1, <2>2, TypeStep
<1>3. Inv => GradingIsUnfinished BY DEF LastDispatch, GradingIsUnfinished
<1>4. QED BY <1>1, <1>2, <1>3, PTL DEF Spec
----------------------------------------------------------------------------
(* Jobs in hand *)

\* A task goes on with job j: the job keeps its status, and the task can still end it
\* if it could before.
GoesOn(w, j) ==
    /\ job'[j].status = job[j].status
    /\ job[j].status \in JobStates \ (Terminal \cup {"AI_ANALYZING"}) =>
        (Carries(w, j) => Carries(w, j)')
    /\ job[j].status = "AI_ANALYZING" => (CarriesAnalysis(w, j) => CarriesAnalysis(w, j)')

\* Or it writes a status and is the one that can go on from there.
TakesOver(w, j) ==
    \/ job'[j].status \in Terminal
    \/ job'[j].status = "AI_ANALYZING" /\ CarriesAnalysis(w, j)'
    \/ job'[j].status # "AI_ANALYZING" /\ Carries(w, j)'

\* The status that an UPDATE of a job row leaves.
LEMMA StatusWritten ==
    ASSUME TypeOK, NEW j \in Jobs, job[j] \in JobRows, NEW status
    PROVE  /\ job' = [job EXCEPT ![j] = [@ EXCEPT !.status = status]] => job'[j].status = status
           /\ \A n : job' = [job EXCEPT ![j] = [@ EXCEPT !.attemptCount = n, !.status = status]]
                  => job'[j].status = status
           /\ \A n : job' = [job EXCEPT ![j] = Closed(@, status, n)] => job'[j].status = status
    BY DEF TypeOK, JobRows, Closed

\* A task that raises can still give its job up, unless the job is being analyzed.
LEMMA RaiseCarries ==
    ASSUME TypeOK, NEW w \in Slots, NEW j \in Jobs, run[w].job = j, Raise(w)
    PROVE  Carries(w, j)'
<1>1. run'[w] = [Idle EXCEPT !.at = "except", !.job = j, !.unacked = run[w].unacked]
    BY DEF Raise, TypeOK
<1>2. run'[w].job = j /\ run'[w].at = "except" /\ run'[w].seen = None
    BY <1>1 DEF Idle
<1>3. None \notin Terminal \cup {"AI_ANALYZING"} BY ConstantsAssumption DEF JobStates, Terminal
<1>4. QED BY <1>2, <1>3 DEF Carries

\* A task that moves to another step than the last two has its job in hand.
LEMMA GoToCarries ==
    ASSUME TypeOK, NEW w \in Slots, NEW j \in Jobs, run[w].job = j,
           NEW step \in Steps \ {"except", "ack"}, GoTo(w, step)
    PROVE  /\ Carries(w, j)'
           /\ step = "to_retrying" => CarriesAnalysis(w, j)'
<1>1. run[w] \in Runs BY DEF TypeOK
<1>2. run'[w].job = j /\ run'[w].at = step /\ run'[w].seen = None
    BY <1>1 DEF GoTo, TypeOK, Runs
<1>3. QED BY <1>2 DEF Carries, CarriesAnalysis

\* The walk to FAILED is legal from every status but these.
LEMMA WalkIsLegal ==
    ASSUME NEW s \in JobStates \ (Terminal \cup {"AI_ANALYZING"})
    PROVE  CanGiveUp(s)
<1> USE DEF CanGiveUp, FailureWalk, LegalWalk, CanTransition, AllowedTransitions, JobStates,
            Terminal
<1>1. CASE s = "QUEUED" BY <1>1
<1>2. CASE s = "EXECUTING_RAW" BY <1>2
<1>3. CASE s = "RETRYING_SHIM" BY <1>3
<1>4. CASE s = "FINALIZING" BY <1>4
<1>5. QED BY <1>1, <1>2, <1>3, <1>4

\* The commit of an attempt: the job is taken over, or goes on to the handler.
LEMMA RecordAttemptCarries ==
    ASSUME TypeOK, Wired, NEW w \in Slots, NEW j \in Jobs, run[w].job = j,
           run[w].at \notin {"idle", "to_retrying"},
           NEW stage, NEW next \in Steps \ {"except", "ack"},
           NEW status, status \in {"EXECUTING_RAW", job[j].status},
           RecordAttempt(w, stage, status, next)
    PROVE  GoesOn(w, j) \/ TakesOver(w, j)
<1>1. job[j] \in JobRows BY DEF TypeOK, Wired, Exists
<1>2. ~CarriesAnalysis(w, j) BY DEF CarriesAnalysis
<1>3. CASE Raise(w) /\ UNCHANGED job BY <1>2, <1>3, RaiseCarries DEF GoesOn
<1>4. CASE /\ \E n : job' = [job EXCEPT ![j] = [@ EXCEPT !.attemptCount = n, !.status = status]]
           /\ GoTo(w, next)
    <2>1. job'[j].status = status
        <3>1. PICK n : job' = [job EXCEPT ![j] = [@ EXCEPT !.attemptCount = n, !.status = status]]
            BY <1>4
        <3>2. QED BY <1>1, <3>1, StatusWritten
    <2>2. Carries(w, j)' BY <1>4, GoToCarries
    <2>3. CASE status = "EXECUTING_RAW" BY <2>1, <2>2, <2>3 DEF TakesOver
    <2>4. CASE status = job[j].status BY <1>2, <2>1, <2>2, <2>4 DEF GoesOn
    <2>5. QED BY <2>3, <2>4
<1>5. QED BY <1>3, <1>4 DEF RecordAttempt

\* What a task's own step makes of its job.  Only the shim analysis has a status that
\* cannot be given up, and no refused transition leads out of it.
LEMMA TaskCarries ==
    ASSUME TypeOK, Wired, NEW w \in Slots, NEW j \in Jobs, run[w].job = j,
           run[w].at # "idle", Task(w)
    PROVE  GoesOn(w, j) \/ TakesOver(w, j)
<1>1. run[w] \in Runs /\ job[j] \in JobRows /\ job[j].status \in JobStates
    BY JobRowFields DEF TypeOK, Wired, Exists
<1>2. CASE ReadJob(w)
    <2>1. run'[w] = [run[w] EXCEPT !.seen = job[j].status, !.count = job[j].attemptCount]
          /\ job' = job
        BY <1>2 DEF ReadJob, tables, TypeOK
    <2>2. run'[w].seen = job[j].status /\ run'[w].at = run[w].at /\ run'[w].job = j
        BY <1>1, <2>1 DEF Runs
    <2>3. QED BY <2>1, <2>2 DEF GoesOn, Carries, CarriesAnalysis
<1>3. CASE InvalidTransition(w)
    <2>1. Raise(w) /\ job' = job BY <1>3 DEF InvalidTransition, tables
    <2>2. ~CarriesAnalysis(w, j)
        <3>1. CASE run[w].at = "to_retrying"
            <4>1. run[w].seen # None /\ ~CanTransition(run[w].seen, "RETRYING_SHIM")
                BY <1>3, <3>1 DEF InvalidTransition, InTransaction, Target
            <4>2. CanTransition("AI_ANALYZING", "RETRYING_SHIM")
                BY DEF CanTransition, AllowedTransitions, JobStates
            <4>3. QED BY <4>1, <4>2 DEF CarriesAnalysis
        <3>2. QED BY <3>1 DEF CarriesAnalysis
    <2>3. QED BY <2>1, <2>2, RaiseCarries DEF GoesOn
<1>4. CASE ServiceError(w)
    <2>1. Raise(w) /\ job' = job BY <1>4 DEF ServiceError, tables
    <2>2. ~CarriesAnalysis(w, j)
        BY <1>4 DEF ServiceError, MayMove, InTransaction, CarriesAnalysis
    <2>3. QED BY <2>1, <2>2, RaiseCarries DEF GoesOn
<1>5. CASE ConfigError(w) \/ RecordBlocked(w) \/ RecordRaw(w) \/ RecordShim(w)
    <2>1. run[w].at \notin {"idle", "to_retrying"}
        BY <1>5 DEF ConfigError, RecordBlocked, RecordRaw, RecordShim, MayMove, InTransaction
    <2>2. \E stage, status : \E next \in Steps \ {"except", "ack"} :
              status \in {"EXECUTING_RAW", job[j].status} /\ RecordAttempt(w, stage, status, next)
        BY <1>5 DEF ConfigError, RecordBlocked, RecordRaw, RecordShim, Steps
    <2>3. QED BY <2>1, <2>2, RecordAttemptCarries
<1>6. CASE StartExecuting(w) \/ ToRetrying(w)
    <2>1. PICK status \in {"EXECUTING_RAW", "RETRYING_SHIM"},
               next \in Steps \ {"except", "ack"} : CommitStatus(w, status, next)
        BY <1>6 DEF StartExecuting, ToRetrying, Steps
    <2>2. job'[j].status = status BY <1>1, <2>1, StatusWritten DEF CommitStatus
    <2>3. Carries(w, j)' BY <2>1, GoToCarries DEF CommitStatus
    <2>4. QED BY <2>2, <2>3 DEF TakesOver
<1>7. CASE ToAnalyzing(w)
    <2>1. CommitStatus(w, "AI_ANALYZING", "to_retrying") BY <1>7 DEF ToAnalyzing
    <2>2. job'[j].status = "AI_ANALYZING" BY <1>1, <2>1, StatusWritten DEF CommitStatus
    <2>3. CarriesAnalysis(w, j)' BY <2>1, GoToCarries DEF CommitStatus, Steps
    <2>4. QED BY <2>2, <2>3 DEF TakesOver
<1>8. CASE Reject(w)
    <2>1. CommitStatus(w, "FAILED", "ack") BY <1>8 DEF Reject
    <2>2. job'[j].status = "FAILED" BY <1>1, <2>1, StatusWritten DEF CommitStatus
    <2>3. QED BY <2>2 DEF TakesOver, Terminal
<1>9. CASE RunRaw(w) \/ RunShim(w) \/ Analyze(w) \/ Finalize(w) \/ WriteGrade(w)
    <2>1. job' = job
        BY <1>9 DEF RunRaw, RunShim, Execute, Analyze, Finalize, WriteGrade, tables
    <2>2. run'[w].job = j /\ run'[w].at \notin {"ack", "except"}
        <3>1. ASSUME NEW step, NEW next \in {"record_raw", "record_shim"}, Execute(w, step, next)
              PROVE  run'[w].job = j /\ run'[w].at \notin {"ack", "except"}
            BY <1>1, <3>1 DEF Execute, Runs, TypeOK
        <3>2. CASE Analyze(w) \/ Finalize(w) BY <1>1, <3>2 DEF Analyze, Finalize, Runs, TypeOK
        <3>3. CASE WriteGrade(w) BY <1>1, <3>3 DEF WriteGrade, Runs, TypeOK
        <3>4. QED BY <1>9, <3>1, <3>2, <3>3 DEF RunRaw, RunShim
    <2>3. ~CarriesAnalysis(w, j)
        BY <1>9 DEF RunRaw, RunShim, Execute, Analyze, Finalize, WriteGrade, MayMove,
                    InTransaction, CarriesAnalysis
    <2>4. QED BY <2>1, <2>2, <2>3 DEF GoesOn, Carries
<1>10. CASE Finish(w)
    <2>1. job' = [job EXCEPT ![j] = Closed(@, Verdict(w), Len(grades) + 1)]
        BY <1>10 DEF Finish
    <2>2. job'[j].status = Verdict(w) BY <1>1, <2>1, StatusWritten
    <2>3. QED BY <2>2 DEF TakesOver, Verdict, Terminal
<1>11. CASE GiveUp(w)
    <2>1. run[w].at = "except" /\ run[w].seen \in JobStates
        BY <1>1, <1>11 DEF GiveUp, InTransaction, Runs
    <2>2. CASE run[w].seen \in Terminal \cup {"AI_ANALYZING"}
        <3>1. ~Carries(w, j) /\ ~CarriesAnalysis(w, j)
            BY <2>1, <2>2 DEF Carries, CarriesAnalysis
        <3>2. UNCHANGED job \/ job'[j].status = "FAILED" BY <1>1, <1>11, StatusWritten DEF GiveUp
        <3>3. QED BY <3>1, <3>2 DEF GoesOn, TakesOver, Terminal
    <2>3. CASE run[w].seen \notin Terminal \cup {"AI_ANALYZING"}
        <3>1. CanGiveUp(run[w].seen) BY <2>1, <2>3, WalkIsLegal
        <3>2. job' = [job EXCEPT ![j] = [@ EXCEPT !.status = "FAILED"]]
            BY <1>11, <2>3, <3>1 DEF GiveUp
        <3>3. job'[j].status = "FAILED" BY <1>1, <3>2, StatusWritten
        <3>4. QED BY <3>3 DEF TakesOver, Terminal
    <2>4. QED BY <2>2, <2>3
<1>12. CASE Ack(w)
    <2>1. job' = job /\ ~Carries(w, j) /\ ~CarriesAnalysis(w, j)
        BY <1>12 DEF Ack, tables, Carries, CarriesAnalysis
    <2>2. QED BY <2>1 DEF GoesOn
<1>13. QED
    BY <1>2, <1>3, <1>4, <1>5, <1>6, <1>7, <1>8, <1>9, <1>10, <1>11, <1>12 DEF Task

\* A step of the task in slot w leaves other jobs, other tasks and the broker alone.
LEMMA TaskTouchesItsJob ==
    ASSUME TypeOK, Wired, NEW w \in Slots, Task(w)
    PROVE  /\ run[w].at # "idle" /\ UNCHANGED broker
           /\ \A k \in Jobs : k # run[w].job => job'[k] = job[k]
           /\ \A v \in Slots : v # w => run'[v] = run[v]
<1>1. run[w].at # "idle" /\ UNCHANGED broker
    BY DEF Task, ReadJob, InvalidTransition, ConfigError, StartExecuting, RecordBlocked, Reject,
           RunRaw, RecordRaw, Analyze, ToAnalyzing, ToRetrying, RunShim, RecordShim, Finalize,
           WriteGrade, Finish, ServiceError, GiveUp, Ack, RecordAttempt, CommitStatus, Execute,
           MayMove, InTransaction, ReadSteps
<1>2. UNCHANGED job \/ \E row : job' = [job EXCEPT ![run[w].job] = row]
    BY DEF Task, ReadJob, InvalidTransition, ConfigError, StartExecuting, RecordBlocked, Reject,
           RunRaw, RecordRaw, Analyze, ToAnalyzing, ToRetrying, RunShim, RecordShim, Finalize,
           WriteGrade, Finish, ServiceError, GiveUp, Ack, RecordAttempt, CommitStatus, Execute,
           tables
<1>3. \E task : run' = [run EXCEPT ![w] = task] BY TaskContinues
<1>4. QED BY <1>1, <1>2, <1>3 DEF TypeOK

\* A job that is in hand stays so when its row, its messages and its tasks stay, except
\* for one slot that had another job, or none.
LEMMA OthersKeepInHand ==
    ASSUME TypeOK, NEW j \in Jobs, InHand(j), NEW w \in Slots, run[w].job # j,
           job'[j] = job[j], j \in unsent => j \in unsent', ready[j] > 0 => ready'[j] > 0,
           \A v \in Slots : v # w => run'[v] = run[v]
    PROVE  InHand(j)'
<1>1. \A v \in Slots : /\ Carries(v, j) => Carries(v, j)'
                       /\ CarriesAnalysis(v, j) => CarriesAnalysis(v, j)'
    BY DEF Carries, CarriesAnalysis
<1>2. QED BY <1>1 DEF InHand, Exists

\* The same of a step that leaves all tasks alone.
LEMMA QuietKeepsInHand ==
    ASSUME NEW j \in Jobs, InHand(j), job'[j] = job[j], run' = run,
           j \in unsent => j \in unsent' \/ ready'[j] > 0, ready[j] > 0 => ready'[j] > 0
    PROVE  InHand(j)'
    BY DEF InHand, Exists, Carries, CarriesAnalysis

\* A step of its own task keeps a job in hand.
LEMMA TaskKeepsInHand ==
    ASSUME TypeOK, Wired, NEW j \in Jobs, InHand(j), NEW w \in Slots, Task(w)
    PROVE  InHand(j)'
<1>1. CASE run[w].job # j BY <1>1, TaskTouchesItsJob, OthersKeepInHand DEF broker
<1>2. CASE run[w].job = j
    <2>1. UNCHANGED <<unsent, ready>> /\ \A v \in Slots : v # w => run'[v] = run[v]
        BY TaskTouchesItsJob DEF broker
    <2>2. \A v \in Slots \ {w} : /\ Carries(v, j) => Carries(v, j)'
                                 /\ CarriesAnalysis(v, j) => CarriesAnalysis(v, j)'
        BY <2>1 DEF Carries, CarriesAnalysis
    <2>3. Exists(j) /\ job[j].status \in JobStates
        BY <1>2, TaskTouchesItsJob, JobRowFields DEF Wired, Exists, TypeOK
    <2>4. CASE TakesOver(w, j) BY <2>4 DEF TakesOver, InHand
    <2>5. CASE GoesOn(w, j) BY <2>1, <2>2, <2>3, <2>5 DEF GoesOn, InHand
    <2>6. QED BY <1>2, <2>4, <2>5, TaskCarries, TaskTouchesItsJob
<1>3. QED BY <1>1, <1>2

\* And the broker's and the faults' steps, but for the faults that lose it.
LEMMA DisturbanceKeepsInHand ==
    ASSUME TypeOK, Wired, NEW j \in Jobs, InHand(j), NEW w \in Slots, Disturbance(w)
    PROVE  InHand(j)' \/ Loses(j)
<1>1. job' = job /\ unsent' = unsent /\ \A v \in Slots : v # w => run'[v] = run[v]
    BY DEF Disturbance, Redeliver, WorkerDown, ChildKilled, DatabaseError, GoTo, Raise, tables,
           broker, TypeOK
<1>2. \A v \in Slots \ {w} : /\ Carries(v, j) => Carries(v, j)'
                             /\ CarriesAnalysis(v, j) => CarriesAnalysis(v, j)'
    BY <1>1 DEF Carries, CarriesAnalysis
<1>3. ready[j] > 0 => ready'[j] > 0
    <2>1. ready \in [Jobs -> Nat] BY DEF TypeOK
    <2>2. UNCHANGED ready \/ \E k : ready' = [ready EXCEPT ![k] = @ + 1]
        BY DEF Disturbance, Redeliver, WorkerDown, ChildKilled, DatabaseError, broker
    <2>3. QED BY <2>1, <2>2
<1>4. CASE run[w].job # j BY <1>1, <1>3, <1>4, OthersKeepInHand
<1>5. CASE run[w].job = j /\ Redeliver(w)
    <2>1. run[w] \in Runs /\ run'[w] = [run[w] EXCEPT !.unacked = FALSE]
        BY <1>5 DEF Redeliver, TypeOK
    <2>2. run'[w].job = run[w].job /\ run'[w].at = run[w].at /\ run'[w].seen = run[w].seen
        BY <2>1 DEF Runs
    <2>3. /\ Carries(w, j) => Carries(w, j)'
          /\ CarriesAnalysis(w, j) => CarriesAnalysis(w, j)'
        BY <2>2 DEF Carries, CarriesAnalysis
    <2>4. QED BY <1>1, <1>2, <1>3, <2>3 DEF InHand, Exists
<1>6. CASE run[w].job = j /\ ChildKilled(w) BY <1>6 DEF Loses
<1>7. CASE run[w].job = j /\ WorkerDown(w)
    <2>1. CASE ~run[w].unacked \/ job[j].status = "AI_ANALYZING" BY <1>7, <2>1 DEF Loses
    <2>2. CASE run[w].unacked /\ job[j].status # "AI_ANALYZING"
        <3>1. ready' = [ready EXCEPT ![j] = ready[j] + 1] /\ ready[j] \in Nat
            BY <1>7, <2>2 DEF WorkerDown, TypeOK
        <3>2. ready'[j] > 0 BY <3>1 DEF TypeOK
        <3>3. QED BY <1>1, <2>2, <3>2 DEF InHand, Exists
    <2>3. QED BY <2>1, <2>2
<1>8. CASE run[w].job = j /\ DatabaseError(w)
    <2>1. CASE run[w].at = "except" \/ job[j].status = "AI_ANALYZING" BY <1>8, <2>1 DEF Loses
    <2>2. CASE run[w].at # "except" /\ job[j].status # "AI_ANALYZING"
        <3>1. Raise(w) BY <1>8, <2>2 DEF DatabaseError
        <3>2. Carries(w, j)' BY <1>8, <3>1, RaiseCarries
        <3>3. QED BY <1>1, <2>2, <3>2 DEF InHand, Exists
    <2>3. QED BY <2>1, <2>2
<1>9. QED BY <1>4, <1>5, <1>6, <1>7, <1>8 DEF Disturbance

\* Every step.
LEMMA StaysInHand ==
    ASSUME TypeOK, Wired, NEW j \in Jobs, InHand(j), Next
    PROVE  InHand(j)' \/ Loses(j)
<1>1. ASSUME NEW k \in Jobs, NEW s, NEW explicit, ~Exists(k),
             job' = [job EXCEPT ![k] = NewJob(s, explicit)],
             unsent' = unsent \cup {k}, UNCHANGED <<ready, run>>
      PROVE  InHand(j)'
    <2>1. CASE k = j
        <3>1. job'[j].status = "QUEUED" BY <1>1, <2>1 DEF NewJob, InitialState, TypeOK
        <3>2. QED BY <1>1, <2>1, <3>1 DEF InHand
    <2>2. CASE k # j
        <3>1. job'[j] = job[j] BY <1>1, <2>2 DEF TypeOK
        <3>2. QED BY <1>1, <3>1, QuietKeepsInHand
    <2>3. QED BY <2>1, <2>2
<1>2. ASSUME NEW r \in Requests, NEW k \in Jobs, DispatchCommit(r, k)
      PROVE  InHand(j)'
    BY <1>1, <1>2 DEF DispatchCommit
<1>3. ASSUME NEW k \in Jobs, NEW s \in Subs, NEW explicit \in BOOLEAN, CreateJob(k, s, explicit)
      PROVE  InHand(j)'
    BY <1>1, <1>3 DEF CreateJob
<1>4. ASSUME NEW k \in Jobs, Enqueue(k)
      PROVE  InHand(j)'
    <2>1. ready[k] \in Nat /\ ready' = [ready EXCEPT ![k] = ready[k] + 1]
          /\ unsent' = unsent \ {k} /\ job' = job /\ run' = run
        BY <1>4 DEF Enqueue, TypeOK, tables
    <2>2. ready'[k] > 0 /\ (k # j => ready'[j] = ready[j]) BY <2>1 DEF TypeOK
    <2>3. QED BY <2>1, <2>2, QuietKeepsInHand
<1>5. ASSUME NEW k \in Jobs, EnqueueFails(k)
      PROVE  InHand(j)' \/ Loses(j)
    <2>1. CASE k = j BY <1>5, <2>1 DEF Loses
    <2>2. CASE k # j BY <1>5, <2>2, QuietKeepsInHand DEF EnqueueFails, tables
    <2>3. QED BY <2>1, <2>2
<1>6. ASSUME \/ \E r \in Requests, s \in Subs, explicit \in BOOLEAN : DispatchCheck(r, s, explicit)
             \/ \E r \in Requests, s \in Subs : OverrideRead(r, s)
             \/ \E r \in Requests : OverrideCommit(r)
      PROVE  InHand(j)'
    <2>1. UNCHANGED <<job, unsent, ready, run>>
        BY <1>6 DEF DispatchCheck, OverrideRead, OverrideCommit, tables, broker
    <2>2. QED BY <2>1, QuietKeepsInHand
<1>7. ASSUME NEW w \in Slots, NEW k \in Jobs, StartTask(w, k)
      PROVE  InHand(j)'
    <2>1. /\ run[w] = Idle /\ ready' = [ready EXCEPT ![k] = ready[k] - 1]
          /\ job' = job /\ unsent' = unsent
          /\ run' = [run EXCEPT ![w] = [Idle EXCEPT !.at = "gate", !.job = k, !.unacked = TRUE]]
        BY <1>7 DEF StartTask, tables
    <2>2. run[w].job # j BY <2>1, ConstantsAssumption DEF Idle
    <2>3. \A v \in Slots : v # w => run'[v] = run[v] BY <2>1 DEF TypeOK
    <2>4. CASE k # j
        <3>1. ready'[j] = ready[j] BY <2>1, <2>4 DEF TypeOK
        <3>2. QED BY <2>1, <2>2, <2>3, <3>1, OthersKeepInHand
    <2>5. CASE k = j /\ job[j].status # "AI_ANALYZING"
        <3>1. run'[w].job = j /\ run'[w].at = "gate" BY <2>1, <2>5 DEF Idle, TypeOK
        <3>2. Carries(w, j)' BY <3>1 DEF Carries
        <3>3. QED BY <2>1, <2>5, <3>2 DEF InHand
    <2>6. CASE job[j].status = "AI_ANALYZING"
        <3>1. \A v \in Slots : CarriesAnalysis(v, j) => CarriesAnalysis(v, j)'
            BY <2>2, <2>3 DEF CarriesAnalysis
        <3>2. QED BY <2>1, <2>6, <3>1 DEF InHand, Exists
    <2>7. QED BY <2>4, <2>5, <2>6
<1>8. CASE Api BY <1>2, <1>3, <1>4, <1>5, <1>6, <1>8 DEF Api
<1>9. QED BY <1>7, <1>8, TaskKeepsInHand, DisturbanceKeepsInHand DEF Next

\* Between its creation and its verdict a job is in somebody's hands, whatever the order
\* in which tasks of it start, overlap, are refused and raise; only a fault loses it.
THEOREM FaultsAloneLoseJobs == Spec => OnlyFaultsLoseJobs
<1> DEFINE Inv == TypeOK /\ Wired
<1>1. Init => Inv BY TypeInit
<1>2. Inv /\ [Next]_vars => Inv' BY TypeStep DEF vars
<1>3. Inv /\ [Next]_vars => [\A j \in Jobs : InHand(j) => InHand(j)' \/ Loses(j)]_vars
    BY StaysInHand
<1>4. QED BY <1>1, <1>2, <1>3, PTL DEF Spec, OnlyFaultsLoseJobs
----------------------------------------------------------------------------
(* Grades and deliveries *)

\* Between its first commit and its last one.
Working == Steps \ {"idle", "gate", "except", "ack"}

\* The task in slot w may still grade job j, or its message may come back and let
\* another one do so: it is past the gate, about to pass it, or the job is not started.
Live(w, j) ==
    /\ run[w].job = j
    /\ \/ job[j].status = "QUEUED" \/ run[w].at \in Working
       \/ run[w].at = "gate" /\ run[w].seen = "QUEUED"

LiveTasks(j) == {w \in Slots : Live(w, j)}

\* Messages that will find the job not started.
Waiting(j) ==
    IF job[j].status = "QUEUED" THEN ready[j] + (IF j \in unsent THEN 1 ELSE 0) ELSE 0

\* The grades a job has and those it may still get.  A crash gives the message back but
\* takes the task, so only handing out a message twice adds to them.
Tokens(j) == Cardinality(GradesOf(j)) + Cardinality(LiveTasks(j)) + Waiting(j)

GradeTokens ==
    \A j \in Jobs :
        /\ Tokens(j) <= 1 + redelivered[j]
        /\ ~Exists(j) => GradesOf(j) = {}

\* Counting a subset, one without an element of the set, and one with another element.
LEMMA Counting ==
    ASSUME NEW S, IsFiniteSet(S), NEW T, NEW x
    PROVE  /\ Cardinality(S) \in Nat
           /\ T \subseteq S => Cardinality(T) \in Nat /\ Cardinality(T) <= Cardinality(S)
           /\ T \subseteq S \ {x} /\ x \in S =>
                  Cardinality(T) \in Nat /\ Cardinality(T) + 1 <= Cardinality(S)
           /\ T \subseteq S \cup {x} =>
                  Cardinality(T) \in Nat /\ Cardinality(T) <= Cardinality(S) + 1
<1>1. Cardinality(S) \in Nat BY FS_CardinalityType
<1>2. ASSUME NEW R, IsFiniteSet(R), T \subseteq R
      PROVE  Cardinality(T) \in Nat /\ Cardinality(T) <= Cardinality(R)
    BY <1>2, FS_Subset, FS_CardinalityType
<1>3. IsFiniteSet(S \ {x}) /\ (x \in S => Cardinality(S \ {x}) = Cardinality(S) - 1)
    BY FS_RemoveElement
<1>4. IsFiniteSet(S \cup {x}) /\ Cardinality(S \cup {x}) \in {Cardinality(S), Cardinality(S) + 1}
    BY FS_AddElement
<1>5. T \subseteq S \ {x} /\ x \in S =>
          Cardinality(T) \in Nat /\ Cardinality(T) + 1 <= Cardinality(S)
    BY <1>1, <1>2, <1>3
<1>6. T \subseteq S \cup {x} =>
          Cardinality(T) \in Nat /\ Cardinality(T) <= Cardinality(S) + 1
    <2>1. ASSUME T \subseteq S \cup {x}
          PROVE  Cardinality(T) \in Nat /\ Cardinality(T) <= Cardinality(S \cup {x})
        BY <1>2, <1>4, <2>1
    <2>2. QED BY <1>1, <1>4, <2>1
<1>7. QED BY <1>1, <1>2, <1>5, <1>6

\* The grade rows of a job, and their number, are finite.
LEMMA GradesAreFinite ==
    ASSUME TypeOK, NEW j \in Jobs
    PROVE  IsFiniteSet(GradesOf(j)) /\ Len(grades) + 1 \notin GradesOf(j)
<1>1. Len(grades) \in Nat /\ DOMAIN grades = 1 .. Len(grades) BY DEF TypeOK
<1>2. IsFiniteSet(1 .. Len(grades)) BY <1>1, FS_Interval
<1>3. GradesOf(j) \subseteq 1 .. Len(grades) BY <1>1 DEF GradesOf
<1>4. QED BY <1>1, <1>2, <1>3, FS_Subset

\* A committed grade is one more for its job and none for the others.
LEMMA GradesCommitted ==
    ASSUME TypeOK, NEW captured, NEW row \in GradeRows, grades' = CommitGrade(captured, row),
           NEW j \in Jobs
    PROVE  GradesOf(j)' = IF row.job = j THEN GradesOf(j) \cup {Len(grades) + 1} ELSE GradesOf(j)
<1>1. /\ Len(grades) \in Nat
      /\ DOMAIN grades = 1 .. Len(grades) /\ DOMAIN grades' = 1 .. Len(grades) + 1
      /\ grades'[Len(grades) + 1] = row
      /\ \A g \in DOMAIN grades : grades'[g].job = grades[g].job
    BY CommitGradeRows
<1>2. DOMAIN grades' = DOMAIN grades \cup {Len(grades) + 1} BY <1>1
<1>3. QED BY <1>1, <1>2 DEF GradesOf

\* A task passes the gate only with a QUEUED job.
LEMMA GatePassed ==
    ASSUME NEW s \in JobStates, CanTransition(s, "EXECUTING_RAW")
    PROVE  s = "QUEUED"
    BY DEF JobStates, CanTransition, AllowedTransitions

\* A task commits its job's grade once, and makes no task of the job live.
LEMMA TaskSpends ==
    ASSUME TypeOK, Wired, NEW w \in Slots, NEW j \in Jobs, run[w].job = j, Task(w)
    PROVE  /\ job'[j].status = "QUEUED" => job[j].status = "QUEUED"
           /\ Live(w, j)' => Live(w, j)
           /\ Finish(w) => Live(w, j) /\ ~Live(w, j)'
           /\ ~Finish(w) => UNCHANGED grades
<1>1. run[w].at # "idle" /\ run[w] \in Runs BY TaskTouchesItsJob DEF TypeOK
<1>2. job[j] \in JobRows BY <1>1 DEF TypeOK, Wired, Exists
<1>3. ASSUME NEW task \in {"except", "ack"}, run'[w].at = task, job'[j].status \in {job[j].status, "FAILED"}
      PROVE  /\ job'[j].status = "QUEUED" => job[j].status = "QUEUED"
             /\ Live(w, j)' => Live(w, j)
    BY <1>3 DEF Live, Working
<1>4. CASE ReadJob(w)
    <2>1. run'[w] = [run[w] EXCEPT !.seen = job[j].status, !.count = job[j].attemptCount]
          /\ job' = job /\ grades' = grades
        BY <1>4 DEF ReadJob, tables, TypeOK
    <2>2. run'[w].seen = job[j].status /\ run'[w].at = run[w].at /\ run'[w].job = j
        BY <1>1, <2>1 DEF Runs
    <2>3. ~Finish(w) BY <1>4 DEF ReadJob, ReadSteps, Finish
    <2>4. QED BY <2>1, <2>2, <2>3 DEF Live
<1>5. CASE InvalidTransition(w) \/ ServiceError(w)
    <2>1. Raise(w) /\ UNCHANGED <<job, grades>> BY <1>5 DEF InvalidTransition, ServiceError, tables
    <2>2. run'[w].at = "except" BY <2>1, WhereTo
    <2>3. ~Finish(w) BY <1>5 DEF InvalidTransition, ServiceError, InTransaction, MayMove, Finish
    <2>4. QED BY <1>3, <2>1, <2>2, <2>3
<1>6. CASE ConfigError(w) \/ StartExecuting(w)
    <2>1. run[w].at = "gate" /\ run[w].seen # None /\ CanTransition(run[w].seen, "EXECUTING_RAW")
        BY <1>6 DEF ConfigError, StartExecuting, MayMove, InTransaction, Target
    <2>2. run[w].seen = "QUEUED" BY <1>1, <2>1, GatePassed DEF Runs
    <2>3. Live(w, j) BY <2>1, <2>2 DEF Live
    <2>4. UNCHANGED grades /\ job'[j].status \in {job[j].status, "EXECUTING_RAW"}
        <3>1. CASE StartExecuting(w)
            BY <1>2, <3>1, StatusWritten DEF StartExecuting, CommitStatus
        <3>2. CASE ConfigError(w) /\ UNCHANGED job
            BY <3>2 DEF ConfigError, RecordAttempt
        <3>3. CASE ConfigError(w) /\ ~UNCHANGED job
            <4>1. PICK n : job' = [job EXCEPT ![j] = [@ EXCEPT !.attemptCount = n,
                                                               !.status = "EXECUTING_RAW"]]
                BY <3>3 DEF ConfigError, RecordAttempt
            <4>2. QED BY <1>2, <3>3, <4>1, StatusWritten DEF ConfigError, RecordAttempt
        <3>4. QED BY <1>6, <3>1, <3>2, <3>3
    <2>5. ~Finish(w) BY <2>1 DEF Finish
    <2>6. QED BY <2>3, <2>4, <2>5
<1>7. CASE RecordBlocked(w) \/ RecordRaw(w) \/ RecordShim(w)
    <2>1. run[w].at \in Working /\ ~Finish(w)
        BY <1>7 DEF RecordBlocked, RecordRaw, RecordShim, InTransaction, Working, Steps, Finish
    <2>2. UNCHANGED grades /\ job'[j].status = job[j].status
        <3>1. PICK stage, next : RecordAttempt(w, stage, job[j].status, next)
            BY <1>7 DEF RecordBlocked, RecordRaw, RecordShim
        <3>2. CASE UNCHANGED job BY <3>1, <3>2 DEF RecordAttempt
        <3>3. CASE ~UNCHANGED job
            <4>1. PICK n : job' = [job EXCEPT ![j] = [@ EXCEPT !.attemptCount = n,
                                                               !.status = job[j].status]]
                BY <3>1, <3>3 DEF RecordAttempt
            <4>2. QED BY <1>2, <3>1, <4>1 DEF RecordAttempt, TypeOK, JobRows
        <3>4. QED BY <3>2, <3>3
    <2>3. QED BY <2>1, <2>2 DEF Live
<1>8. CASE ToAnalyzing(w) \/ ToRetrying(w) \/ Reject(w)
    <2>1. run[w].at \in Working /\ ~Finish(w)
        BY <1>8 DEF ToAnalyzing, ToRetrying, Reject, MayMove, InTransaction, Working, Steps, Finish
    <2>2. PICK status, next : /\ status \in {"AI_ANALYZING", "RETRYING_SHIM", "FAILED"}
                              /\ CommitStatus(w, status, next)
        BY <1>8 DEF ToAnalyzing, ToRetrying, Reject
    <2>3. UNCHANGED grades /\ job'[j].status = status
        BY <1>2, <2>2, StatusWritten DEF CommitStatus
    <2>4. status # "QUEUED" BY <2>2
    <2>5. QED BY <2>1, <2>3, <2>4 DEF Live
<1>9. CASE RunRaw(w) \/ RunShim(w) \/ Analyze(w) \/ Finalize(w) \/ WriteGrade(w)
    <2>1. run[w].at \in Working /\ ~Finish(w)
        BY <1>9 DEF RunRaw, RunShim, Execute, Analyze, Finalize, WriteGrade, MayMove,
                    InTransaction, Working, Steps, Finish
    <2>2. UNCHANGED <<grades, job>>
        BY <1>9 DEF RunRaw, RunShim, Execute, Analyze, Finalize, WriteGrade, tables
    <2>3. QED BY <2>1, <2>2 DEF Live
<1>10. CASE Finish(w)
    <2>1. run[w].at = "finish" /\ job' = [job EXCEPT ![j] = Closed(@, Verdict(w), Len(grades) + 1)]
        BY <1>10 DEF Finish
    <2>2. job'[j].status \in Terminal BY <1>2, <2>1, StatusWritten DEF Verdict, Terminal
    <2>3. run'[w].at = "ack" BY <1>10 DEF Finish, Idle, TypeOK
    <2>4. QED BY <1>10, <2>1, <2>2, <2>3 DEF Live, Working, Steps, Terminal
<1>11. CASE GiveUp(w)
    <2>1. run'[w].at = "ack" /\ ~Finish(w) /\ UNCHANGED grades
        BY <1>11, WhereTo DEF GiveUp, InTransaction, Finish
    <2>2. job'[j].status \in {job[j].status, "FAILED"}
        BY <1>2, <1>11, StatusWritten DEF GiveUp
    <2>3. QED BY <1>3, <2>1, <2>2
<1>12. CASE Ack(w)
    <2>1. run'[w] = Idle /\ UNCHANGED <<job, grades>> /\ ~Finish(w)
        BY <1>12 DEF Ack, tables, TypeOK, Finish
    <2>2. ~Live(w, j)' BY <2>1, ConstantsAssumption DEF Live, Idle
    <2>3. QED BY <2>1, <2>2
<1>13. QED
    BY <1>4, <1>5, <1>6, <1>7, <1>8, <1>9, <1>10, <1>11, <1>12 DEF Task

\* What a step leaves of the tokens of a job: its grades, its live tasks and its waiting
\* messages are none more than before, in all, than its deliveries.
LEMMA TokenStep ==
    ASSUME TypeOK, Wired, GradeTokens, NEW j \in Jobs, Next
    PROVE  Tokens(j)' <= 1 + redelivered'[j] /\ (~Exists(j)' => GradesOf(j)' = {})
<1> DEFINE G == Cardinality(GradesOf(j))
<1> DEFINE L == Cardinality(LiveTasks(j))
<1> DEFINE Goal == Tokens(j)' <= 1 + redelivered'[j] /\ (~Exists(j)' => GradesOf(j)' = {})
<1>1. IsFiniteSet(GradesOf(j)) /\ IsFiniteSet(LiveTasks(j))
    <2>1. LiveTasks(j) \subseteq Slots BY DEF LiveTasks
    <2>2. QED BY <2>1, GradesAreFinite, FS_Subset, ConstantsAssumption
<1>2. G \in Nat /\ L \in Nat BY <1>1, FS_CardinalityType
<1>3. ready[j] \in Nat /\ redelivered[j] \in Nat /\ Waiting(j) \in Nat
    BY DEF TypeOK, Waiting
<1>4. ready'[j] \in Nat /\ redelivered'[j] \in Nat
    BY TypeStep DEF TypeOK
<1>5. G + L + Waiting(j) <= 1 + redelivered[j] BY DEF GradeTokens, Tokens
<1>6. Exists(j) => Exists(j)' BY TablesType
<1>7. Waiting(j)' \in Nat BY <1>4 DEF Waiting
<1>8. ASSUME GradesOf(j)' = GradesOf(j), LiveTasks(j)' \subseteq LiveTasks(j),
             Waiting(j)' <= Waiting(j), redelivered'[j] >= redelivered[j]
      PROVE  Goal
    <2>1. Cardinality(LiveTasks(j)') \in Nat /\ Cardinality(LiveTasks(j)') <= L
        BY <1>1, <1>8, Counting
    <2>2. G + Cardinality(LiveTasks(j)') + Waiting(j)' <= 1 + redelivered'[j]
        BY <1>2, <1>3, <1>4, <1>5, <1>7, <1>8, <2>1
    <2>3. Tokens(j)' <= 1 + redelivered'[j] BY <1>8, <2>2 DEF Tokens
    <2>4. QED BY <1>6, <1>8, <2>3 DEF GradeTokens
<1>9. UNCHANGED grades => GradesOf(j)' = GradesOf(j) BY DEF GradesOf
<1>10. ASSUME UNCHANGED <<job, run>> PROVE LiveTasks(j)' = LiveTasks(j)
    BY <1>10 DEF LiveTasks, Live
<1>11. ASSUME UNCHANGED <<job, unsent, ready>> PROVE Waiting(j)' = Waiting(j)
    BY <1>11 DEF Waiting
<1>12. ASSUME NEW k \in Jobs, NEW s, NEW explicit, ~Exists(k),
              job' = [job EXCEPT ![k] = NewJob(s, explicit)],
              unsent' = unsent \cup {k}, UNCHANGED <<grades, ready, redelivered, run>>
       PROVE  Goal
    <2>1. CASE k = j
        <3>1. GradesOf(j)' = {} BY <1>9, <1>12, <2>1 DEF GradeTokens
        <3>2. LiveTasks(j)' = {}
            <4>1. \A w \in Slots : run[w].job # j
                BY <1>12, <2>1, ConstantsAssumption DEF Wired, Idle
            <4>2. QED BY <1>12, <4>1 DEF LiveTasks, Live
        <3>3. ready'[j] = 0 BY <1>3, <1>12, <2>1 DEF Wired
        <3>4. Waiting(j)' <= 1 BY <3>3 DEF Waiting
        <3>5. Tokens(j)' = Cardinality({}) + Cardinality({}) + Waiting(j)'
            BY <3>1, <3>2 DEF Tokens
        <3>6. Tokens(j)' <= 1 + redelivered'[j] BY <1>4, <1>7, <3>4, <3>5, FS_EmptySet
        <3>7. QED BY <3>1, <3>6
    <2>2. CASE k # j
        <3>1. job'[j] = job[j] BY <1>12, <2>2 DEF TypeOK
        <3>2. LiveTasks(j)' = LiveTasks(j) BY <1>12, <3>1 DEF LiveTasks, Live
        <3>3. Waiting(j)' = Waiting(j) BY <1>12, <2>2, <3>1 DEF Waiting
        <3>4. QED BY <1>3, <1>8, <1>9, <1>12, <3>2, <3>3
    <2>3. QED BY <2>1, <2>2
<1>13. ASSUME NEW k \in Jobs, Enqueue(k) \/ EnqueueFails(k)
       PROVE  Goal
    <2>1. UNCHANGED <<tables, redelivered, run>> /\ k \in unsent /\ unsent' = unsent \ {k}
          /\ (UNCHANGED ready \/ ready' = [ready EXCEPT ![k] = @ + 1])
        BY <1>13 DEF Enqueue, EnqueueFails, tables
    <2>2. Waiting(j)' <= Waiting(j)
        <3>1. CASE k # j
            <4>1. ready'[j] = ready[j] BY <2>1, <3>1 DEF TypeOK
            <4>2. Waiting(j)' = Waiting(j) BY <2>1, <3>1, <4>1 DEF Waiting, tables
            <4>3. QED BY <1>3, <4>2
        <3>2. CASE k = j
            <4>1. ready'[j] <= ready[j] + 1 BY <1>3, <2>1, <3>2 DEF TypeOK
            <4>2. j \in unsent /\ j \notin unsent' /\ job' = job BY <2>1, <3>2 DEF tables
            <4>3. QED BY <1>3, <1>4, <4>1, <4>2 DEF Waiting
        <3>3. QED BY <3>1, <3>2
    <2>3. QED BY <1>3, <1>8, <1>9, <1>10, <2>1, <2>2 DEF tables
<1>14. ASSUME \/ \E r \in Requests, s \in Subs, explicit \in BOOLEAN : DispatchCheck(r, s, explicit)
              \/ \E r \in Requests, s \in Subs : OverrideRead(r, s)
       PROVE  Goal
    <2>1. UNCHANGED <<tables, broker, run>> BY <1>14 DEF DispatchCheck, OverrideRead
    <2>2. QED BY <1>3, <1>8, <1>9, <1>10, <1>11, <2>1 DEF tables, broker
<1>15. ASSUME NEW r \in Requests, OverrideCommit(r)
       PROVE  Goal
    <2> DEFINE row == [sub |-> request[r].sub, source |-> "ta_manual", job |-> None,
                       active |-> TRUE]
    <2>1. request[r].sub \in Subs BY <1>15 DEF OverrideCommit, Wired
    <2>2. row \in GradeRows /\ row.job # j
        BY <2>1, ConstantsAssumption DEF GradeRows, Sources
    <2>3. grades' = CommitGrade(request[r].captured, row) BY <1>15 DEF OverrideCommit
    <2>4. GradesOf(j)' = GradesOf(j) BY <2>2, <2>3, GradesCommitted
    <2>5. UNCHANGED <<job, broker, run>> BY <1>15 DEF OverrideCommit
    <2>6. QED BY <1>3, <1>8, <1>10, <1>11, <2>4, <2>5 DEF broker
<1>16. ASSUME NEW w \in Slots, NEW k \in Jobs, StartTask(w, k)
       PROVE  Goal
    <2> DEFINE task == [Idle EXCEPT !.at = "gate", !.job = k, !.unacked = TRUE]
    <2>1. /\ UNCHANGED <<tables, unsent, redelivered>> /\ run[w] = Idle
          /\ ready[k] > 0 /\ ready' = [ready EXCEPT ![k] = @ - 1]
          /\ run' = [run EXCEPT ![w] = task]
        BY <1>16 DEF StartTask
    <2>2. run'[w] = task /\ \A v \in Slots : v # w => run'[v] = run[v] BY <2>1 DEF TypeOK
    <2>3. task.job = k /\ task.at = "gate" /\ task.seen = None BY DEF Idle
    <2>4. LiveTasks(j)' \subseteq LiveTasks(j) \cup {w}
        BY <2>1, <2>2 DEF LiveTasks, Live, tables
    <2>5. CASE k # j
        <3>1. ~Live(w, j)' BY <2>2, <2>3, <2>5 DEF Live
        <3>2. LiveTasks(j)' \subseteq LiveTasks(j) BY <2>4, <3>1 DEF LiveTasks
        <3>3. ready'[j] = ready[j] BY <2>1, <2>5 DEF TypeOK
        <3>4. Waiting(j)' = Waiting(j) BY <2>1, <3>3 DEF Waiting, tables
        <3>5. QED BY <1>3, <1>8, <1>9, <2>1, <3>2, <3>4 DEF tables
    <2>6. CASE k = j /\ job[j].status # "QUEUED"
        <3>1. ~Live(w, j)'
            BY <2>1, <2>2, <2>3, <2>6, ConstantsAssumption DEF Live, Working, tables, JobStates
        <3>2. LiveTasks(j)' \subseteq LiveTasks(j) BY <2>4, <3>1 DEF LiveTasks
        <3>3. Waiting(j)' = 0 BY <2>1, <2>6 DEF Waiting, tables
        <3>4. QED BY <1>3, <1>8, <1>9, <2>1, <3>2, <3>3 DEF tables
    <2>7. CASE k = j /\ job[j].status = "QUEUED"
        <3>1. ready'[j] = ready[j] - 1 BY <2>1, <2>7 DEF TypeOK
        <3>2. Waiting(j)' + 1 = Waiting(j) BY <1>3, <2>1, <2>7, <3>1 DEF Waiting, tables
        <3>3. Cardinality(LiveTasks(j)') \in Nat /\ Cardinality(LiveTasks(j)') <= L + 1
            BY <1>1, <2>4, Counting
        <3>4. GradesOf(j)' = GradesOf(j) /\ redelivered'[j] = redelivered[j]
            BY <1>9, <2>1 DEF tables
        <3>5. G + Cardinality(LiveTasks(j)') + Waiting(j)' <= 1 + redelivered[j]
            BY <1>2, <1>3, <1>5, <1>7, <3>2, <3>3
        <3>6. Tokens(j)' <= 1 + redelivered'[j] BY <3>4, <3>5 DEF Tokens
        <3>7. QED BY <1>6, <3>4, <3>6 DEF GradeTokens
    <2>8. QED BY <2>5, <2>6, <2>7
<1>17. ASSUME NEW w \in Slots, Task(w)
       PROVE  Goal
    <2>1. /\ UNCHANGED broker
          /\ \A k \in Jobs : k # run[w].job => job'[k] = job[k]
          /\ \A v \in Slots : v # w => run'[v] = run[v]
        BY <1>17, TaskTouchesItsJob
    <2>2. UNCHANGED <<unsent, ready, redelivered>> BY <2>1 DEF broker
    <2>3. UNCHANGED grades \/ Finish(w)
        BY <1>17 DEF Task, ReadJob, InvalidTransition, ConfigError, StartExecuting, RecordBlocked,
            Reject, RunRaw, RecordRaw, Analyze, ToAnalyzing, ToRetrying, RunShim, RecordShim,
            Finalize, WriteGrade, ServiceError, GiveUp, Ack, RecordAttempt, CommitStatus, Execute,
            tables
    <2>4. Finish(w) => GradesOf(j)' = IF run[w].job = j THEN GradesOf(j) \cup {Len(grades) + 1}
                                                       ELSE GradesOf(j)
        <3> SUFFICES ASSUME Finish(w)
                     PROVE  GradesOf(j)' = IF run[w].job = j THEN GradesOf(j) \cup {Len(grades) + 1}
                                                             ELSE GradesOf(j)
            OBVIOUS
        <3> DEFINE row == [sub |-> job[run[w].job].sub, source |-> "code_eval",
                           job |-> run[w].job, active |-> TRUE]
        <3>1. run[w].job \in Jobs /\ job[run[w].job] \in JobRows
            BY DEF Finish, TypeOK, Wired, Exists
        <3>2. row \in GradeRows /\ row.job = run[w].job
            BY <3>1, JobRowFields DEF GradeRows, Sources
        <3>3. grades' = CommitGrade(run[w].captured, row) BY DEF Finish
        <3>4. QED BY <3>2, <3>3, GradesCommitted
    <2>5. CASE run[w].job # j
        <3>1. job'[j] = job[j] BY <2>1, <2>5
        <3>2. run'[w].job # j
            BY <1>17, <2>5, TaskContinues, ConstantsAssumption DEF Continues, Idle, TypeOK
        <3>3. LiveTasks(j)' \subseteq LiveTasks(j) BY <2>1, <3>1, <3>2 DEF LiveTasks, Live
        <3>4. Waiting(j)' = Waiting(j) BY <2>2, <3>1 DEF Waiting
        <3>5. GradesOf(j)' = GradesOf(j) BY <1>9, <2>3, <2>4, <2>5
        <3>6. QED BY <1>3, <1>8, <2>2, <3>3, <3>4, <3>5
    <2>6. CASE run[w].job = j
        <3>1. /\ job'[j].status = "QUEUED" => job[j].status = "QUEUED"
              /\ Live(w, j)' => Live(w, j)
              /\ Finish(w) => Live(w, j) /\ ~Live(w, j)'
            BY <1>17, <2>6, TaskSpends
        <3>2. LiveTasks(j)' \subseteq LiveTasks(j) BY <2>1, <3>1 DEF LiveTasks, Live
        <3>3. Waiting(j)' <= Waiting(j) BY <1>3, <2>2, <3>1 DEF Waiting
        <3>4. CASE UNCHANGED grades BY <1>3, <1>8, <1>9, <2>2, <3>2, <3>3, <3>4
        <3>5. CASE Finish(w)
            <4>1. w \in LiveTasks(j) /\ LiveTasks(j)' \subseteq LiveTasks(j) \ {w}
                BY <3>1, <3>2, <3>5 DEF LiveTasks
            <4>2. Cardinality(LiveTasks(j)') \in Nat /\ Cardinality(LiveTasks(j)') + 1 <= L
                BY <1>1, <4>1, Counting
            <4>3. Cardinality(GradesOf(j)') = G + 1
                BY <1>1, <2>4, <2>6, <3>5, GradesAreFinite, FS_AddElement
            <4>4. G + 1 + Cardinality(LiveTasks(j)') + Waiting(j)' <= 1 + redelivered[j]
                BY <1>2, <1>3, <1>5, <1>7, <3>3, <4>2
            <4>5. Tokens(j)' <= 1 + redelivered'[j] BY <2>2, <4>3, <4>4 DEF Tokens
            <4>6. Exists(j) BY <2>6, <3>5 DEF Finish, Wired
            <4>7. QED BY <1>6, <4>5, <4>6
        <3>6. QED BY <2>3, <3>4, <3>5
    <2>7. QED BY <2>5, <2>6
<1>18. ASSUME NEW w \in Slots, Disturbance(w)
       PROVE  Goal
    <2>1. UNCHANGED <<tables, unsent>> /\ \A v \in Slots : v # w => run'[v] = run[v]
        BY <1>18 DEF Disturbance, Redeliver, WorkerDown, ChildKilled, DatabaseError, GoTo, Raise,
                     tables, broker, TypeOK
    <2>2. GradesOf(j)' = GradesOf(j) BY <1>9, <2>1 DEF tables
    <2>3. CASE Redeliver(w)
        <3>1. run[w] \in Runs /\ run'[w] = [run[w] EXCEPT !.unacked = FALSE]
            BY <2>3 DEF Redeliver, TypeOK
        <3>2. run'[w].job = run[w].job /\ run'[w].at = run[w].at /\ run'[w].seen = run[w].seen
            BY <3>1 DEF Runs
        <3>3. LiveTasks(j)' = LiveTasks(j) BY <2>1, <3>2 DEF LiveTasks, Live, tables
        <3>4. CASE run[w].job # j
            <4>1. ready'[j] = ready[j] /\ redelivered'[j] = redelivered[j]
                BY <2>3, <3>4 DEF Redeliver, TypeOK
            <4>2. Waiting(j)' = Waiting(j) BY <2>1, <4>1 DEF Waiting, tables
            <4>3. QED BY <1>3, <1>8, <2>2, <3>3, <4>1, <4>2
        <3>5. CASE run[w].job = j
            <4>1. ready'[j] = ready[j] + 1 /\ redelivered'[j] = redelivered[j] + 1
                BY <2>3, <3>5 DEF Redeliver, TypeOK
            <4>2. Waiting(j)' <= Waiting(j) + 1 BY <1>3, <2>1, <4>1 DEF Waiting, tables
            <4>3. Tokens(j)' = G + L + Waiting(j)' BY <2>2, <3>3 DEF Tokens
            <4>4. Tokens(j)' <= 1 + redelivered'[j]
                BY <1>2, <1>3, <1>5, <1>7, <4>1, <4>2, <4>3
            <4>5. QED BY <1>6, <2>2, <4>4 DEF GradeTokens
        <3>6. QED BY <3>4, <3>5
    <2>4. CASE WorkerDown(w) \/ ChildKilled(w)
        <3>1. run'[w] = Idle /\ redelivered' = redelivered
            BY <2>4 DEF WorkerDown, ChildKilled, TypeOK, broker
        <3>2. ~Live(w, j)' BY <3>1, ConstantsAssumption DEF Live, Idle
        <3>3. LiveTasks(j)' \subseteq LiveTasks(j) \ {w}
            BY <2>1, <3>2 DEF LiveTasks, Live, tables
        <3>4. CASE ready'[j] = ready[j]
            <4>1. Waiting(j)' = Waiting(j) BY <2>1, <3>4 DEF Waiting, tables
            <4>2. QED BY <1>3, <1>8, <2>2, <3>1, <3>3, <4>1
        <3>5. CASE ready'[j] # ready[j]
            <4>1. run[w].job = j /\ ready'[j] = ready[j] + 1
                BY <2>4, <3>5 DEF WorkerDown, ChildKilled, broker, TypeOK
            <4>2. CASE job[j].status # "QUEUED"
                <5>1. Waiting(j)' = 0 BY <2>1, <4>2 DEF Waiting, tables
                <5>2. QED BY <1>3, <1>8, <2>2, <3>1, <3>3, <5>1
            <4>3. CASE job[j].status = "QUEUED"
                <5>1. w \in LiveTasks(j) BY <4>1, <4>3 DEF LiveTasks, Live
                <5>2. Cardinality(LiveTasks(j)') \in Nat /\ Cardinality(LiveTasks(j)') + 1 <= L
                    BY <1>1, <3>3, <5>1, Counting
                <5>3. Waiting(j)' = Waiting(j) + 1 BY <1>3, <2>1, <4>1, <4>3 DEF Waiting, tables
                <5>4. G + Cardinality(LiveTasks(j)') + Waiting(j)' <= 1 + redelivered[j]
                    BY <1>2, <1>3, <1>5, <5>2, <5>3
                <5>5. Tokens(j)' <= 1 + redelivered'[j] BY <2>2, <3>1, <5>4 DEF Tokens
                <5>6. QED BY <1>6, <2>2, <5>5 DEF GradeTokens
            <4>4. QED BY <4>2, <4>3
        <3>6. QED BY <3>4, <3>5
    <2>5. CASE DatabaseError(w)
        <3>1. GoTo(w, "ack") \/ Raise(w) BY <2>5 DEF DatabaseError
        <3>2. run'[w].at \in {"ack", "except"} /\ run'[w].job = run[w].job
            <4>1. run[w].at # "idle" BY <2>5 DEF DatabaseError, ReadSteps
            <4>2. run'[w].job = run[w].job
                BY <3>1, <4>1, GoToContinues, RaiseContinues DEF Continues, TypeOK, Steps
            <4>3. QED BY <3>1, <4>2, WhereTo
        <3>3. Live(w, j)' => Live(w, j) BY <2>1, <3>2 DEF Live, Working, tables
        <3>4. LiveTasks(j)' \subseteq LiveTasks(j) BY <2>1, <3>3 DEF LiveTasks, Live, tables
        <3>5. UNCHANGED broker BY <2>5 DEF DatabaseError
        <3>6. Waiting(j)' = Waiting(j) BY <1>11, <2>1, <3>5 DEF tables, broker
        <3>7. QED BY <1>3, <1>8, <2>2, <3>4, <3>5, <3>6 DEF broker
    <2>6. QED BY <1>18, <2>3, <2>4, <2>5 DEF Disturbance
<1>19. CASE Api
    <2>1. ASSUME NEW r \in Requests, NEW k \in Jobs, DispatchCommit(r, k) PROVE Goal
        BY <1>12, <2>1 DEF DispatchCommit
    <2>2. ASSUME NEW k \in Jobs, NEW s \in Subs, NEW explicit \in BOOLEAN,
                 CreateJob(k, s, explicit)
          PROVE  Goal
        BY <1>12, <2>2 DEF CreateJob
    <2>3. QED BY <1>13, <1>14, <1>15, <1>19, <2>1, <2>2 DEF Api
<1>20. QED BY <1>16, <1>17, <1>18, <1>19 DEF Next

\* A job has at most one grade for its first delivery and one for each time the broker
\* handed its message out again, through crashes, raised calls and concurrent jobs.
THEOREM GradesNeedDeliveries == Spec => []GradesPerDelivery
<1> DEFINE Inv == TypeOK /\ Wired /\ GradeTokens
<1>1. Init => Inv
    <2>1. ASSUME Init, NEW j \in Jobs
          PROVE  Tokens(j) <= 1 + redelivered[j] /\ GradesOf(j) = {}
        <3>1. GradesOf(j) = {} /\ redelivered[j] = 0 BY <2>1 DEF Init, GradesOf
        <3>2. LiveTasks(j) = {} BY <2>1, ConstantsAssumption DEF Init, LiveTasks, Live, Idle
        <3>3. Waiting(j) = 0 BY <2>1, ConstantsAssumption DEF Init, Waiting
        <3>4. QED BY <3>1, <3>2, <3>3, FS_EmptySet DEF Tokens
    <2>2. QED BY <2>1, TypeInit DEF GradeTokens
<1>2. Inv /\ [Next]_vars => Inv'
    <2>1. ASSUME Inv, UNCHANGED vars PROVE GradeTokens'
        BY <2>1 DEF vars, GradeTokens, Tokens, GradesOf, LiveTasks, Live, Waiting, Exists
    <2>2. ASSUME Inv, Next PROVE GradeTokens'
        BY <2>2, TokenStep DEF GradeTokens
    <2>3. QED BY <2>1, <2>2, TypeStep
<1>3. Inv => GradesPerDelivery
    <2>1. ASSUME Inv, NEW j \in Jobs PROVE Cardinality(GradesOf(j)) <= 1 + redelivered[j]
        <3>1. LiveTasks(j) \subseteq Slots BY DEF LiveTasks
        <3>2. Cardinality(LiveTasks(j)) \in Nat
            BY <3>1, ConstantsAssumption, FS_Subset, FS_CardinalityType
        <3>3. Cardinality(GradesOf(j)) \in Nat
            BY <2>1, GradesAreFinite, FS_CardinalityType
        <3>4. Waiting(j) \in Nat /\ redelivered[j] \in Nat BY <2>1 DEF Waiting, TypeOK
        <3>5. QED BY <2>1, <3>2, <3>3, <3>4 DEF GradeTokens, Tokens
    <2>2. QED BY <2>1 DEF GradesPerDelivery
<1>4. QED BY <1>1, <1>2, <1>3, PTL DEF Spec
=============================================================================
