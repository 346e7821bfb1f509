------------------------ MODULE SingleDeliveryProofs ------------------------
(***************************************************************************)
(* What holds of CodeEvalJob when the broker hands no job out while a task *)
(* still has it (MaxRedeliveries = 0, the premise of every theorem here):  *)
(* no job is graded twice, and JobLifecycle is implemented.  Crashes,      *)
(* killed children, failing services and TAs are still all there; TLC      *)
(* refutes both with redelivery.                                           *)
(*                                                                         *)
(* The argument: at any time one message or one task, never two, speaks    *)
(* for a job, so what a task has read of its job is still true.            *)
(***************************************************************************)
EXTENDS CodeEvalJobProofs

----------------------------------------------------------------------------
(* The lifecycle table *)

\* Reachable contains the table and what the table leads to from there.
LEMMA ReachableByHops ==
    ASSUME NEW s \in JobStates, NEW t \in JobStates, CanTransition(s, t)
    PROVE  t \in Reachable[s] /\ \A u \in JobStates : CanTransition(t, u) => u \in Reachable[s]
<1>1. ASSUME NEW set \in SUBSET JobStates, AllowedTransitions[s] \subseteq set,
             ClosedUnderTable(set)
      PROVE  t \in set /\ \A u \in JobStates : CanTransition(t, u) => u \in set
    BY <1>1 DEF CanTransition, ClosedUnderTable
<1>2. QED BY <1>1 DEF Reachable

\* Longer walks: the table can be left out hop by hop.
LEMMA ReachableIsClosed ==
    ASSUME NEW s \in JobStates, NEW t \in Reachable[s], NEW u \in JobStates,
           CanTransition(t, u)
    PROVE  u \in Reachable[s]
<1>1. t \in JobStates BY DEF Reachable
<1>2. ASSUME NEW set \in SUBSET JobStates, AllowedTransitions[s] \subseteq set,
             ClosedUnderTable(set)
      PROVE  u \in set
    BY <1>1, <1>2 DEF Reachable, CanTransition, ClosedUnderTable
<1>3. QED BY <1>2 DEF Reachable

\* Nothing is reached from a terminal state.
LEMMA TerminalIsFinal ==
    ASSUME NEW s \in Terminal PROVE Reachable[s] = {}
<1>1. s \in JobStates /\ AllowedTransitions[s] = {}
    BY DEF Terminal, JobStates, AllowedTransitions
<1>2. ClosedUnderTable({}) BY DEF ClosedUnderTable
<1>3. QED BY <1>1, <1>2 DEF Reachable

\* Where the stored status of a job that was started and is not over can be.
InProgress == {"EXECUTING_RAW", "AI_ANALYZING", "RETRYING_SHIM"}

\* The verdicts are in reach of a job in progress, FAILED of any job that is not over.
LEMMA VerdictIsReachable ==
    /\ \A s \in InProgress : Terminal \subseteq Reachable[s]
    /\ \A s \in JobStates \ Terminal : "FAILED" \in Reachable[s]
<1>1. ASSUME NEW s \in JobStates \ Terminal PROVE "FAILED" \in Reachable[s]
    <2>1. CanTransition(s, "FAILED")
        BY DEF CanTransition, AllowedTransitions, JobStates, Terminal
    <2>2. QED BY <2>1, ReachableByHops DEF JobStates
<1>2. ASSUME NEW s \in {"EXECUTING_RAW", "RETRYING_SHIM"} PROVE "COMPLETED" \in Reachable[s]
    <2>1. CanTransition(s, "FINALIZING") /\ CanTransition("FINALIZING", "COMPLETED")
        BY DEF CanTransition, AllowedTransitions, JobStates
    <2>2. QED BY <2>1, ReachableByHops DEF JobStates
<1>3. "COMPLETED" \in Reachable["AI_ANALYZING"]
    <2>1. CanTransition("AI_ANALYZING", "RETRYING_SHIM")
          /\ CanTransition("RETRYING_SHIM", "FINALIZING")
          /\ CanTransition("FINALIZING", "COMPLETED")
        BY DEF CanTransition, AllowedTransitions, JobStates
    <2>2. "FINALIZING" \in Reachable["AI_ANALYZING"]
        BY <2>1, ReachableByHops DEF JobStates
    <2>3. QED BY <2>1, <2>2, ReachableIsClosed DEF JobStates
<1>4. QED BY <1>1, <1>2, <1>3 DEF InProgress, Terminal, JobStates

\* What the commits of the task write is reachable from what they have checked.
LEMMA CommitIsReachable ==
    ASSUME NEW s \in JobStates
    PROVE  /\ \A t \in JobStates : CanTransition(s, t) => t \in Reachable[s]
           /\ CanTransition(s, "FINALIZING") => "FAILED" \in Reachable[s]
<1>1. CanTransition("FINALIZING", "FAILED")
    BY DEF CanTransition, AllowedTransitions, JobStates
<1>2. QED BY <1>1, ReachableByHops DEF JobStates

----------------------------------------------------------------------------
(* One message or one task *)

\* A job that was not sent has no message and no task, one with a message waiting has
\* one and no task, and no two tasks have the same job.
SoleMessage ==
    \A j \in Jobs :
        /\ ready[j] <= 1
        /\ j \in unsent => ready[j] = 0
        /\ \A w \in Slots : run[w].job = j => (j \notin unsent /\ ready[j] = 0)
        /\ \A v, w \in Slots : run[v].job = j /\ run[w].job = j => v = w

\* What a step does to messages and tasks: nothing new; a job created, sent or lost; a
\* message taken; a message given back by a worker that goes down.
LEMMA MessageStep ==
    ASSUME TypeOK, Wired, MaxRedeliveries = 0, Next
    PROVE  \/ /\ UNCHANGED <<unsent, ready>>
              /\ \A w \in Slots : run'[w].job \in {run[w].job, None}
           \/ \E j \in Jobs : ~Exists(j) /\ unsent' = unsent \cup {j} /\ UNCHANGED <<ready, run>>
           \/ \E j \in Jobs : EnqueueFails(j) \/ Enqueue(j)
           \/ \E w \in Slots, j \in Jobs : StartTask(w, j)
           \/ \E w \in Slots : WorkerDown(w) /\ run[w].unacked
<1>1. CASE Api
    <2>1. ASSUME NEW r \in Requests, NEW j \in Jobs, DispatchCommit(r, j)
          PROVE  ~Exists(j) /\ unsent' = unsent \cup {j} /\ UNCHANGED <<ready, run>>
        BY <2>1 DEF DispatchCommit
    <2>2. ASSUME NEW j \in Jobs, NEW s \in Subs, NEW explicit \in BOOLEAN,
                 CreateJob(j, s, explicit)
          PROVE  ~Exists(j) /\ unsent' = unsent \cup {j} /\ UNCHANGED <<ready, run>>
        BY <2>2 DEF CreateJob
    <2>3. ASSUME NEW r \in Requests, NEW s \in Subs, NEW explicit \in BOOLEAN,
                 DispatchCheck(r, s, explicit) \/ OverrideRead(r, s)
          PROVE  UNCHANGED <<unsent, ready, run>>
        BY <2>3 DEF DispatchCheck, OverrideRead, broker
    <2>4. ASSUME NEW r \in Requests, OverrideCommit(r)
          PROVE  UNCHANGED <<unsent, ready, run>>
        BY <2>4 DEF OverrideCommit, broker
    <2>5. QED BY <1>1, <2>1, <2>2, <2>3, <2>4 DEF Api
<1>2. ASSUME NEW w \in Slots, NEW j \in Jobs, StartTask(w, j)
      PROVE  \E v \in Slots, k \in Jobs : StartTask(v, k)
    BY <1>2
<1>3. ASSUME NEW w \in Slots, Redeliver(w)
      PROVE  FALSE
    <2>1. run[w].unacked BY <1>3 DEF Redeliver
    <2>2. run[w].job \in Jobs BY <2>1 DEF Wired, Idle
    <2>3. redelivered[run[w].job] \in Nat BY <2>2 DEF TypeOK
    <2>4. QED BY <1>3, <2>3 DEF Redeliver
<1>4. ASSUME NEW w \in Slots,
             \/ Task(w) \/ ChildKilled(w) \/ DatabaseError(w)
             \/ WorkerDown(w) /\ ~run[w].unacked
      PROVE  UNCHANGED <<unsent, ready>> /\ \A v \in Slots : run'[v].job \in {run[v].job, None}
    <2>1. UNCHANGED <<unsent, ready>>
        BY <1>4 DEF ChildKilled, DatabaseError, WorkerDown, broker, Task, ReadJob,
            InvalidTransition, ConfigError, StartExecuting, RecordBlocked, Reject, RunRaw,
            RecordRaw, Analyze, ToAnalyzing, ToRetrying, RunShim, RecordShim, Finalize,
            WriteGrade, Finish, ServiceError, GiveUp, Ack, RecordAttempt, CommitStatus, Execute
    <2>2. \E task \in Runs :
              run' = [run EXCEPT ![w] = task] /\ (task = Idle \/ Continues(w, task))
        <3>1. CASE Task(w) BY <3>1, TaskContinues
        <3>2. CASE DatabaseError(w)
            <4>1. run[w].at # "idle" BY <3>2 DEF DatabaseError, ReadSteps
            <4>2. GoTo(w, "ack") \/ Raise(w) BY <3>2 DEF DatabaseError
            <4>3. QED BY <4>1, <4>2, GoToContinues, RaiseContinues DEF Steps
        <3>3. CASE ChildKilled(w) \/ WorkerDown(w)
            <4>1. Idle \in Runs BY DEF Idle, Runs, Steps
            <4>2. QED BY <3>3, <4>1 DEF ChildKilled, WorkerDown
        <3>4. QED BY <1>4, <3>1, <3>2, <3>3
    <2>3. ASSUME NEW v \in Slots PROVE run'[v].job \in {run[v].job, None}
        BY <2>2 DEF Continues, Idle, TypeOK
    <2>4. QED BY <2>1, <2>3
<1>5. CASE \E w \in Slots : Task(w) \/ Disturbance(w) \/ \E j \in Jobs : StartTask(w, j)
    BY <1>2, <1>3, <1>4, <1>5 DEF Disturbance
<1>6. QED BY <1>1, <1>5 DEF Next

\* A message moves on, from the handler to the broker to a task and, when the worker
\* goes down, back; nothing copies it.
LEMMA SoleMessageStep ==
    ASSUME TypeOK, Wired, SoleMessage, MaxRedeliveries = 0, Next
    PROVE  SoleMessage'
<1>1. ready \in [Jobs -> Nat] /\ None \notin Jobs BY ConstantsAssumption DEF TypeOK
<1>2. CASE /\ UNCHANGED <<unsent, ready>>
           /\ \A w \in Slots : run'[w].job \in {run[w].job, None}
    BY <1>1, <1>2 DEF SoleMessage
<1>3. ASSUME NEW j \in Jobs, ~Exists(j), unsent' = unsent \cup {j}, UNCHANGED <<ready, run>>
      PROVE  SoleMessage'
    <2>1. ready[j] = 0 BY <1>1, <1>3 DEF Wired
    <2>2. \A w \in Slots : run[w].job # j BY <1>1, <1>3 DEF Wired, Idle
    <2>3. QED BY <1>3, <2>1, <2>2 DEF SoleMessage
<1>4. ASSUME NEW j \in Jobs, Enqueue(j)
      PROVE  SoleMessage'
    <2>1. ready' = [ready EXCEPT ![j] = ready[j] + 1] /\ unsent' = unsent \ {j} /\ run' = run
        BY <1>4 DEF Enqueue
    <2>2. ready[j] = 0 /\ j \in unsent /\ \A w \in Slots : run[w].job # j
        BY <1>4 DEF Enqueue, SoleMessage
    <2>3. ready'[j] = 1 /\ \A k \in Jobs : k # j => ready'[k] = ready[k] BY <1>1, <2>1, <2>2
    <2>4. QED BY <2>1, <2>2, <2>3 DEF SoleMessage
<1>5. ASSUME NEW j \in Jobs, EnqueueFails(j)
      PROVE  SoleMessage'
    BY <1>5 DEF EnqueueFails, SoleMessage
<1>6. ASSUME NEW w \in Slots, NEW j \in Jobs, StartTask(w, j)
      PROVE  SoleMessage'
    <2> DEFINE task == [Idle EXCEPT !.at = "gate", !.job = j, !.unacked = TRUE]
    <2>1. ready' = [ready EXCEPT ![j] = ready[j] - 1] /\ unsent' = unsent
          /\ run' = [run EXCEPT ![w] = task] /\ ready[j] > 0
        BY <1>6 DEF StartTask
    <2>2. ready[j] = 1 /\ j \notin unsent /\ \A v \in Slots : run[v].job # j
        BY <1>1, <2>1 DEF SoleMessage
    <2>3. ready'[j] = 0 /\ \A k \in Jobs : k # j => ready'[k] = ready[k] BY <1>1, <2>1, <2>2
    <2>4. task.job = j BY DEF Idle
    <2>5. \A v \in Slots : run'[v].job = IF v = w THEN j ELSE run[v].job
        BY <2>1, <2>4 DEF TypeOK
    <2>6. QED BY <2>1, <2>2, <2>3, <2>5 DEF SoleMessage
<1>7. ASSUME NEW w \in Slots, WorkerDown(w), run[w].unacked
      PROVE  SoleMessage'
    <2> DEFINE j == run[w].job
    <2>1. j \in Jobs BY <1>7 DEF Wired, Idle
    <2>2. ready' = [ready EXCEPT ![j] = ready[j] + 1] /\ unsent' = unsent
          /\ run' = [run EXCEPT ![w] = Idle]
        BY <1>7 DEF WorkerDown
    <2>3. ready[j] = 0 /\ j \notin unsent /\ \A v \in Slots : v # w => run[v].job # j
        BY <2>1 DEF SoleMessage
    <2>4. ready'[j] = 1 /\ \A k \in Jobs : k # j => ready'[k] = ready[k]
        BY <1>1, <2>1, <2>2, <2>3
    <2>5. \A v \in Slots : run'[v].job = IF v = w THEN None ELSE run[v].job
        BY <2>2 DEF Idle, TypeOK
    <2>6. QED BY <1>1, <2>1, <2>2, <2>3, <2>4, <2>5 DEF SoleMessage
<1>8. QED BY <1>2, <1>3, <1>4, <1>5, <1>6, <1>7, MessageStep

----------------------------------------------------------------------------
(* What a task knows of its job *)

\* The status a task has read is the one its job still has, and a task at work has
\* started its job and not closed it.
UpToDate ==
    \A w \in Slots : run[w].at # "idle" =>
        /\ run[w].seen # None => run[w].seen = job[run[w].job].status
        /\ run[w].at \in Working => job[run[w].job].status \in InProgress

\* The task in slot w leaves the job rows alone and knows no more than they hold.
Keeps(w) ==
    /\ UNCHANGED job
    /\ run'[w].at # "idle" =>
        /\ run'[w].job = run[w].job
        /\ run'[w].seen \in {None, run[w].seen, job[run[w].job].status}
        /\ run'[w].at \in Working => run[w].at \in Working

\* The task in slot w commits its job's status: the one it had or one reachable from it.
Advances(w, next) ==
    LET j == run[w].job IN
    /\ next \in Reachable[job[j].status] \cup {job[j].status}
    /\ \E row \in JobRows : row.status = next /\ job' = [job EXCEPT ![j] = row]
    /\ run'[w].job = j /\ run'[w].seen = None
    /\ run'[w].at \in Working => next \in InProgress

\* A commit after a check with the lifecycle table.
LEMMA CommitStatusAdvances ==
    ASSUME TypeOK, Wired, UpToDate, NEW w \in Slots, NEW step,
           MayMove(w, step), NEW status \in JobStates, NEW next \in Steps,
           CommitStatus(w, status, next),
           \/ status = Target(step)
           \/ status = "FAILED" /\ Target(step) = "FINALIZING",
           next \in Working => status \in InProgress
    PROVE  Advances(w, status)
<1> DEFINE j == run[w].job
<1>1. run[w] \in Runs /\ job \in [Jobs -> JobRows \cup {NoRow}] BY DEF TypeOK
<1>2. run[w].at # "idle" /\ run[w].seen = job[j].status
    <2>1. run[w].seen # None BY DEF MayMove, InTransaction
    <2>2. run[w].at # "idle" BY <2>1 DEF Wired, Idle
    <2>3. QED BY <2>1, <2>2 DEF UpToDate
<1>3. j \in Jobs /\ job[j] \in JobRows BY <1>1, <1>2 DEF Wired, Exists
<1>4. job[j].status \in JobStates BY <1>3, JobRowFields
<1>5. CanTransition(job[j].status, Target(step)) BY <1>2 DEF MayMove
<1>6. status \in Reachable[job[j].status] BY <1>4, <1>5, CommitIsReachable
<1>7. \E row \in JobRows : row.status = status /\ job' = [job EXCEPT ![j] = row]
    <2> DEFINE row == [job[j] EXCEPT !.status = status]
    <2>1. row \in JobRows BY <1>3, JobRowMoved
    <2>2. row.status = status BY <1>3 DEF JobRows
    <2>3. job' = [job EXCEPT ![j] = row] BY DEF CommitStatus
    <2>4. QED BY <2>1, <2>2, <2>3
<1>8. run'[w].job = j /\ run'[w].seen = None /\ run'[w].at = next
    BY <1>1 DEF CommitStatus, GoTo, TypeOK, Runs
<1>9. QED BY <1>6, <1>7, <1>8 DEF Advances

\* The commit of an attempt, with the status the job has or the one it starts with.
LEMMA RecordAttemptAdvances ==
    ASSUME TypeOK, Wired, UpToDate, NEW w \in Slots, run[w].at # "idle",
           NEW stage, NEW status, NEW next \in Working,
           RecordAttempt(w, stage, status, next),
           \/ run[w].at \in Working /\ status = job[run[w].job].status
           \/ status = "EXECUTING_RAW" /\ status \in Reachable[job[run[w].job].status]
    PROVE  Keeps(w) \/ Advances(w, status)
<1> DEFINE j == run[w].job
<1>1. run[w] \in Runs /\ job \in [Jobs -> JobRows \cup {NoRow}] BY DEF TypeOK
<1>2. j \in Jobs /\ job[j] \in JobRows BY <1>1 DEF Wired, Exists
<1>3. CASE Raise(w) /\ UNCHANGED job
    <2>1. run'[w] = [Idle EXCEPT !.at = "except", !.job = j, !.unacked = run[w].unacked]
        BY <1>1, <1>3 DEF Raise, TypeOK
    <2>2. run'[w].job = j /\ run'[w].seen = None /\ run'[w].at = "except"
        BY <2>1 DEF Idle
    <2>3. QED BY <1>3, <2>2 DEF Keeps, Working
<1>4. CASE /\ job' = [job EXCEPT ![j] = [@ EXCEPT !.attemptCount = run[w].count + 1,
                                                  !.status = status]]
           /\ GoTo(w, next)
    <2> DEFINE row == [job[j] EXCEPT !.attemptCount = run[w].count + 1, !.status = status]
    <2>1. status \in InProgress
        BY DEF UpToDate, InProgress
    <2>2. status \in JobStates /\ run[w].count + 1 \in Nat
        BY <1>1, <2>1 DEF Runs, InProgress, JobStates
    <2>3. row \in JobRows /\ row.status = status
        BY <1>2, <2>2, JobRowUpdates DEF JobRows
    <2>4. run'[w].job = j /\ run'[w].seen = None
        BY <1>1, <1>4 DEF GoTo, TypeOK, Runs
    <2>5. QED BY <1>4, <2>1, <2>3, <2>4 DEF Advances
<1>5. QED BY <1>3, <1>4 DEF RecordAttempt

\* Every step of a task, one case per kind of step.
LEMMA TaskAdvances ==
    ASSUME TypeOK, Wired, UpToDate, NEW w \in Slots, Task(w)
    PROVE  Keeps(w) \/ \E next : Advances(w, next)
<1>1. run[w] \in Runs /\ run \in [Slots -> Runs] BY DEF TypeOK
<1>2. run[w].at # "idle" => /\ run[w].job \in Jobs /\ job[run[w].job] \in JobRows
                            /\ job[run[w].job].status \in JobStates
    BY JobRowFields DEF TypeOK, Wired, Exists
<1>3. run[w].seen # None => run[w].at # "idle" /\ run[w].seen = job[run[w].job].status
    BY DEF UpToDate, Wired, Idle
<1>4. CASE ReadJob(w)
    <2>1. run'[w].job = run[w].job /\ run'[w].seen = job[run[w].job].status
          /\ run'[w].at = run[w].at
        BY <1>1, <1>4 DEF ReadJob, Runs
    <2>2. QED BY <1>4, <2>1 DEF ReadJob, Keeps, tables
<1>5. CASE InvalidTransition(w) \/ ServiceError(w)
    <2>1. Raise(w) /\ UNCHANGED job BY <1>5 DEF InvalidTransition, ServiceError, tables
    <2>2. run'[w].job = run[w].job /\ run'[w].seen = None /\ run'[w].at = "except"
        BY <1>1, <2>1 DEF Raise, Idle
    <2>3. QED BY <2>1, <2>2 DEF Keeps, Working
<1>6. CASE ConfigError(w)
    <2>1. run[w].seen # None /\ CanTransition(run[w].seen, "EXECUTING_RAW")
          /\ RecordAttempt(w, "EXECUTING_RAW", "EXECUTING_RAW", "reject")
        BY <1>6 DEF ConfigError, MayMove, InTransaction, Target
    <2>2. "EXECUTING_RAW" \in Reachable[job[run[w].job].status]
        BY <1>2, <1>3, <2>1, CommitIsReachable DEF JobStates
    <2>3. QED BY <1>3, <2>1, <2>2, RecordAttemptAdvances DEF Working, Steps
<1>7. CASE RecordBlocked(w) \/ RecordRaw(w) \/ RecordShim(w)
    <2>1. run[w].at \in Working /\ run[w].at # "idle"
        BY <1>7 DEF RecordBlocked, RecordRaw, RecordShim, InTransaction, Working, Steps
    <2>2. \E stage : \E next \in Working : RecordAttempt(w, stage, job[run[w].job].status, next)
        BY <1>7 DEF RecordBlocked, RecordRaw, RecordShim, Working, Steps
    <2>3. QED BY <2>1, <2>2, RecordAttemptAdvances
<1>8. CASE StartExecuting(w)
    <2>1. PICK next \in {"blocked", "run_raw"} : CommitStatus(w, "EXECUTING_RAW", next)
        BY <1>8 DEF StartExecuting
    <2>2. MayMove(w, "gate") /\ Target("gate") = "EXECUTING_RAW"
        BY <1>8 DEF StartExecuting, Target
    <2>3. QED BY <2>1, <2>2, CommitStatusAdvances DEF JobStates, Steps, InProgress
<1>9. CASE Reject(w)
    <2>1. MayMove(w, "reject") /\ Target("reject") = "FINALIZING"
          /\ CommitStatus(w, "FAILED", "ack")
        BY <1>9 DEF Reject, Target
    <2>2. QED BY <2>1, CommitStatusAdvances DEF JobStates, Steps, Working
<1>10. CASE ToAnalyzing(w)
    <2>1. MayMove(w, "to_analyzing") /\ Target("to_analyzing") = "AI_ANALYZING"
          /\ CommitStatus(w, "AI_ANALYZING", "to_retrying")
        BY <1>10 DEF ToAnalyzing, Target
    <2>2. QED BY <2>1, CommitStatusAdvances DEF JobStates, Steps, InProgress
<1>11. CASE ToRetrying(w)
    <2>1. MayMove(w, "to_retrying") /\ Target("to_retrying") = "RETRYING_SHIM"
          /\ CommitStatus(w, "RETRYING_SHIM", "run_shim")
        BY <1>11 DEF ToRetrying, Target
    <2>2. QED BY <2>1, CommitStatusAdvances DEF JobStates, Steps, InProgress
<1>12. CASE RunRaw(w) \/ RunShim(w) \/ Analyze(w) \/ Finalize(w) \/ WriteGrade(w)
    <2>1. UNCHANGED job
        BY <1>12 DEF RunRaw, RunShim, Execute, Analyze, Finalize, WriteGrade, tables
    <2>2. run'[w].job = run[w].job /\ run'[w].seen = run[w].seen
        <3>1. ASSUME NEW step, NEW next, Execute(w, step, next)
              PROVE  run'[w].job = run[w].job /\ run'[w].seen = run[w].seen
            BY <1>1, <3>1 DEF Execute, Runs
        <3>2. CASE Analyze(w) \/ Finalize(w)
            BY <1>1, <3>2 DEF Analyze, Finalize, Runs
        <3>3. CASE WriteGrade(w)
            BY <1>1, <3>3 DEF WriteGrade, Runs
        <3>4. QED BY <1>12, <3>1, <3>2, <3>3 DEF RunRaw, RunShim
    <2>3. run[w].at \in Working
        BY <1>12 DEF RunRaw, RunShim, Execute, Analyze, Finalize, WriteGrade, MayMove,
                     InTransaction, Working, Steps
    <2>4. QED BY <2>1, <2>2, <2>3 DEF Keeps
<1>13. CASE Finish(w)
    <2> DEFINE j == run[w].job
    <2> DEFINE row == Closed(job[j], Verdict(w), Len(grades) + 1)
    <2>1. run[w].at = "finish" BY <1>13 DEF Finish
    <2>2. j \in Jobs /\ job[j] \in JobRows BY <1>2, <2>1
    <2>3. Verdict(w) \in Terminal /\ Verdict(w) \in JobStates
        BY DEF Verdict, Terminal, JobStates
    <2>4. job[j].status \in InProgress BY <2>1 DEF UpToDate, Working, Steps
    <2>5. Verdict(w) \in Reachable[job[j].status] BY <2>3, <2>4, VerdictIsReachable
    <2>6. Len(grades) + 1 \in Nat BY DEF TypeOK
    <2>7. row \in JobRows BY <2>2, <2>3, <2>6, JobRowUpdates
    <2>8. row.status = Verdict(w) BY <2>2 DEF Closed, JobRows
    <2>9. job' = [job EXCEPT ![j] = row] BY <1>13 DEF Finish
    <2>10. run'[w].job = j /\ run'[w].seen = None /\ run'[w].at = "ack"
        BY <1>1, <1>13 DEF Finish, Idle
    <2>11. Advances(w, Verdict(w)) BY <2>5, <2>7, <2>8, <2>9, <2>10 DEF Advances, Working
    <2>12. QED BY <2>11
<1>14. CASE GiveUp(w)
    <2> DEFINE j == run[w].job
    <2>1. run[w].at # "idle" /\ run[w].seen = job[j].status
        BY <1>3, <1>14 DEF GiveUp, InTransaction
    <2>2. run'[w].job = j /\ run'[w].seen = None /\ run'[w].at = "ack"
        BY <1>1, <1>14 DEF GiveUp, GoTo, Runs
    <2>3. CASE UNCHANGED job BY <2>2, <2>3 DEF Keeps, Working
    <2>4. CASE /\ run[w].seen \notin Terminal
               /\ job' = [job EXCEPT ![j] = [@ EXCEPT !.status = "FAILED"]]
        <3> DEFINE row == [job[j] EXCEPT !.status = "FAILED"]
        <3>1. row \in JobRows /\ row.status = "FAILED"
            <4>1. job[j] \in JobRows /\ "FAILED" \in JobStates BY <1>2, <2>1 DEF JobStates
            <4>2. row \in JobRows BY <4>1, JobRowMoved
            <4>3. row.status = "FAILED" BY <4>1 DEF JobRows
            <4>4. QED BY <4>2, <4>3
        <3>2. "FAILED" \in Reachable[job[j].status]
            BY <1>2, <2>1, <2>4, VerdictIsReachable
        <3>3. Advances(w, "FAILED") BY <2>2, <2>4, <3>1, <3>2 DEF Advances, Working
        <3>4. QED BY <3>3
    <2>5. QED BY <1>14, <2>3, <2>4 DEF GiveUp
<1>15. CASE Ack(w)
    <2>1. run'[w].at = "idle" /\ UNCHANGED job BY <1>1, <1>15 DEF Ack, Idle, tables
    <2>2. QED BY <2>1 DEF Keeps
<1>16. QED
    BY <1>4, <1>5, <1>6, <1>7, <1>8, <1>9, <1>10, <1>11, <1>12, <1>13, <1>14, <1>15 DEF Task

\* What a step does to the job rows and the tasks: a job is created, a message starts a
\* task, or one task goes on.
LEMMA JobStep ==
    ASSUME TypeOK, Wired, UpToDate, MaxRedeliveries = 0, Next
    PROVE  \/ UNCHANGED <<job, run>>
           \/ /\ \E j \in Jobs, s \in Subs, explicit \in BOOLEAN : Created(j, s, explicit)
              /\ UNCHANGED run
           \/ \E w \in Slots, j \in Jobs :
                  StartTask(w, j) /\ \A v \in Slots : v # w => run'[v] = run[v]
           \/ \E w \in Slots :
                  /\ Keeps(w) \/ \E next : Advances(w, next)
                  /\ \A v \in Slots : v # w => run'[v] = run[v]
<1>1. CASE Api
    <2>1. UNCHANGED run
        BY <1>1 DEF Api, DispatchCheck, DispatchCommit, CreateJob, Enqueue, EnqueueFails,
                    OverrideRead, OverrideCommit
    <2>2. UNCHANGED job \/ \E j \in Jobs, s \in Subs, explicit \in BOOLEAN : Created(j, s, explicit)
        <3>1. ASSUME NEW r \in Requests, NEW j \in Jobs, DispatchCommit(r, j)
              PROVE  \E s \in Subs, explicit \in BOOLEAN : Created(j, s, explicit)
            <4>1. request[r].sub \in Subs BY <3>1 DEF DispatchCommit, Wired
            <4>2. request[r].explicit \in BOOLEAN BY DEF TypeOK, RequestRecords
            <4>3. Created(j, request[r].sub, request[r].explicit)
                BY <3>1 DEF DispatchCommit, Created
            <4>4. QED BY <4>1, <4>2, <4>3
        <3>2. ASSUME NEW j \in Jobs, NEW s \in Subs, NEW explicit \in BOOLEAN,
                     CreateJob(j, s, explicit)
              PROVE  Created(j, s, explicit)
            BY <3>2 DEF CreateJob, Created
        <3>3. CASE UNCHANGED job BY <3>3
        <3>4. QED
            BY <1>1, <3>1, <3>2, <3>3 DEF Api, DispatchCheck, Enqueue, EnqueueFails,
               OverrideRead, OverrideCommit, tables
    <2>3. QED BY <2>1, <2>2
<1>2. ASSUME NEW w \in Slots, Task(w) \/ Disturbance(w) \/ \E j \in Jobs : StartTask(w, j)
      PROVE  \A v \in Slots : v # w => run'[v] = run[v]
    BY <1>2, OtherTasks
<1>3. ASSUME NEW w \in Slots, Disturbance(w)
      PROVE  Keeps(w)
    <2>1. run[w] \in Runs /\ run \in [Slots -> Runs] BY DEF TypeOK
    <2>2. UNCHANGED job
        BY <1>3 DEF Disturbance, Redeliver, WorkerDown, ChildKilled, DatabaseError, tables
    <2>3. CASE Redeliver(w)
        <3>1. run'[w].job = run[w].job /\ run'[w].seen = run[w].seen /\ run'[w].at = run[w].at
            BY <2>1, <2>3 DEF Redeliver, Runs
        <3>2. QED BY <2>2, <3>1 DEF Keeps
    <2>4. CASE WorkerDown(w) \/ ChildKilled(w)
        <3>1. run'[w].at = "idle" BY <2>1, <2>4 DEF WorkerDown, ChildKilled, Idle
        <3>2. QED BY <2>2, <3>1 DEF Keeps
    <2>5. CASE DatabaseError(w)
        <3>1. GoTo(w, "ack") \/ Raise(w) BY <2>5 DEF DatabaseError
        <3>2. run'[w].job = run[w].job /\ run'[w].seen = None
            BY <2>1, <3>1 DEF GoTo, Raise, Idle, Runs
        <3>3. run'[w].at \in {"ack", "except"} BY <3>1, WhereTo
        <3>4. QED BY <2>2, <3>2, <3>3 DEF Keeps, Working
    <2>6. QED BY <1>3, <2>3, <2>4, <2>5 DEF Disturbance
<1>4. CASE \E w \in Slots : Task(w) \/ Disturbance(w) \/ \E j \in Jobs : StartTask(w, j)
    BY <1>2, <1>3, <1>4, TaskAdvances
<1>5. QED BY <1>1, <1>4 DEF Next

\* Nobody but the one task of a job moves the job, so what it has read stays true.
LEMMA UpToDateStep ==
    ASSUME TypeOK, Wired, SoleMessage, UpToDate, MaxRedeliveries = 0, Next
    PROVE  UpToDate'
<1> DEFINE True(w) == run[w].at # "idle" =>
        /\ run[w].seen # None => run[w].seen = job[run[w].job].status
        /\ run[w].at \in Working => job[run[w].job].status \in InProgress
<1>1. SUFFICES ASSUME NEW v \in Slots PROVE True(v)'
    BY DEF UpToDate
<1>2. True(v) BY DEF UpToDate
<1>3. CASE UNCHANGED <<job, run>>
    BY <1>2, <1>3
<1>4. ASSUME NEW j \in Jobs, NEW s \in Subs, NEW explicit \in BOOLEAN, Created(j, s, explicit),
             UNCHANGED run
      PROVE  True(v)'
    <2>1. run[v].at # "idle" => run[v].job # j BY <1>4 DEF Created, Wired
    <2>2. run[v].at # "idle" => job'[run[v].job] = job[run[v].job]
        BY <1>4, <2>1 DEF Created, TypeOK, Wired
    <2>3. QED BY <1>2, <1>4, <2>2
<1>5. ASSUME NEW w \in Slots, NEW j \in Jobs, StartTask(w, j),
             \A u \in Slots : u # w => run'[u] = run[u]
      PROVE  True(v)'
    <2>1. run'[w].at = "gate" /\ run'[w].seen = None /\ UNCHANGED job
        BY <1>5 DEF StartTask, Idle, TypeOK, tables
    <2>2. CASE v = w BY <2>1, <2>2 DEF Working
    <2>3. CASE v # w BY <1>2, <1>5, <2>1, <2>3
    <2>4. QED BY <2>2, <2>3
<1>6. ASSUME NEW w \in Slots, Keeps(w), \A u \in Slots : u # w => run'[u] = run[u]
      PROVE  True(v)'
    <2>1. CASE v = w
        <3>1. run[w].seen # None => run[w].at # "idle" BY DEF Wired, Idle
        <3>2. run[w].at \in Working => run[w].at # "idle" BY DEF Working
        <3>3. QED BY <1>2, <1>6, <2>1, <3>1, <3>2 DEF Keeps
    <2>2. CASE v # w BY <1>2, <1>6, <2>2 DEF Keeps
    <2>3. QED BY <2>1, <2>2
<1>7. ASSUME NEW w \in Slots, NEW next, Advances(w, next),
             \A u \in Slots : u # w => run'[u] = run[u]
      PROVE  True(v)'
    <2>1. PICK row \in JobRows : row.status = next /\ job' = [job EXCEPT ![run[w].job] = row]
        BY <1>7 DEF Advances
    <2>2. CASE v = w
        <3>1. run'[w].at # "idle" => run'[w].job \in Jobs BY TypeStep DEF Wired
        <3>2. run'[w].at # "idle" => job'[run'[w].job].status = next
            BY <1>7, <2>1, <3>1 DEF Advances, TypeOK
        <3>3. QED BY <1>7, <2>2, <3>2 DEF Advances
    <2>3. CASE v # w /\ run[v].at # "idle"
        <3>1. run[v].job \in Jobs BY <2>3 DEF Wired
        <3>2. run[v].job # run[w].job BY <2>3, <3>1 DEF SoleMessage
        <3>3. job'[run[v].job] = job[run[v].job] BY <2>1, <3>1, <3>2 DEF TypeOK
        <3>4. QED BY <1>2, <1>7, <2>3, <3>3
    <2>4. CASE v # w /\ run[v].at = "idle" BY <1>7, <2>4
    <2>5. QED BY <2>2, <2>3, <2>4
<1>8. QED BY <1>3, <1>4, <1>5, <1>6, <1>7, JobStep

----------------------------------------------------------------------------
(* The lifecycle *)

\* A step moves at most one job: it is created QUEUED, or moves to a status that is
\* reachable from the one it had.
LEMMA StatusStep ==
    ASSUME TypeOK, Wired, UpToDate, MaxRedeliveries = 0, Next
    PROVE  \/ \A j \in Jobs : job'[j].status = job[j].status
           \/ \E j \in Jobs :
                  /\ \A k \in Jobs : k # j => job'[k].status = job[k].status
                  /\ \/ job[j].status = None /\ job'[j].status = InitialState
                     \/ Exists(j) /\ job'[j].status \in Reachable[job[j].status]
<1>1. CASE UNCHANGED <<job, run>>
    BY <1>1
<1>2. ASSUME NEW j \in Jobs, NEW s \in Subs, NEW explicit \in BOOLEAN, Created(j, s, explicit)
      PROVE  /\ \A k \in Jobs : k # j => job'[k].status = job[k].status
             /\ job[j].status = None /\ job'[j].status = InitialState
    <2>1. job[j].status = None BY <1>2 DEF Created, Exists, NoRow
    <2>2. job' = [job EXCEPT ![j] = NewJob(s, explicit)] BY <1>2 DEF Created
    <2>3. QED BY <2>1, <2>2 DEF NewJob, TypeOK
<1>3. ASSUME NEW w \in Slots, NEW j \in Jobs, StartTask(w, j) PROVE UNCHANGED job
    BY <1>3 DEF StartTask, tables
<1>4. ASSUME NEW w \in Slots, Keeps(w) PROVE UNCHANGED job
    BY <1>4 DEF Keeps
<1>5. ASSUME NEW w \in Slots, NEW next, Advances(w, next)
      PROVE  LET j == run[w].job IN
             \/ \A k \in Jobs : job'[k].status = job[k].status
             \/ /\ j \in Jobs /\ \A k \in Jobs : k # j => job'[k].status = job[k].status
                /\ Exists(j) /\ job'[j].status \in Reachable[job[j].status]
    <2> DEFINE j == run[w].job
    <2>1. PICK row \in JobRows : row.status = next /\ job' = [job EXCEPT ![j] = row]
        BY <1>5 DEF Advances
    <2>2. CASE j \notin Jobs BY <2>1, <2>2 DEF TypeOK
    <2>3. CASE j \in Jobs
        <3>1. \A k \in Jobs : k # j => job'[k].status = job[k].status
            BY <2>1, <2>3 DEF TypeOK
        <3>2. job'[j].status = next BY <2>1, <2>3 DEF TypeOK
        <3>3. Exists(j)
            <4>1. run[w].at # "idle" BY <2>3, ConstantsAssumption DEF Wired, Idle
            <4>2. QED BY <4>1 DEF Wired
        <3>4. next \in Reachable[job[j].status] \cup {job[j].status} BY <1>5 DEF Advances
        <3>5. QED BY <2>3, <3>1, <3>2, <3>3, <3>4
    <2>4. QED BY <2>2, <2>3
<1>6. QED BY <1>1, <1>2, <1>3, <1>4, <1>5, JobStep

\* The invariant of the theorems below.
OnceInv == TypeOK /\ Wired /\ SoleMessage /\ UpToDate

\* The invariant of single delivery holds throughout.
LEMMA OnceInvariant ==
    ASSUME MaxRedeliveries = 0 PROVE Spec => []OnceInv
<1>1. ASSUME Init PROVE OnceInv
    <2>1. SoleMessage BY <1>1, ConstantsAssumption DEF Init, SoleMessage, Idle
    <2>2. UpToDate BY <1>1 DEF Init, UpToDate, Idle
    <2>3. QED BY <1>1, <2>1, <2>2, TypeInit DEF OnceInv
<1>2. ASSUME OnceInv, [Next]_vars PROVE OnceInv'
    <2>1. CASE Next
        BY <1>2, <2>1, TypeStep, SoleMessageStep, UpToDateStep DEF OnceInv
    <2>2. CASE UNCHANGED vars
        <3>1. SoleMessage' /\ UpToDate'
            BY <1>2, <2>2 DEF OnceInv, vars, SoleMessage, UpToDate
        <3>2. QED BY <1>2, <3>1, TypeStep DEF OnceInv
    <2>3. QED BY <1>2, <2>1, <2>2
<1>3. QED BY <1>1, <1>2, PTL DEF Spec

\* Delivered once, a job's stored status follows JobLifecycle: created QUEUED, moved only
\* along walks of the table, final once terminal (state_machine.py, code_eval_tasks.py).
THEOREM LifecycleIsKept ==
    ASSUME MaxRedeliveries = 0 PROVE Spec => RefinesLifecycle
<1> DEFINE status == [j \in Jobs |-> job[j].status]
<1>0. JL!InitialState = InitialState /\ JL!Reachable = Reachable
    <2>1. JL!AllowedTransitions = AllowedTransitions
        BY DEF JL!AllowedTransitions, AllowedTransitions, JL!JobStates, JobStates
    <2>2. QED
        BY <2>1 DEF JL!InitialState, InitialState, JL!Reachable, Reachable, JL!JobStates,
           JobStates, JL!ClosedUnderTable, ClosedUnderTable
<1>1. ASSUME Init PROVE JL!Init
    BY <1>1 DEF Init, JL!Init, NoRow
<1>2. ASSUME OnceInv, [Next]_vars PROVE [JL!Next]_status
    <2>1. CASE UNCHANGED vars \/ \A j \in Jobs : job'[j].status = job[j].status
        BY <2>1 DEF vars
    <2>2. ASSUME NEW j \in Jobs,
                 \A k \in Jobs : k # j => job'[k].status = job[k].status,
                 \/ job[j].status = None /\ job'[j].status = InitialState
                 \/ Exists(j) /\ job'[j].status \in Reachable[job[j].status]
          PROVE  JL!Next
        <3>1. status' = [status EXCEPT ![j] = job'[j].status] BY <2>2
        <3>2. CASE job[j].status = None /\ job'[j].status = InitialState
            BY <1>0, <3>1, <3>2 DEF JL!Next, JL!Create
        <3>3. CASE Exists(j) /\ job'[j].status \in Reachable[job[j].status]
            <4>1. job[j].status \in JobStates
                BY <1>2, <3>3, JobRowFields DEF OnceInv, TypeOK, Exists
            <4>2. job[j].status # None BY <4>1, ConstantsAssumption
            <4>3. QED BY <1>0, <3>1, <3>3, <4>2 DEF JL!Next, JL!Advance
        <3>4. QED BY <2>2, <3>2, <3>3
    <2>3. QED BY <1>2, <2>1, <2>2, StatusStep DEF OnceInv
<1>3. QED BY <1>1, <1>2, OnceInvariant, PTL DEF Spec, RefinesLifecycle, JL!Spec

----------------------------------------------------------------------------
(* One grade per job *)

\* A grade of a job is written in the commit that closes the job.
GradedIsOver ==
    \A g \in DOMAIN grades :
        grades[g].job # None => job[grades[g].job].status \in Terminal

\* A job that is over stays as it is.
LEMMA OverIsFinal ==
    ASSUME TypeOK, Wired, UpToDate, MaxRedeliveries = 0, Next,
           NEW j \in Jobs, job[j].status \in Terminal
    PROVE  job'[j].status = job[j].status
<1>1. Reachable[job[j].status] = {} BY TerminalIsFinal
<1>2. job[j].status # None BY ConstantsAssumption DEF Terminal, JobStates
<1>3. QED BY <1>1, <1>2, StatusStep

\* A task that commits a grade finds its job in progress, so without a grade.
LEMMA OneGradeStep ==
    ASSUME OnceInv, GradedIsOver, OneGradePerJob, MaxRedeliveries = 0, Next
    PROVE  GradedIsOver' /\ OneGradePerJob'
<1>1. TypeOK /\ Wired /\ UpToDate BY DEF OnceInv
<1>2. \A g \in DOMAIN grades : grades[g] \in GradeRows BY <1>1 DEF TypeOK
<1>3. \A j \in Jobs : job[j].status \in Terminal => job'[j].status \in Terminal
    BY <1>1, OverIsFinal
<1>4. CASE UNCHANGED grades
    BY <1>2, <1>3, <1>4 DEF GradedIsOver, OneGradePerJob, GradeRows
<1>5. ASSUME NEW captured, NEW row \in GradeRows, grades' = CommitGrade(captured, row),
             row.job # None => /\ job'[row.job].status \in Terminal
                               /\ \A g \in DOMAIN grades : grades[g].job # row.job
      PROVE  GradedIsOver' /\ OneGradePerJob'
    <2> DEFINE new == Len(grades) + 1
    <2>1. /\ DOMAIN grades' = DOMAIN grades \cup {new} /\ grades'[new] = row
          /\ \A g \in DOMAIN grades : grades'[g].job = grades[g].job
        <3>1. /\ Len(grades) \in Nat
              /\ DOMAIN grades = 1 .. Len(grades) /\ DOMAIN grades' = 1 .. new
            BY <1>1, <1>5, CommitGradeRows
        <3>2. DOMAIN grades' = DOMAIN grades \cup {new} BY <3>1
        <3>3. QED BY <1>1, <1>5, <3>2, CommitGradeRows
    <2>2. \A g \in DOMAIN grades : grades[g].job \in Jobs \cup {None} BY <1>2 DEF GradeRows
    <2>3. GradedIsOver' BY <1>3, <1>5, <2>1, <2>2 DEF GradedIsOver
    <2>4. OneGradePerJob' BY <1>5, <2>1 DEF OneGradePerJob
    <2>5. QED BY <2>3, <2>4
<1>6. ASSUME NEW r \in Requests, OverrideCommit(r)
      PROVE  GradedIsOver' /\ OneGradePerJob'
    <2> DEFINE row == [sub |-> request[r].sub, source |-> "ta_manual", job |-> None,
                       active |-> TRUE]
    <2>1. request[r].sub \in Subs BY <1>1, <1>6 DEF OverrideCommit, Wired
    <2>2. row \in GradeRows /\ row.job = None BY <2>1 DEF GradeRows, Sources
    <2>3. grades' = CommitGrade(request[r].captured, row) BY <1>6 DEF OverrideCommit
    <2>4. QED BY <1>5, <2>2, <2>3
<1>7. ASSUME NEW w \in Slots, Finish(w)
      PROVE  GradedIsOver' /\ OneGradePerJob'
    <2> DEFINE j == run[w].job
    <2> DEFINE row == [sub |-> job[j].sub, source |-> "code_eval", job |-> j, active |-> TRUE]
    <2>1. run[w].at = "finish" BY <1>7 DEF Finish
    <2>2. j \in Jobs /\ job[j] \in JobRows BY <1>1, <2>1 DEF TypeOK, Wired, Exists
    <2>3. row \in GradeRows /\ row.job = j BY <2>2, JobRowFields DEF GradeRows, Sources
    <2>4. grades' = CommitGrade(run[w].captured, row) BY <1>7 DEF Finish
    <2>5. job[j].status \in InProgress BY <1>1, <2>1 DEF UpToDate, Working, Steps
    <2>6. job[j].status \notin Terminal BY <2>5 DEF InProgress, Terminal
    <2>7. \A g \in DOMAIN grades : grades[g].job # j
        BY <2>2, <2>6, ConstantsAssumption DEF GradedIsOver
    <2>8. job'[j].status \in Terminal
        <3>1. job'[j] = Closed(job[j], Verdict(w), Len(grades) + 1)
            BY <1>1, <1>7, <2>2 DEF Finish, TypeOK
        <3>2. job'[j].status = Verdict(w) BY <2>2, <3>1 DEF Closed, JobRows
        <3>3. QED BY <3>2 DEF Verdict, Terminal
    <2>9. QED BY <1>5, <2>3, <2>4, <2>7, <2>8
<1>8. QED
    BY <1>1, <1>4, <1>6, <1>7, TableStep DEF tables, Created, Recorded, Moved

\* Delivered once, a job is graded once, though its task may crash anywhere, be handed
\* out again after the crash and meet other jobs and TAs: a task that finds its job over
\* does not grade it again (the transition check at the start of run_code_eval_job_task).
THEOREM JobsAreGradedOnce ==
    ASSUME MaxRedeliveries = 0 PROVE Spec => []OneGradePerJob
<1> DEFINE Inv == OnceInv /\ GradedIsOver /\ OneGradePerJob
<1>1. ASSUME Init PROVE GradedIsOver /\ OneGradePerJob
    BY <1>1 DEF Init, GradedIsOver, OneGradePerJob
<1>2. ASSUME OnceInv, GradedIsOver /\ OneGradePerJob, [Next]_vars
      PROVE  (GradedIsOver /\ OneGradePerJob)'
    <2>1. CASE Next BY <1>2, <2>1, OneGradeStep
    <2>2. CASE UNCHANGED vars BY <1>2, <2>2 DEF vars, GradedIsOver, OneGradePerJob
    <2>3. QED BY <1>2, <2>1, <2>2
<1>3. QED BY <1>1, <1>2, OnceInvariant, PTL DEF Spec
=============================================================================
