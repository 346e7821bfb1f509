----------------------------- MODULE Evaluation -----------------------------
(***************************************************************************)
(* From a request to a score: what run_code_eval_job_task does between its *)
(* database transactions (CodeEvalJob has those).  A worker process runs a *)
(* program on the backend the deployment names, falls back to another one  *)
(* if the microVM is not ready, asks the shim whether to run it once more, *)
(* and turns the last attempt into a score.  Workers meet at the lock of   *)
(* the microVM (Sandbox).                                                  *)
(***************************************************************************)
EXTENDS Sandbox, ShimDecision

CONSTANTS
  Scenarios,    \* the deployments and jobs to start from
  Marks         \* assignment.max_marks

ASSUME EvaluationAssumption == Marks \in Nat \ {0}

VARIABLES
  deploy,       \* the settings all workers share
  job,          \* per worker: the job it is given, a program and its quality evaluation
  at,           \* per worker: where its task is
  now,          \* per worker: the program of the current attempt
  comparison,   \* per worker: the comparison mode of the current attempt
  decision,     \* per worker: the shim's decision, once it was asked
  attempts,     \* per worker: the attempts of the task
  result        \* per worker: the score it ends with

task == <<at, now, comparison, decision, attempts, result>>
vars == <<sandbox, deploy, job, task>>

-----------------------------------------------------------------------------
(***************************************************************************)
(* A deployment: the backend; for the backend "microvm" the runtime mode,  *)
(* whether the snapshot files pass the checks and the fallback backend, if *)
(* one is allowed; whether the local backend is enabled; and what the shim *)
(* may do, nothing, retry by its rule, or ask the model as well.           *)
(***************************************************************************)
Modes == {"disabled", "pending", "pilot_local", "pilot_docker", "runtime_bridge",
          "microvm_transport", "firecracker_vsock"}

Deployments ==
  [backend : {"local", "docker", "microvm", "unknown"}, mode : Modes, snapshot : BOOLEAN,
   fallback : {"none", "local", "docker", "invalid"}, local : BOOLEAN,
   shim : {"off", "rule", "model"}]

\* quality: quality_evaluation.weight_percent, asked: its mode is not "disabled".
Jobs == [program : Programs, quality : 0 .. 100, asked : BOOLEAN]

\* A scenario: the settings, the workers that have a task, and the job of each worker.
ASSUME ScenariosAssumption ==
  \A s \in Scenarios :
    s.deploy \in Deployments /\ s.busy \subseteq Workers /\ s.jobs \in [Workers -> Jobs]

Undecided == Refused("not_asked")
NoResult == [status |-> "none", total |-> 0]

Init ==
  /\ SandboxInit
  /\ \E s \in Scenarios :
       /\ deploy = s.deploy
       /\ job = s.jobs
       /\ at = [w \in Workers |-> IF w \in s.busy THEN "waiting" ELSE "free"]
  /\ now = [w \in Workers |-> job[w].program]
  /\ comparison = [w \in Workers |-> "strict"]
  /\ decision = [w \in Workers |-> Undecided]
  /\ attempts = [w \in Workers |-> <<>>]
  /\ result = [w \in Workers |-> NoResult]

-----------------------------------------------------------------------------
(* The attempts each backend can return *)

\* A program is waited for without a limit, and one that does not end gives no attempt.
PatientAttempts(req, mode) ==
  {a \in {IF deploy.local THEN LocalAnswer(req, mode) ELSE NoAttempt("local_disabled")} :
     \A i \in DOMAIN req.tests : req.tests[i].clean.time <= Quota + Grace}

LocalAttempts(req, mode) ==
  {IF deploy.local THEN LocalAnswer(req, mode) ELSE NoAttempt("local_disabled")}

DockerAttempts(req, mode) ==
  {Attempt("docker", req, mode, mishaps) : mishaps \in [DOMAIN req.tests -> SUBSET Mishaps]}
  \cup {NoAttempt("docker_unavailable")}

\* The upstream of microvm_transport may say anything of the right type.
TransportAttempts(req) ==
  [place : {"transport"}, passed : BOOLEAN, score : {0, MaxScore(req), MaxScore(req) + 1},
   cases : {<<>>}, listed : {FALSE}, mishaps : {<<>>}]

\* What replaces a microVM that is not ready.
FallbackAttempts(req, mode) ==
  CASE deploy.fallback = "none"    -> {NoAttempt("microvm_not_ready")}
    [] deploy.fallback = "local"   -> LocalAttempts(req, mode)
    [] deploy.fallback = "docker"  -> DockerAttempts(req, mode)
    [] deploy.fallback = "invalid" -> {NoAttempt("fallback_invalid")}

\* The bridge answers in time or the caller gives up on it; any exception in it is an
\* HTTP error, and an error is never an answer.
BridgeAttempts(req, mode) ==
  FallbackAttempts(req, mode)
  \cup {a \in {Attempt("bridge", req, mode, Smoothly(req))} :
          BridgeInTime(req) /\ BridgeCrashes(req) = {}}

MicroVMAttempts(req, mode) ==
  CASE deploy.mode \in {"disabled", "pending"} -> FallbackAttempts(req, mode)
    [] deploy.mode = "pilot_local"       -> LocalAttempts(req, mode)
    [] deploy.mode = "pilot_docker"      -> DockerAttempts(req, mode)
    [] deploy.mode = "runtime_bridge"    -> BridgeAttempts(req, mode)
    [] deploy.mode = "microvm_transport" ->
         TransportAttempts(req) \cup FallbackAttempts(req, mode)
    [] deploy.mode = "firecracker_vsock" -> FallbackAttempts(req, mode)

BackendAttempts(req, mode) ==
  CASE req.tests = <<>> -> {NoAttempt("no_testcases")}
    [] req.tests # <<>> /\ deploy.backend = "local"   -> LocalAttempts(req, mode)
    [] req.tests # <<>> /\ deploy.backend = "docker"  -> DockerAttempts(req, mode)
    [] req.tests # <<>> /\ deploy.backend = "microvm" -> MicroVMAttempts(req, mode)
    [] req.tests # <<>> /\ deploy.backend = "unknown" -> {NoAttempt("unknown_backend")}

UsesSandbox(req) ==
  /\ req.tests # <<>>
  /\ deploy.backend = "microvm" /\ deploy.mode = "firecracker_vsock" /\ deploy.snapshot

-----------------------------------------------------------------------------
(* The task of a worker.  One that is free has no job in the behaviour. *)

MoveTo(w, place) == at' = [at EXCEPT ![w] = place]

\* An attempt is kept with the program and the comparison it was made with.
Record(w, attempt) ==
  /\ attempts' = [attempts EXCEPT ![w] =
                    Append(@, [attempt |-> attempt, program |-> now[w], mode |-> comparison[w]])]
  /\ MoveTo(w, "recorded")
  /\ UNCHANGED <<now, comparison, decision, result>>

Take(w) ==
  /\ at[w] = "waiting"
  /\ MoveTo(w, "execute")
  /\ UNCHANGED <<sandbox, deploy, job, now, comparison, decision, attempts, result>>

Execute(w) ==
  /\ at[w] = "execute"
  /\ ~UsesSandbox(now[w])
  /\ \E a \in BackendAttempts(now[w], comparison[w]) : Record(w, a)
  /\ UNCHANGED <<sandbox, deploy, job>>

EnterSandbox(w) ==
  /\ at[w] = "execute"
  /\ UsesSandbox(now[w])
  /\ Enter(w)
  /\ MoveTo(w, "sandbox")
  /\ UNCHANGED <<deploy, job, now, comparison, decision, attempts, result>>

\* The guest runs all test cases before it answers; the host has left by then or not.
InSandbox(w) ==
  /\ at[w] = "sandbox"
  /\ \/ AcquireLock(w) \/ LoseLock(w) \/ FindLocked(w) \/ LockTimesOut(w)
     \/ Launch(w) \/ LoadSnapshot(w) \/ Connect(w) \/ Fail(w) \/ Terminate(w)
     \/ GuestInTime(now[w]) /\ Answer(w)
  /\ UNCHANGED <<deploy, job, task>>

\* A return past the finally block.
LeaveAtOnce(w) ==
  /\ at[w] = "sandbox" /\ step[w] = "close"
  /\ GoTo(w, "out")
  /\ UNCHANGED <<holds, lockFile, vm, orphans, answered, kills, faults, deploy, job>>
  /\ \E a \in IF answered[w] THEN {GuestAnswer(now[w], comparison[w])}
              ELSE FallbackAttempts(now[w], comparison[w]) : Record(w, a)

LeaveSandbox(w) ==
  /\ at[w] = "sandbox"
  /\ ReleaseLock(w)
  /\ \E a \in IF answered[w] THEN {GuestAnswer(now[w], comparison[w])}
              ELSE FallbackAttempts(now[w], comparison[w]) : Record(w, a)
  /\ UNCHANGED <<deploy, job>>

LastAttempt(w) == attempts[w][Len(attempts[w])].attempt

\* Every failed attempt goes to the shim.
MayRetryAgain(w) == ~LastAttempt(w).passed /\ deploy.shim # "off"

\* A failed first attempt goes to the shim.
MayRetry(w) == Len(attempts[w]) = 1 /\ ~LastAttempt(w).passed /\ deploy.shim # "off"

AnalyzeAttempt(w) ==
  /\ at[w] = "recorded"
  /\ MayRetry(w)
  /\ \E answer \in ModelAnswers :
       LET d == Analyze(deploy.shim = "model", now[w], LastAttempt(w), answer)
       IN /\ decision' = [decision EXCEPT ![w] = d]
          /\ IF d.eligible
             THEN /\ \E req \in RetryRequests(now[w], d) : now' = [now EXCEPT ![w] = req]
                  /\ comparison' = [comparison EXCEPT ![w] = d.comparison]
                  /\ MoveTo(w, "execute")
             ELSE MoveTo(w, "finalize") /\ UNCHANGED <<now, comparison>>
  /\ UNCHANGED <<sandbox, deploy, job, attempts, result>>

NoRetry(w) ==
  /\ at[w] = "recorded"
  /\ ~MayRetry(w)
  /\ MoveTo(w, "finalize")
  /\ UNCHANGED <<sandbox, deploy, job, now, comparison, decision, attempts, result>>

(***************************************************************************)
(* The score, in units of 1/10000 of a mark per point of the test cases'   *)
(* weights, so that all of it is integer: Unit(w) units are one mark.      *)
(***************************************************************************)
\* The maximum counts the test cases and not their weights.
CountOfTests(w) == Len(job[w].program.tests)

RawMax(w) == MaxScore(job[w].program)
Unit(w) == 10000 * RawMax(w)

Least(x, y) == IF x <= y THEN x ELSE y

Scaled(w) == IF RawMax(w) = 0 THEN 0 ELSE LastAttempt(w).score * Marks * 10000

\* quality_service: correctness, clamped to 100 percent, and quality by their weights.
Combined(w, quality) ==
  Marks * (Least(LastAttempt(w).score, RawMax(w)) * 100 * (100 - job[w].quality)
           + quality * RawMax(w) * job[w].quality)

\* Without a quality evaluation, or without an answer of the model, correctness alone counts.
Totals(w) ==
  {Scaled(w)}
  \cup {Combined(w, q) : q \in IF job[w].asked /\ job[w].quality > 0 THEN {0, 100} ELSE {}}

\* The weight counts here whether or not the quality is evaluated.
TreatAsPassed(w) == LastAttempt(w).passed \/ job[w].quality = 100

Finalize(w) ==
  /\ at[w] = "finalize"
  /\ \E total \in Totals(w) :
       result' = [result EXCEPT ![w] =
                    [status |-> IF TreatAsPassed(w) THEN "COMPLETED" ELSE "FAILED",
                     total  |-> total]]
  /\ MoveTo(w, "done")
  /\ UNCHANGED <<sandbox, deploy, job, now, comparison, decision, attempts>>

-----------------------------------------------------------------------------
(* Kills *)

\* The broker takes a task whose process was killed for done.
Killed(w) ==
  /\ at[w] = "sandbox"
  /\ KillWorker(w)
  /\ MoveTo(w, "lost")
  /\ UNCHANGED <<deploy, job, now, comparison, decision, attempts, result>>

\* The stages of a task that a worker process is at.
Started == {"execute", "sandbox", "recorded", "finalize"}

\* After a restart of the container it hands the unfinished tasks out again.
Restarted ==
  /\ KillContainer
  /\ at' = [w \in Workers |-> IF at[w] \in Started THEN "redelivered" ELSE at[w]]
  /\ UNCHANGED <<deploy, job, now, comparison, decision, attempts, result>>

\* The job of such a task has left QUEUED, so the first transition of its second run
\* raises: the job fails, whatever attempts it has.
Refuse(w) ==
  /\ at[w] = "redelivered"
  /\ result' = [result EXCEPT ![w] = [status |-> "FAILED", total |-> 0]]
  /\ MoveTo(w, "refused")
  /\ UNCHANGED <<sandbox, deploy, job, now, comparison, decision, attempts>>

TaskStep(w) ==
  \/ Execute(w) \/ EnterSandbox(w) \/ InSandbox(w) \/ LeaveSandbox(w)
  \/ AnalyzeAttempt(w) \/ NoRetry(w) \/ Finalize(w)

Next ==
  \/ \E w \in Workers : Take(w) \/ TaskStep(w) \/ Killed(w) \/ Refuse(w)
  \/ Restarted

\* A task that was started goes on; every wait in it has a deadline.
Spec == Init /\ [][Next]_vars /\ \A w \in Workers : WF_vars(TaskStep(w))

-----------------------------------------------------------------------------
EvaluationTypeOK ==
  /\ SandboxTypeOK
  /\ deploy \in Deployments
  /\ job \in [Workers -> Jobs]
  /\ at \in [Workers -> {"free", "waiting", "done", "lost", "redelivered", "refused"} \cup Started]
  /\ now \in [Workers -> Programs]
  /\ comparison \in [Workers -> {"strict", "whitespace_normalized"}]
  /\ \A w \in Workers :
       Len(attempts[w]) <= 2 /\ result[w].status \in {"none", "COMPLETED", "FAILED"}

\* All attempts made so far.
Made == UNION {{attempts[w][k] : k \in DOMAIN attempts[w]} : w \in Workers}

Credited(m, i) ==
  m.attempt.place # "local_crash" /\ i \in DOMAIN m.attempt.cases /\ m.attempt.cases[i].passed

\* Where the backends are more generous than the reference verdict: docker waits longer,
\* a test case may expect the exit code of a killed program, or the one a container has
\* that docker failed to run, the local workspace keeps what earlier test cases wrote, and
\* in docker a failing compiler is a failing program.
Generous(m, i) ==
  LET place == m.attempt.place
      t     == m.program.tests[i]
  IN \/ place = "docker" /\ t.clean.time > Quota /\ t.clean.time <= Quota + Grace
     \/ place = "docker" /\ ~Compiles(place, m.program) /\ t.exit = 1 /\ ~t.text
     \/ place \in {"local", "bridge", "docker"} /\ t.exit = -1 /\ t.clean.time > Quota
     \/ place = "docker" /\ t.exit = -1 /\ "raised" \in m.attempt.mishaps[i]
     \/ place = "guest" /\ t.exit = -9 /\ GuestTime(t) = Quota
     \/ place = "local" /\ Dirty(m.program, i)

\* A test case is passed only by a program that, alone in its directory, compiles, ends
\* in time and gives what is wanted, whichever backend ran it, but for the named lapses
\* (_run_local_testcase, _run_docker_testcase, the bridge and the guest agent).
CreditIsDeserved ==
  \A m \in Made : \A i \in DOMAIN m.program.tests :
    Credited(m, i) => Deserves(m.program, m.program.tests[i], m.mode) \/ Generous(m, i)

\* Where they are stricter: files of earlier test cases, one undecodable output that
\* costs the whole local run, compilers without all sources or without the profile's
\* flags, a call of docker that fails for one container, a guest that does not empty the
\* pipes and one that installs no packages.
Strict(m, i) ==
  LET place == m.attempt.place
      t     == m.program.tests[i]
  IN \/ place = "local" /\ Dirty(m.program, i)
     \/ place = "local_crash" /\ LocalCrashes(m.program) # {}
     \/ place \in {"docker", "bridge", "guest"} /\ ~Compiles(place, m.program)
     \/ place = "docker" /\ m.attempt.mishaps[i] # {}
     \/ place = "guest" /\ t.clean.size # "small"
     \/ place = "guest_error" /\ m.program.packages

\* A test case that ran and was not passed did not deserve it, but for those lapses.
DeservedIsCredited ==
  \A m \in Made : \A i \in DOMAIN m.program.tests :
    /\ m.attempt.place \in {"local", "local_crash", "docker", "bridge", "guest", "guest_error"}
    /\ ~Credited(m, i)
    => ~Deserves(m.program, m.program.tests[i], m.mode) \/ Strict(m, i)

\* Two workers that are given the same program come to the same score, though the loser
\* of the race for the lock is judged by another backend.  What can part them: a backend
\* that is not there, a lapse above, and a retry for white space, which the shim grants to a
\* docker run and not to a microVM, whose test cases it does not see
\* (execute_code_eval_job 905-945, _deterministic_whitespace_decision 362-369).
SameProgramSameScore ==
  \A v, w \in Workers :
    /\ at[v] = "done" /\ at[w] = "done" /\ job[v] = job[w] /\ job[v].quality = 0
    /\ decision[v].reason # "patch" /\ decision[w].reason # "patch"
    /\ result[v] # result[w]
    => \/ \E u \in {v, w} : decision[u].reason = "whitespace"
       \/ \E u \in {v, w} : \E k \in DOMAIN attempts[u] :
            LET m == attempts[u][k]
            IN \/ m.attempt.place \notin {"local", "docker", "bridge", "guest"}
               \/ \E i \in DOMAIN m.program.tests : Generous(m, i) \/ Strict(m, i)

\* What the retry may cost: a patch replaces a better score by a worse one, the lock or a
\* crash may move the retry elsewhere, and docker may fail for other containers.  A retry
\* that only collapses white space passes every test case otherwise
\* (_deterministic_whitespace_decision, code_eval_tasks 379-409).
RetryHelps ==
  \A w \in Workers : Len(attempts[w]) = 2 =>
    LET first  == attempts[w][1].attempt
        second == attempts[w][2].attempt
    IN decision[w].reason = "whitespace" =>
         \/ second.passed
         \/ first.place = "local_crash"
         \/ first.place # second.place
         \/ first.mishaps # second.mishaps

\* No score exceeds the marks of the assignment, and all marks without passing need a
\* quality weight; only a score that the bridge forwards is believed unseen
\* (build_score_breakdown 28-33 clamps the percentage and not the total).
WithinMarks ==
  \A w \in Workers : at[w] = "done" =>
    \/ /\ result[w].total \in 0 .. Marks * Unit(w)
       /\ /\ result[w].total = Marks * Unit(w) /\ job[w].quality < 100 /\ RawMax(w) > 0
          => LastAttempt(w).passed
       /\ result[w].total < Marks * Unit(w) /\ job[w].quality = 0 => ~LastAttempt(w).passed
    \/ LastAttempt(w).place = "transport"

\* Every task that was started ends with a score, is lost with its process or goes back to
\* the broker, also when a stale lock file, a silent guest or a full pipe keeps it waiting.
TasksEnd ==
  \A w \in Workers : at[w] \in Started ~> at[w] \in {"done", "lost", "redelivered"}

=============================================================================
