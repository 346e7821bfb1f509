-------------------------- MODULE EvaluationProofs --------------------------
(***************************************************************************)
(* What holds of Evaluation for every program, quota, deployment and       *)
(* number of workers.                                                      *)
(*                                                                         *)
(* The workers' part in the microVM is a behaviour of Sandbox, so its      *)
(* invariant carries over.  The judges are compared first as operators: on *)
(* one test case each of the four places agrees with the reference verdict *)
(* but for the lapses Generous and Strict name.  An invariant then says of *)
(* every recorded attempt which of these verdicts it is, and of the retry  *)
(* what the shim has seen before it.  A last one bounds what an attempt    *)
(* earns by the weights of its test cases, and from it come the bounds of  *)
(* the total.                                                              *)
(***************************************************************************)
EXTENDS Evaluation, SandboxProofs, SumTheorems

----------------------------------------------------------------------------
(* The microVM *)

\* Every step of a worker is a step of Sandbox or leaves its variables alone.
LEMMA StepsOfSandbox == [Next]_vars => [SandboxNext]_sandbox
<1>1. ASSUME Next PROVE [SandboxNext]_sandbox
    <2>1. ASSUME NEW w \in Workers, EnterSandbox(w) \/ InSandbox(w) \/ LeaveSandbox(w)
          PROVE  SandboxNext
        BY <2>1 DEF EnterSandbox, InSandbox, LeaveSandbox, SandboxNext, SandboxStep
    <2>2. ASSUME NEW w \in Workers, Killed(w) PROVE SandboxNext
        BY <2>2 DEF Killed, SandboxNext
    <2>3. ASSUME NEW w \in Workers,
                 Take(w) \/ Execute(w) \/ AnalyzeAttempt(w) \/ NoRetry(w) \/ Finalize(w)
                   \/ Refuse(w)
          PROVE  UNCHANGED sandbox
        BY <2>3 DEF Take, Execute, AnalyzeAttempt, NoRetry, Finalize, Refuse
    <2>4. Restarted => SandboxNext BY DEF Restarted, SandboxNext
    <2>5. QED BY <1>1, <2>1, <2>2, <2>3, <2>4 DEF Next, TaskStep
<1>2. UNCHANGED vars => UNCHANGED sandbox BY DEF vars
<1>3. QED BY <1>1, <1>2

\* What the worker processes do with the microVM, from whichever task, with kills and
\* restarts, is a behaviour of Sandbox (execute_firecracker_vsock_backend).
THEOREM TasksKeepToSandbox == Spec => SandboxInit /\ [][SandboxNext]_sandbox
BY StepsOfSandbox, PTL DEF Spec, Init

\* So its inductive invariant holds of the tasks.
LEMMA SandboxHolds == Spec => []IndInv
<1>1. Init => IndInv BY InitIndInv DEF Init
<1>2. IndInv /\ [Next]_vars => IndInv' BY StepsOfSandbox, NextIndInv
<1>3. QED BY <1>1, <1>2, PTL DEF Spec

\* Whatever programs, settings and times the tasks meet, one VM runs on a host at most, and
\* only a kill leaves a VM behind, only a kill or a fault of the file system a lock file.
THEOREM MicroVMIsExclusive == Spec => [](OneVM /\ NothingLeft)
<1>1. IndInv => OneVM
    BY DEF IndInv, OneVM, SandboxTypeOK, VMIsHeld, HolderHasFile, OrphanIsLockedIn, StaleLock
<1>2. IndInv => NothingLeft BY DEF IndInv, NothingLeft, VMIsHeld, LeftByKill
<1>3. QED BY <1>1, <1>2, SandboxHolds, PTL

----------------------------------------------------------------------------
(* The judges *)

Comparisons == {"strict", "whitespace_normalized"}
Places == {"local", "docker", "bridge", "guest"}

\* The fields of a test case and of what the program does on it.
LEMMA TestFields ==
    ASSUME NEW req \in Programs, NEW i \in DOMAIN req.tests
    PROVE  LET t == req.tests[i] IN
           /\ t \in Tests /\ t.exit \in {-9, -1, 0, 1} /\ t.text \in BOOLEAN
           /\ t.clean \in Behaviours /\ t.dirty \in Behaviours
<1>1. req.tests \in Seq(Tests) BY DEF Programs
<1>2. req.tests[i] \in Tests BY <1>1
<1>3. QED BY <1>2 DEF Tests

\* The fields of a behaviour.
LEMMA BehaviourFields ==
    ASSUME NEW b \in Behaviours
    PROVE  /\ b.time \in Nat /\ b.exit \in {0, 1}
           /\ b.out \in {"same", "spaced", "other", "blank", "binary"}
           /\ b.size \in {"small", "pipe", "over"}
    BY DEF Behaviours

\* The verdict of Judge.
LEMMA JudgeVerdict ==
    ASSUME NEW t, NEW seen, NEW mode
    PROVE  LET c == Judge(t, seen, mode) IN
           /\ c.passed <=> /\ seen.exit = t.exit
                           /\ t.text => Equivalent(seen.out, mode)
           /\ c.weight = t.weight /\ c.out = seen.out
    BY DEF Judge

\* Only a text that is as wanted, up to white space at most, is equivalent.
LEMMA EquivalentTexts ==
    ASSUME NEW mode
    PROVE  /\ ~Equivalent("blank", mode) /\ ~Equivalent("other", mode)
           /\ Equivalent("same", mode)
    BY DEF Equivalent

\* A run that is over in time, before its output is cut.
LEMMA FinishedVerdict ==
    ASSUME NEW t \in Tests, NEW b \in Behaviours, NEW mode
    PROVE  Judge(t, Finished(b), mode).passed
             <=> /\ b.exit = t.exit
                 /\ t.text => b.size # "over" /\ Equivalent(b.out, mode)
<1>1. Finished(b).exit = b.exit /\ Finished(b).out = Truncated(b) BY DEF Finished
<1>2. Equivalent(Truncated(b), mode)
        <=> b.size # "over" /\ Equivalent(b.out, mode)
    BY EquivalentTexts DEF Truncated
<1>3. QED BY <1>1, <1>2, JudgeVerdict

\* What the code promises of the verdict that attempt m gives on test case i: the two
\* properties of Evaluation, and what a verdict says besides passing.
JudgesWell(m, i) ==
    LET t == m.program.tests[i]
        c == m.attempt.cases[i]
    IN  /\ c.passed => Deserves(m.program, t, m.mode) \/ Generous(m, i)
        /\ Deserves(m.program, t, m.mode) => c.passed \/ Strict(m, i)
        /\ c.weight = t.weight

\* The local backend: one workspace for all test cases.
LEMMA LocalJudges ==
    ASSUME NEW m, m.program \in Programs, NEW i \in DOMAIN m.program.tests,
           m.attempt.place = "local", m.attempt.cases = LocalCases(m.program, m.mode)
    PROVE  JudgesWell(m, i)
<1> DEFINE t == m.program.tests[i]
<1> DEFINE c == m.attempt.cases[i]
<1>1. /\ t \in Tests /\ t.clean \in Behaviours /\ t.clean.time \in Nat /\ t.text \in BOOLEAN
      /\ Quota \in Nat
    BY TestFields, BehaviourFields, TimesAssumption
<1>2. c = IF Compiles("local", m.program)
          THEN Judge(t, HostRun(LocalBehaviour(m.program, i)), m.mode)
          ELSE NotCompiled(t)
    BY DEF LocalCases
<1>3. c.weight = t.weight BY <1>2, JudgeVerdict DEF NotCompiled
<1>4. CASE Dirty(m.program, i) BY <1>3, <1>4 DEF JudgesWell, Generous, Strict
<1>5. CASE ~Compiles("local", m.program)
    BY <1>2, <1>3, <1>5 DEF JudgesWell, NotCompiled, Deserves
<1>6. CASE ~Dirty(m.program, i) /\ Compiles("local", m.program)
    <2>1. c = Judge(t, HostRun(t.clean), m.mode) BY <1>2, <1>6 DEF LocalBehaviour
    <2>2. CASE t.clean.time > Quota
        <3>1. HostRun(t.clean).exit = -1 /\ HostRun(t.clean).out = "blank"
            BY <2>2 DEF HostRun
        <3>2. c.passed => t.exit = -1 BY <2>1, <3>1, JudgeVerdict
        <3>3. ~(t.clean.time <= Quota) BY <1>1, <2>2
        <3>4. QED BY <1>3, <2>2, <3>2, <3>3 DEF JudgesWell, Generous, Deserves
    <2>3. CASE ~(t.clean.time > Quota)
        <3>1. c = Judge(t, Finished(t.clean), m.mode) BY <2>1, <2>3 DEF HostRun
        <3>2. t.clean.time <= Quota BY <1>1, <2>3
        <3>3. c.passed <=> /\ t.clean.exit = t.exit
                           /\ t.text => t.clean.size # "over" /\ Equivalent(t.clean.out, m.mode)
            BY <1>1, <3>1, FinishedVerdict
        <3>4. QED BY <1>3, <1>6, <3>2, <3>3 DEF JudgesWell, Deserves
    <2>4. QED BY <2>2, <2>3
<1>7. QED BY <1>4, <1>5, <1>6

\* A program that a place without the whole compiler call compiles, compiles.
LEMMA CompilesFully ==
    ASSUME NEW req \in Programs, NEW place \in Places, Compiles(place, req)
    PROVE  Compiles("local", req)
    BY DEF Compiles, ProfileFlags, AllSources, Places

\* The docker backend: a container for each test case, and one shell command.
LEMMA DockerJudges ==
    ASSUME NEW m, m.program \in Programs, NEW i \in DOMAIN m.program.tests,
           m.attempt.place = "docker",
           m.attempt.cases = DockerCases(m.program, m.mode, m.attempt.mishaps)
    PROVE  JudgesWell(m, i)
<1> DEFINE t == m.program.tests[i]
<1> DEFINE c == m.attempt.cases[i]
<1>1. /\ t \in Tests /\ t.clean \in Behaviours /\ t.clean.time \in Nat /\ t.text \in BOOLEAN
      /\ Quota \in Nat /\ Grace \in Nat
    BY TestFields, BehaviourFields, TimesAssumption
<1> DEFINE b == Contained(m.program, i)
<1> DEFINE mishaps == m.attempt.mishaps[i]
<1> DEFINE seen == DockerRun(b, mishaps)
<1>2. c = Judge(t, seen, m.mode) BY DEF DockerCases
<1> HIDE DEF seen
<1>3. /\ c.weight = t.weight
      /\ c.passed <=> seen.exit = t.exit /\ (t.text => Equivalent(seen.out, m.mode))
    BY <1>2, JudgeVerdict
<1>4. CASE "raised" \in mishaps
    <2>1. seen.exit = -1 BY <1>4 DEF DockerRun, seen
    <2>2. QED BY <1>3, <1>4, <2>1 DEF JudgesWell, Generous, Strict
<1>5. CASE "raised" \notin mishaps /\ ~Compiles("docker", m.program)
    <2>1. b = FailingCompiler BY <1>5 DEF Contained
    <2>2. b.time = 0 /\ b.exit = 1 /\ b.out = "blank" /\ b.size = "small"
        BY <2>1 DEF FailingCompiler
    <2>3. b.time <= Quota + Grace BY <1>1, <2>2
    <2>4. Truncated(b) = "blank" BY <2>2 DEF Truncated
    <2>5. seen.exit = 1 /\ seen.out = "blank"
        BY <1>5, <2>2, <2>3, <2>4 DEF DockerRun, seen
    <2>6. c.passed => t.exit = 1 /\ ~t.text BY <1>3, <2>5, EquivalentTexts
    <2>7. QED BY <1>3, <1>5, <2>6 DEF JudgesWell, Generous, Strict
<1>6. CASE "raised" \notin mishaps /\ Compiles("docker", m.program)
    <2>1. b = t.clean BY <1>6 DEF Contained
    <2>2. Compiles("local", m.program) BY <1>6, CompilesFully DEF Places
    <2>3. CASE t.clean.time > Quota + Grace
        <3>1. ~(t.clean.time <= Quota + Grace) BY <1>1, <2>3
        <3>2. seen.exit = -1 BY <2>1, <3>1 DEF DockerRun, seen
        <3>3. t.clean.time > Quota /\ ~(t.clean.time <= Quota) BY <1>1, <2>3
        <3>4. QED BY <1>3, <3>2, <3>3 DEF JudgesWell, Generous, Deserves
    <2>4. CASE t.clean.time > Quota /\ t.clean.time <= Quota + Grace
        <3>1. ~(t.clean.time <= Quota) BY <1>1, <2>4
        <3>2. QED BY <1>3, <2>4, <3>1 DEF JudgesWell, Generous, Deserves
    <2>5. CASE t.clean.time <= Quota
        <3>1. t.clean.time <= Quota + Grace BY <1>1, <2>5
        <3>2. /\ seen.exit = t.clean.exit
              /\ seen.out = IF "unread" \notin mishaps THEN Truncated(t.clean) ELSE "blank"
            BY <1>6, <2>1, <3>1 DEF DockerRun, seen
        <3>3. Equivalent(Truncated(t.clean), m.mode)
                <=> t.clean.size # "over" /\ Equivalent(t.clean.out, m.mode)
            BY EquivalentTexts DEF Truncated
        <3>4. ~Equivalent("blank", m.mode) BY EquivalentTexts
        <3>5. CASE "unread" \notin mishaps
            BY <1>3, <2>2, <2>5, <3>2, <3>3, <3>5 DEF JudgesWell, Deserves
        <3>6. CASE "unread" \in mishaps
            <4>1. c.passed => t.clean.exit = t.exit /\ ~t.text BY <1>3, <3>2, <3>4, <3>6
            <4>2. Strict(m, i) BY <3>6 DEF Strict
            <4>3. QED BY <1>3, <2>2, <2>5, <4>1, <4>2 DEF JudgesWell, Deserves
        <3>7. QED BY <3>5, <3>6
    <2>6. QED BY <1>1, <2>3, <2>4, <2>5
<1>7. QED BY <1>4, <1>5, <1>6

\* The reference executor of the bridge: a directory for each test case.
LEMMA BridgeJudges ==
    ASSUME NEW m, m.program \in Programs, NEW i \in DOMAIN m.program.tests,
           m.attempt.place = "bridge", m.attempt.cases = BridgeCases(m.program, m.mode)
    PROVE  JudgesWell(m, i)
<1> DEFINE t == m.program.tests[i]
<1> DEFINE c == m.attempt.cases[i]
<1>1. /\ t \in Tests /\ t.clean \in Behaviours /\ t.clean.time \in Nat /\ t.text \in BOOLEAN
      /\ Quota \in Nat
    BY TestFields, BehaviourFields, TimesAssumption
<1>2. c = IF Compiles("bridge", m.program) THEN Judge(t, HostRun(t.clean), m.mode)
          ELSE NotCompiled(t)
    BY DEF BridgeCases
<1>3. c.weight = t.weight BY <1>2, JudgeVerdict DEF NotCompiled
<1>4. CASE ~Compiles("bridge", m.program)
    BY <1>2, <1>3, <1>4 DEF JudgesWell, NotCompiled, Strict
<1>5. CASE Compiles("bridge", m.program)
    <2>1. c = Judge(t, HostRun(t.clean), m.mode) BY <1>2, <1>5
    <2>2. Compiles("local", m.program) BY <1>5, CompilesFully DEF Places
    <2>3. CASE t.clean.time > Quota
        <3>1. HostRun(t.clean).exit = -1 BY <2>3 DEF HostRun
        <3>2. c.passed => t.exit = -1 BY <2>1, <3>1, JudgeVerdict
        <3>3. ~(t.clean.time <= Quota) BY <1>1, <2>3
        <3>4. QED BY <1>3, <2>3, <3>2, <3>3 DEF JudgesWell, Generous, Deserves
    <2>4. CASE ~(t.clean.time > Quota)
        <3>1. c = Judge(t, Finished(t.clean), m.mode) BY <2>1, <2>4 DEF HostRun
        <3>2. t.clean.time <= Quota BY <1>1, <2>4
        <3>3. c.passed <=> /\ t.clean.exit = t.exit
                           /\ t.text => t.clean.size # "over" /\ Equivalent(t.clean.out, m.mode)
            BY <1>1, <3>1, FinishedVerdict
        <3>4. QED BY <1>3, <2>2, <3>2, <3>3 DEF JudgesWell, Deserves
    <2>5. QED BY <2>3, <2>4
<1>6. QED BY <1>4, <1>5

\* The guest agent, which reads the pipes when the process has ended.
LEMMA GuestJudges ==
    ASSUME NEW m, m.program \in Programs, NEW i \in DOMAIN m.program.tests,
           m.attempt.place = "guest", m.attempt.cases = GuestCases(m.program, m.mode)
    PROVE  JudgesWell(m, i)
<1> DEFINE t == m.program.tests[i]
<1> DEFINE c == m.attempt.cases[i]
<1>1. /\ t \in Tests /\ t.clean \in Behaviours /\ t.clean.time \in Nat /\ t.text \in BOOLEAN
      /\ Quota \in Nat
    BY TestFields, BehaviourFields, TimesAssumption
<1>2. c = IF Compiles("guest", m.program) THEN Judge(t, GuestRun(t.clean), m.mode)
          ELSE NotCompiled(t)
    BY DEF GuestCases
<1>3. c.weight = t.weight BY <1>2, JudgeVerdict DEF NotCompiled
<1>4. CASE ~Compiles("guest", m.program)
    BY <1>2, <1>3, <1>4 DEF JudgesWell, NotCompiled, Strict
<1>5. CASE Compiles("guest", m.program)
    <2>1. c = Judge(t, GuestRun(t.clean), m.mode) BY <1>2, <1>5
    <2>2. Compiles("local", m.program) BY <1>5, CompilesFully DEF Places
    <2>3. CASE t.clean.time > Quota \/ t.clean.size # "small"
        <3>1. GuestRun(t.clean).exit = -9 /\ GuestTime(t) = Quota
            BY <2>3 DEF GuestRun, GuestTime
        <3>2. c.passed => t.exit = -9 BY <2>1, <3>1, JudgeVerdict
        <3>3. Deserves(m.program, t, m.mode) => t.clean.size # "small"
            BY <1>1, <2>3 DEF Deserves
        <3>4. QED BY <1>3, <3>1, <3>2, <3>3 DEF JudgesWell, Generous, Strict
    <2>4. CASE ~(t.clean.time > Quota \/ t.clean.size # "small")
        <3>1. c = Judge(t, Finished(t.clean), m.mode) BY <2>1, <2>4 DEF GuestRun
        <3>2. t.clean.time <= Quota BY <1>1, <2>4
        <3>3. c.passed <=> /\ t.clean.exit = t.exit
                           /\ t.text => t.clean.size # "over" /\ Equivalent(t.clean.out, m.mode)
            BY <1>1, <3>1, FinishedVerdict
        <3>4. QED BY <1>3, <2>2, <3>2, <3>3 DEF JudgesWell, Deserves
    <2>5. QED BY <2>3, <2>4
<1>6. QED BY <1>4, <1>5

----------------------------------------------------------------------------
(* What is kept of a task *)

Stages == {"free", "waiting", "done", "lost", "redelivered", "refused"} \cup Started

TaskTypes ==
    /\ deploy \in Deployments
    /\ job \in [Workers -> Jobs]
    /\ at \in [Workers -> Stages]
    /\ now \in [Workers -> Programs]
    /\ comparison \in [Workers -> Comparisons]
    /\ decision = [w \in Workers |-> decision[w]]
    /\ attempts = [w \in Workers |-> attempts[w]]
    /\ result = [w \in Workers |-> result[w]]

\* An answer that a backend can give for a program: the cases of the place it names, or
\* none, or those before the one that ended a local run.  Only the upstream of the bridge
\* scores without test cases.
Given(a, req, mode) ==
    /\ a.place \in Places => a = Attempt(a.place, req, mode, a.mishaps)
    /\ a.place \notin Places \cup {"local_crash"} => a.cases = <<>> /\ ~a.listed
    /\ a.place = "local_crash" => LocalCrashes(req) # {}
    /\ a.place = "guest_error" => req.packages
    /\ a.place \notin Places \cup {"transport"} => a.score = 0 /\ a.passed = FALSE

GivenAttempt(m) ==
    /\ m.program \in Programs /\ m.mode \in Comparisons
    /\ Given(m.attempt, m.program, m.mode)

\* Where a task can be: before the first attempt, after it without a retry, before the
\* retry, and after it.
Fresh(w) ==
    /\ attempts[w] = <<>> /\ decision[w] = Undecided
    /\ now[w] = job[w].program /\ comparison[w] = "strict"
One(w) == Len(attempts[w]) = 1 /\ attempts[w] = <<attempts[w][1]>>
Two(w) == Len(attempts[w]) = 2 /\ attempts[w] = <<attempts[w][1], attempts[w][2]>>
Once(w) == One(w) /\ ~decision[w].eligible /\ now[w] = job[w].program
Retrying(w) == One(w) /\ decision[w].eligible
Twice(w) == Two(w) /\ decision[w].eligible

StageOf(w) ==
    /\ at[w] \in {"free", "waiting"} => Fresh(w)
    /\ at[w] \in {"execute", "sandbox", "lost"} => Fresh(w) \/ Retrying(w)
    /\ at[w] \in {"recorded", "finalize", "done"} => Once(w) \/ Twice(w)
    /\ at[w] \in {"redelivered", "refused"} =>
         Fresh(w) \/ Retrying(w) \/ Once(w) \/ Twice(w)

\* The first attempt is of the program that was submitted, compared strictly.
FirstOf(w) ==
    attempts[w] # <<>> =>
      attempts[w][1].program = job[w].program /\ attempts[w][1].mode = "strict"

\* A retry for white space: the rule has looked at the first attempt, and what is run
\* again is the same program with white space collapsed.
RetryOf(w) ==
    /\ decision[w].eligible <=> decision[w].reason \in {"whitespace", "patch"}
    /\ decision[w].reason = "whitespace" =>
         /\ Deterministic(job[w].program, attempts[w][1].attempt).eligible
         /\ now[w] = job[w].program /\ comparison[w] = "whitespace_normalized"
         /\ Twice(w) => /\ attempts[w][2].program = job[w].program
                        /\ attempts[w][2].mode = "whitespace_normalized"

GivenOf(w) == \A k \in DOMAIN attempts[w] : GivenAttempt(attempts[w][k])

\* Without a quality weight the score is that of the last attempt.
ScoreOf(w) ==
    /\ result[w].status \in {"none", "COMPLETED", "FAILED"}
    /\ at[w] = "done" /\ job[w].quality = 0 =>
         result[w] = [status |-> IF LastAttempt(w).passed THEN "COMPLETED" ELSE "FAILED",
                      total  |-> Scaled(w)]

TaskOf(w) == StageOf(w) /\ FirstOf(w) /\ RetryOf(w) /\ GivenOf(w) /\ ScoreOf(w)

\* The inductive invariant of the tasks.
TasksInv == TaskTypes /\ \A w \in Workers : TaskOf(w)

----------------------------------------------------------------------------
(* What a backend answers *)

\* An attempt without test cases, for whatever reason a backend gives.
LEMMA NothingRunIsGiven ==
    ASSUME NEW req, NEW mode, NEW reason,
           reason \notin Places \cup {"local_crash"},
           reason = "guest_error" => req.packages
    PROVE  Given(NoAttempt(reason), req, mode)
    BY DEF Given, NoAttempt

\* A run of all test cases.
LEMMA RunIsGiven ==
    ASSUME NEW req, NEW mode, NEW place \in Places, NEW mishaps
    PROVE  Given(Attempt(place, req, mode, mishaps), req, mode)
<1>1. /\ Attempt(place, req, mode, mishaps).place = place
      /\ Attempt(place, req, mode, mishaps).mishaps = mishaps
    BY DEF Attempt
<1>2. QED BY <1>1 DEF Given, Places

\* A local run, which one undecodable output ends.
LEMMA LocalIsGiven ==
    ASSUME NEW req, NEW mode
    PROVE  Given(LocalAnswer(req, mode), req, mode)
<1>1. CASE LocalCrashes(req) = {}
    <2>1. LocalAnswer(req, mode) = Attempt("local", req, mode, Smoothly(req))
        BY <1>1 DEF LocalAnswer
    <2>2. QED BY <2>1, RunIsGiven DEF Places
<1>2. CASE LocalCrashes(req) # {}
    <2>1. /\ LocalAnswer(req, mode).place = "local_crash"
          /\ LocalAnswer(req, mode).score = 0 /\ LocalAnswer(req, mode).passed = FALSE
        BY <1>2 DEF LocalAnswer, Attempt
    <2>2. QED BY <1>2, <2>1 DEF Given, Places
<1>3. QED BY <1>1, <1>2

\* The guest's answer, an error if packages are wanted.
LEMMA GuestIsGiven ==
    ASSUME NEW req \in Programs, NEW mode
    PROVE  Given(GuestAnswer(req, mode), req, mode)
<1>1. CASE req.language = "python" /\ req.packages
    <2>1. GuestAnswer(req, mode) = NoAttempt("guest_error") BY <1>1 DEF GuestAnswer
    <2>2. QED BY <1>1, <2>1, NothingRunIsGiven DEF Places
<1>2. CASE ~(req.language = "python" /\ req.packages)
    <2>1. GuestAnswer(req, mode) = Attempt("guest", req, mode, Smoothly(req))
        BY <1>2, Zenon DEF GuestAnswer
    <2>2. QED BY <2>1, RunIsGiven DEF Places
<1>3. QED BY <1>1, <1>2

\* What the local and the docker backend return.
LEMMA HostIsGiven ==
    ASSUME NEW req, NEW mode, NEW a \in LocalAttempts(req, mode) \cup DockerAttempts(req, mode)
    PROVE  Given(a, req, mode)
<1>1. CASE a = LocalAnswer(req, mode) BY <1>1, LocalIsGiven
<1>2. ASSUME NEW mishaps, a = Attempt("docker", req, mode, mishaps) PROVE Given(a, req, mode)
    BY <1>2, RunIsGiven DEF Places
<1>3. CASE a \in {NoAttempt("local_disabled"), NoAttempt("docker_unavailable")}
    BY <1>3, NothingRunIsGiven DEF Places
<1>4. QED BY <1>1, <1>2, <1>3 DEF LocalAttempts, DockerAttempts

\* What stands in for a microVM that is not ready.
LEMMA FallbackIsGiven ==
    ASSUME deploy \in Deployments, NEW req, NEW mode, NEW a \in FallbackAttempts(req, mode)
    PROVE  Given(a, req, mode)
<1>1. deploy.fallback \in {"none", "local", "docker", "invalid"} BY DEF Deployments
<1>2. CASE deploy.fallback = "none"
    BY <1>2, NothingRunIsGiven DEF FallbackAttempts, Places
<1>3. CASE deploy.fallback = "local" BY <1>3, HostIsGiven DEF FallbackAttempts
<1>4. CASE deploy.fallback = "docker" BY <1>4, HostIsGiven DEF FallbackAttempts
<1>5. CASE deploy.fallback = "invalid"
    BY <1>5, NothingRunIsGiven DEF FallbackAttempts, Places
<1>6. QED BY <1>1, <1>2, <1>3, <1>4, <1>5

\* What the microVM backend returns in each runtime mode.
LEMMA MicroVMIsGiven ==
    ASSUME deploy \in Deployments, NEW req, NEW mode, NEW a \in MicroVMAttempts(req, mode)
    PROVE  Given(a, req, mode)
<1>1. deploy.mode \in Modes BY DEF Deployments
<1>2. CASE deploy.mode \in {"disabled", "pending", "firecracker_vsock"}
    BY <1>2, FallbackIsGiven DEF MicroVMAttempts
<1>3. CASE deploy.mode = "pilot_local" BY <1>3, HostIsGiven DEF MicroVMAttempts
<1>4. CASE deploy.mode = "pilot_docker" BY <1>4, HostIsGiven DEF MicroVMAttempts
<1>5. CASE deploy.mode = "runtime_bridge"
    <2>1. a \in FallbackAttempts(req, mode) \/ a = Attempt("bridge", req, mode, Smoothly(req))
        BY <1>5 DEF MicroVMAttempts, BridgeAttempts
    <2>2. QED BY <2>1, FallbackIsGiven, RunIsGiven DEF Places
<1>6. CASE deploy.mode = "microvm_transport"
    <2>1. a \in FallbackAttempts(req, mode) \/ a \in TransportAttempts(req)
        BY <1>6 DEF MicroVMAttempts
    <2>2. ASSUME a \in TransportAttempts(req)
          PROVE  a.place = "transport" /\ a.cases = <<>> /\ a.listed = FALSE
        BY <2>2 DEF TransportAttempts
    <2>3. QED BY <2>1, <2>2, FallbackIsGiven DEF Given, Places
<1>7. QED BY <1>1, <1>2, <1>3, <1>4, <1>5, <1>6 DEF Modes

\* What any backend returns.
LEMMA BackendIsGiven ==
    ASSUME deploy \in Deployments, NEW req, NEW mode, NEW a \in BackendAttempts(req, mode)
    PROVE  Given(a, req, mode)
<1>1. deploy.backend \in {"local", "docker", "microvm", "unknown"} BY DEF Deployments
<1>2. CASE req.tests = <<>>
    BY <1>2, NothingRunIsGiven DEF BackendAttempts, Places
<1>3. CASE req.tests # <<>> /\ deploy.backend = "unknown"
    BY <1>3, NothingRunIsGiven DEF BackendAttempts, Places
<1>4. CASE req.tests # <<>> /\ deploy.backend = "local"
    BY <1>4, HostIsGiven DEF BackendAttempts
<1>5. CASE req.tests # <<>> /\ deploy.backend = "docker"
    BY <1>5, HostIsGiven DEF BackendAttempts
<1>6. CASE req.tests # <<>> /\ deploy.backend = "microvm"
    BY <1>6, MicroVMIsGiven DEF BackendAttempts
<1>7. QED BY <1>1, <1>2, <1>3, <1>4, <1>5, <1>6

----------------------------------------------------------------------------
(* One worker acts, the others keep what they have *)

\* A worker whose entries stay keeps its part of the invariant.
LEMMA SameTask ==
    ASSUME NEW v \in Workers, TaskOf(v), job' = job,
           at'[v] = at[v], now'[v] = now[v], comparison'[v] = comparison[v],
           decision'[v] = decision[v], attempts'[v] = attempts[v], result'[v] = result[v]
    PROVE  TaskOf(v)'
<1>1. StageOf(v)' BY DEF TaskOf, StageOf, Fresh, Once, Twice, Retrying, One, Two
<1>2. FirstOf(v)' BY DEF TaskOf, FirstOf
<1>3. RetryOf(v)' BY DEF TaskOf, RetryOf, Twice, Two
<1>4. GivenOf(v)' BY DEF TaskOf, GivenOf
<1>5. ScoreOf(v)' BY DEF TaskOf, ScoreOf, LastAttempt, Scaled, RawMax
<1>6. QED BY <1>1, <1>2, <1>3, <1>4, <1>5 DEF TaskOf

\* An action of one worker, from its own part and the types.
LEMMA OneTask ==
    ASSUME TasksInv, NEW w \in Workers, job' = job, TaskTypes', TaskOf(w)',
           \A v \in Workers \ {w} :
             /\ at'[v] = at[v] /\ now'[v] = now[v] /\ comparison'[v] = comparison[v]
             /\ decision'[v] = decision[v] /\ attempts'[v] = attempts[v]
             /\ result'[v] = result[v]
    PROVE  TasksInv'
<1>1. ASSUME NEW v \in Workers \ {w} PROVE TaskOf(v)'
    BY <1>1, SameTask DEF TasksInv
<1>2. QED BY <1>1 DEF TasksInv

\* A step that only moves a worker from one stage to another where the same is known.
LEMMA MoveStep ==
    ASSUME TasksInv, NEW w \in Workers, NEW place \in Stages \ {"done"}, MoveTo(w, place),
           UNCHANGED <<deploy, job, now, comparison, decision, attempts, result>>,
           \/ at[w] \in {"waiting", "execute", "sandbox"}
              /\ place \in {"execute", "sandbox", "lost"}
           \/ at[w] = "recorded" /\ place = "finalize"
    PROVE  TasksInv'
<1>1. at' = [at EXCEPT ![w] = place] /\ at \in [Workers -> Stages]
    BY DEF MoveTo, TasksInv, TaskTypes
<1>2. TaskTypes' BY <1>1 DEF TasksInv, TaskTypes
<1>3. at'[w] = place /\ TaskOf(w) BY <1>1 DEF TasksInv
<1>4. StageOf(w)'
    BY <1>3 DEF TaskOf, StageOf, Fresh, Once, Twice, Retrying, One, Two, Stages, Started
<1>5. FirstOf(w)' /\ RetryOf(w)' BY <1>3 DEF TaskOf, FirstOf, RetryOf, Twice, Two
<1>6. GivenOf(w)' /\ ScoreOf(w)' BY <1>3 DEF TaskOf, GivenOf, ScoreOf
<1>7. QED BY <1>1, <1>2, <1>3, <1>4, <1>5, <1>6, OneTask DEF TaskOf

\* The second of two attempts.
LEMMA AppendToOne ==
    ASSUME NEW s, NEW x, NEW y, s = <<x>>
    PROVE  Append(s, y) = <<x, y>>
<1> DEFINE both == Append(s, y)
<1>1. s \in Seq({x, y}) /\ Len(s) = 1 /\ s[1] = x OBVIOUS
<1>2. both \in Seq({x, y}) /\ Len(both) = 2 /\ both[1] = x /\ both[2] = y BY <1>1
<1> HIDE DEF both
<1>3. both = <<x, y>> BY <1>2
<1>4. QED BY <1>3 DEF both

\* An attempt is recorded, the first or the second.
LEMMA RecordStep ==
    ASSUME TasksInv, NEW w \in Workers, at[w] \in {"execute", "sandbox"},
           NEW a, Given(a, now[w], comparison[w]), Record(w, a), UNCHANGED <<deploy, job>>
    PROVE  TasksInv'
<1> DEFINE m == [attempt |-> a, program |-> now[w], mode |-> comparison[w]]
<1>1. /\ at' = [at EXCEPT ![w] = "recorded"] /\ at \in [Workers -> Stages]
      /\ attempts' = [attempts EXCEPT ![w] = Append(attempts[w], m)]
      /\ UNCHANGED <<now, comparison, decision, result>>
    BY DEF Record, MoveTo, TasksInv, TaskTypes
<1>2. attempts = [v \in Workers |-> attempts[v]] BY DEF TasksInv, TaskTypes
<1>3. TaskTypes' 
    <2>1. at' \in [Workers -> Stages] BY <1>1 DEF Stages, Started
    <2>2. attempts' = [v \in Workers |-> attempts'[v]] BY <1>1, <1>2
    <2>3. QED BY <1>1, <2>1, <2>2 DEF TasksInv, TaskTypes
<1>4. at'[w] = "recorded" /\ attempts'[w] = Append(attempts[w], m)
    BY <1>1, <1>2
<1>5. TaskOf(w) /\ (Fresh(w) \/ Retrying(w)) BY DEF TasksInv, TaskOf, StageOf
<1>6. GivenAttempt(m) BY DEF GivenAttempt, TasksInv, TaskTypes
<1> HIDE DEF m
<1>7. ASSUME Fresh(w) PROVE TaskOf(w)'
    <2>1. attempts'[w] = <<m>> BY <1>4, <1>7 DEF Fresh
    <2>2. ~decision[w].eligible /\ decision[w].reason = "not_asked"
        BY <1>7 DEF Fresh, Undecided, Refused
    <2>3. StageOf(w)' BY <1>1, <1>4, <1>7, <2>1, <2>2 DEF StageOf, Once, One, Fresh
    <2>4. FirstOf(w)' BY <1>1, <1>7, <2>1 DEF FirstOf, Fresh, m
    <2>5. RetryOf(w)' BY <1>1, <1>5, <2>2 DEF TaskOf, RetryOf
    <2>6. GivenOf(w)' BY <1>6, <2>1 DEF GivenOf
    <2>7. ScoreOf(w)' BY <1>1, <1>4, <1>5 DEF TaskOf, ScoreOf
    <2>8. QED BY <2>3, <2>4, <2>5, <2>6, <2>7 DEF TaskOf
<1>8. ASSUME Retrying(w) PROVE TaskOf(w)'
    <2>1. /\ attempts[w] = <<attempts[w][1]>> /\ decision[w].eligible
        BY <1>8 DEF Retrying, One
    <2>2. attempts'[w] = <<attempts[w][1], m>>
        <3>1. attempts[w] = <<attempts[w][1]>> BY <2>1
        <3>2. Append(attempts[w], m) = <<attempts[w][1], m>> BY ONLY <3>1, AppendToOne
        <3>3. QED BY <1>4, <3>2, Zenon
    <2>3. /\ attempts'[w][1] = attempts[w][1] /\ attempts'[w][2] = m
          /\ DOMAIN attempts'[w] = {1, 2} /\ Len(attempts'[w]) = 2
        BY <2>2
    <2>4. StageOf(w)' BY <1>1, <1>4, <2>1, <2>2, <2>3 DEF StageOf, Twice, Two
    <2>5. FirstOf(w)' BY <1>1, <1>5, <2>1, <2>3 DEF TaskOf, FirstOf
    <2>6. RetryOf(w)'
        <3>1. ASSUME decision[w].reason = "whitespace"
              PROVE  m.program = job[w].program /\ m.mode = "whitespace_normalized"
            BY <1>5, <3>1 DEF TaskOf, RetryOf, m
        <3>2. QED BY <1>1, <1>5, <2>3, <3>1 DEF TaskOf, RetryOf
    <2>7. GivenOf(w)'
        <3>1. GivenAttempt(attempts[w][1]) BY <1>5, <2>1 DEF TaskOf, GivenOf
        <3>2. QED BY <1>6, <2>3, <3>1 DEF GivenOf
    <2>8. ScoreOf(w)' BY <1>1, <1>4, <1>5 DEF TaskOf, ScoreOf
    <2>9. QED BY <2>4, <2>5, <2>6, <2>7, <2>8 DEF TaskOf
<1>9. \A v \in Workers \ {w} : attempts'[v] = attempts[v] /\ at'[v] = at[v]
    BY <1>1, <1>2
<1>10. TaskOf(w)' BY <1>5, <1>7, <1>8
<1>11. QED BY <1>1, <1>3, <1>9, <1>10, OneTask

----------------------------------------------------------------------------
(* The shim *)

\* A decision that retries names its reason; only the rule retries for white space.
LEMMA DecisionOfShim ==
    ASSUME NEW enabled \in BOOLEAN, NEW req \in Programs, NEW attempt, NEW answer \in ModelAnswers
    PROVE  LET d == Analyze(enabled, req, attempt, answer) IN
           /\ d.eligible \in BOOLEAN /\ d.comparison \in Comparisons
           /\ d.eligible <=> d.reason \in {"whitespace", "patch"}
           /\ d.reason = "whitespace" => /\ Deterministic(req, attempt).eligible
                                         /\ d.comparison = "whitespace_normalized"
<1> DEFINE d == Analyze(enabled, req, attempt, answer)
<1>1. CASE Deterministic(req, attempt).eligible
    <2>1. d = Deterministic(req, attempt) BY <1>1 DEF Analyze
    <2>2. d = [eligible |-> TRUE, reason |-> "whitespace",
               comparison |-> "whitespace_normalized"]
        BY <1>1, <2>1 DEF Deterministic, Refused
    <2>3. QED BY <1>1, <2>2 DEF Comparisons
<1>2. CASE ~Deterministic(req, attempt).eligible
    <2>1. d = AiDecision(enabled, req, attempt, answer) BY <1>2 DEF Analyze
    <2>2. /\ answer.kind \in {"unavailable", "unsafe", "not_fixable", "fixable"}
          /\ answer.comparison \in Comparisons
        BY DEF ModelAnswers, Comparisons
    <2>3. \/ d = [eligible |-> TRUE, reason |-> "patch", comparison |-> answer.comparison]
          \/ \E r \in {"ai_shim_generation_disabled", "ai_shim_model_error",
                       "ai_shim_invalid_patch_path", "ai_shim_not_fixable",
                       "ai_shim_fixable_without_patch_rejected", "shim_compile_check_failed"} :
               d = Refused(r)
        <3> HIDE DEF d
        <3>1. CASE ~enabled BY <2>1, <3>1 DEF AiDecision
        <3>2. CASE enabled /\ answer.kind = "unavailable" BY <2>1, <3>2 DEF AiDecision
        <3>3. CASE enabled /\ answer.kind \in {"unsafe", "not_fixable"}
            BY <2>1, <3>3 DEF AiDecision
        <3>4. CASE enabled /\ answer.kind = "fixable" BY <2>1, <3>4 DEF AiDecision
        <3>5. QED BY <2>2, <3>1, <3>2, <3>3, <3>4
    <2> HIDE DEF d
    <2>4. CASE d = [eligible |-> TRUE, reason |-> "patch", comparison |-> answer.comparison]
        <3>1. d.eligible = TRUE /\ d.reason = "patch" /\ d.comparison = answer.comparison
            BY <2>4
        <3>2. QED BY <2>2, <3>1 DEF d
    <2>5. ASSUME NEW r, r \notin {"whitespace", "patch"}, d = Refused(r)
          PROVE  /\ d.eligible = FALSE /\ d.reason \notin {"whitespace", "patch"}
                 /\ d.comparison = "strict"
        BY <2>5 DEF Refused
    <2>6. CASE /\ d.eligible = FALSE /\ d.reason \notin {"whitespace", "patch"}
               /\ d.comparison = "strict"
        BY <2>6 DEF Comparisons, d
    <2>7. QED BY <2>3, <2>4, <2>5, <2>6
<1>3. QED BY <1>1, <1>2

\* A patched program is a program.
LEMMA PatchedIsProgram ==
    ASSUME NEW req \in Programs
    PROVE  Patched(req) \subseteq Programs
<1>1. SUFFICES ASSUME NEW p \in Patched(req) PROVE p \in Programs OBVIOUS
<1>2. PICK verdict \in Verdicts, run \in PatchedRuns :
        p = PatchedAs(req, verdict, run)
    BY <1>1 DEF Patched, Verdicts, Programs
<1> DEFINE new(t) == [t EXCEPT !.clean = run, !.dirty = run]
<1>run. run \in Behaviours
    <2>1. Quota + Grace + 1 \in Nat /\ 0 \in Nat BY TimesAssumption
    <2>2. QED BY <2>1 DEF PatchedRuns, Behaviours
<1>3. ASSUME NEW t \in Tests PROVE new(t) \in Tests
    BY <1>run DEF Tests
<1> DEFINE tests == [i \in DOMAIN req.tests |-> new(req.tests[i])]
<1>4. req.tests \in Seq(Tests) BY DEF Programs
<1>5. tests \in Seq(Tests)
    <2> HIDE DEF new
    <2>1. Len(req.tests) \in Nat /\ DOMAIN req.tests = 1 .. Len(req.tests) BY <1>4
    <2>2. tests \in [1 .. Len(req.tests) -> Tests] BY <1>3, <1>4, <2>1
    <2> HIDE DEF tests
    <2>3. QED BY <2>1, <2>2
<1>6. p = [req EXCEPT !.compile = verdict, !.tests = tests] BY <1>2 DEF PatchedAs
<1> HIDE DEF tests
<1>7. QED BY <1>2, <1>5, <1>6 DEF Programs

----------------------------------------------------------------------------
(* The other steps of a task *)

\* The shim is asked: it retries the first attempt, or it does not.
LEMMA AnalyzeStep ==
    ASSUME TasksInv, NEW w \in Workers, AnalyzeAttempt(w)
    PROVE  TasksInv'
<1>1. /\ at[w] = "recorded" /\ Len(attempts[w]) = 1
      /\ UNCHANGED <<deploy, job, attempts, result>>
    BY DEF AnalyzeAttempt, MayRetry
<1>2. TaskOf(w) /\ Once(w) BY <1>1 DEF TasksInv, TaskOf, StageOf, Twice, Two
<1>3. /\ now[w] \in Programs /\ now[w] = job[w].program /\ attempts[w] = <<attempts[w][1]>>
      /\ LastAttempt(w) = attempts[w][1].attempt
    BY <1>2 DEF TasksInv, TaskTypes, Once, One, LastAttempt
<1>4. PICK answer \in ModelAnswers :
        LET d == Analyze(deploy.shim = "model", now[w], LastAttempt(w), answer)
        IN /\ decision' = [decision EXCEPT ![w] = d]
           /\ IF d.eligible
              THEN /\ \E req \in RetryRequests(now[w], d) : now' = [now EXCEPT ![w] = req]
                   /\ comparison' = [comparison EXCEPT ![w] = d.comparison]
                   /\ MoveTo(w, "execute")
              ELSE MoveTo(w, "finalize") /\ UNCHANGED <<now, comparison>>
    BY Zenon DEF AnalyzeAttempt
<1> DEFINE d == Analyze(deploy.shim = "model", now[w], LastAttempt(w), answer)
<1>5. /\ d.eligible \in BOOLEAN /\ d.comparison \in Comparisons
      /\ d.eligible <=> d.reason \in {"whitespace", "patch"}
      /\ d.reason = "whitespace" => /\ Deterministic(now[w], attempts[w][1].attempt).eligible
                                    /\ d.comparison = "whitespace_normalized"
    BY <1>3, DecisionOfShim
<1> HIDE DEF d
<1>6. decision' = [decision EXCEPT ![w] = d] BY <1>4 DEF d
<1>7. /\ decision = [v \in Workers |-> decision[v]] /\ now \in [Workers -> Programs]
      /\ comparison \in [Workers -> Comparisons] /\ at \in [Workers -> Stages]
    BY DEF TasksInv, TaskTypes
<1>8. decision'[w] = d /\ decision' = [v \in Workers |-> decision'[v]]
      /\ \A v \in Workers \ {w} : decision'[v] = decision[v]
    BY <1>6, <1>7
<1>9. GivenOf(w)' BY <1>1, <1>2 DEF TaskOf, GivenOf
<1>10. CASE d.eligible
    <2>1. PICK req \in RetryRequests(now[w], d) : now' = [now EXCEPT ![w] = req]
        BY <1>4, <1>10 DEF d
    <2>2. /\ comparison' = [comparison EXCEPT ![w] = d.comparison]
          /\ at' = [at EXCEPT ![w] = "execute"]
        BY <1>4, <1>10 DEF d, MoveTo
    <2>3. req \in Programs /\ (d.reason = "whitespace" => req = now[w])
        BY <1>3, PatchedIsProgram DEF RetryRequests
    <2>4. TaskTypes'
        <3>1. at' \in [Workers -> Stages] BY <1>7, <2>2 DEF Stages, Started
        <3>2. now' \in [Workers -> Programs] /\ comparison' \in [Workers -> Comparisons]
            BY <1>5, <1>7, <2>1, <2>2, <2>3
        <3>3. QED BY <1>1, <1>8, <3>1, <3>2 DEF TasksInv, TaskTypes
    <2>5. at'[w] = "execute" /\ now'[w] = req /\ comparison'[w] = d.comparison
        BY <1>7, <2>1, <2>2
    <2>6. Retrying(w)' BY <1>1, <1>2, <1>8, <1>10 DEF Once, Retrying, One
    <2>7. StageOf(w)' BY <2>5, <2>6 DEF StageOf
    <2>8. FirstOf(w)' BY <1>1, <1>2 DEF TaskOf, FirstOf
    <2>9. RetryOf(w)'
        BY <1>1, <1>3, <1>5, <1>8, <2>3, <2>5 DEF RetryOf, Twice, Two
    <2>10. ScoreOf(w)' BY <1>1, <1>2, <2>5 DEF TaskOf, ScoreOf
    <2>11. \A v \in Workers \ {w} :
             at'[v] = at[v] /\ now'[v] = now[v] /\ comparison'[v] = comparison[v]
        BY <1>7, <2>1, <2>2
    <2>12. QED BY <1>1, <1>8, <1>9, <2>4, <2>7, <2>8, <2>9, <2>10, <2>11, OneTask DEF TaskOf
<1>11. CASE ~d.eligible
    <2>1. at' = [at EXCEPT ![w] = "finalize"] /\ UNCHANGED <<now, comparison>>
        BY <1>4, <1>11 DEF d, MoveTo
    <2>2. TaskTypes'
        <3>1. at' \in [Workers -> Stages] BY <1>7, <2>1 DEF Stages, Started
        <3>2. QED BY <1>1, <1>8, <2>1, <3>1 DEF TasksInv, TaskTypes
    <2>3. at'[w] = "finalize" BY <1>7, <2>1
    <2>4. Once(w)' BY <1>1, <1>2, <1>8, <1>11, <2>1 DEF Once, One
    <2>5. StageOf(w)' BY <2>3, <2>4 DEF StageOf
    <2>6. FirstOf(w)' BY <1>1, <1>2 DEF TaskOf, FirstOf
    <2>7. RetryOf(w)' BY <1>5, <1>8, <1>11 DEF RetryOf
    <2>8. ScoreOf(w)' BY <1>1, <1>2, <2>3 DEF TaskOf, ScoreOf
    <2>9. \A v \in Workers \ {w} : at'[v] = at[v] BY <1>7, <2>1
    <2>10. QED BY <1>1, <1>8, <1>9, <2>1, <2>2, <2>5, <2>6, <2>7, <2>8, <2>9, OneTask DEF TaskOf
<1>12. QED BY <1>10, <1>11

\* The last attempt becomes the score.
LEMMA FinalizeStep ==
    ASSUME TasksInv, NEW w \in Workers, Finalize(w)
    PROVE  TasksInv'
<1>1. /\ at[w] = "finalize" /\ at' = [at EXCEPT ![w] = "done"]
      /\ UNCHANGED <<deploy, job, now, comparison, decision, attempts>>
    BY DEF Finalize, MoveTo
<1>2. PICK total \in Totals(w) :
        result' = [result EXCEPT ![w] =
                     [status |-> IF TreatAsPassed(w) THEN "COMPLETED" ELSE "FAILED",
                      total  |-> total]]
    BY DEF Finalize
<1>3. /\ at \in [Workers -> Stages] /\ result = [v \in Workers |-> result[v]]
      /\ TaskOf(w)
    BY DEF TasksInv, TaskTypes
<1>4. /\ at'[w] = "done" /\ \A v \in Workers \ {w} : at'[v] = at[v] /\ result'[v] = result[v]
      /\ result' = [v \in Workers |-> result'[v]]
      /\ result'[w] = [status |-> IF TreatAsPassed(w) THEN "COMPLETED" ELSE "FAILED",
                       total  |-> total]
    BY <1>1, <1>2, <1>3
<1>5. TaskTypes'
    <2>1. at' \in [Workers -> Stages] BY <1>1, <1>3 DEF Stages
    <2>2. QED BY <1>1, <1>4, <2>1 DEF TasksInv, TaskTypes
<1>6. StageOf(w)' BY <1>1, <1>3, <1>4 DEF TaskOf, StageOf, Once, Twice, One, Two
<1>7. FirstOf(w)' /\ RetryOf(w)' /\ GivenOf(w)'
    BY <1>1, <1>3 DEF TaskOf, FirstOf, RetryOf, GivenOf, Twice, Two
<1>8. ScoreOf(w)'
    <2>1. result'[w].status \in {"none", "COMPLETED", "FAILED"} BY <1>4
    <2>2. ASSUME job[w].quality = 0
          PROVE  result'[w] = [status |-> IF LastAttempt(w).passed THEN "COMPLETED" ELSE "FAILED",
                               total  |-> Scaled(w)]
        <3>1. total = Scaled(w) BY <2>2, <1>2 DEF Totals
        <3>2. TreatAsPassed(w) <=> LastAttempt(w).passed BY <2>2 DEF TreatAsPassed
        <3>3. QED BY <1>4, <3>1, <3>2
    <2>3. LastAttempt(w)' = LastAttempt(w) /\ Scaled(w)' = Scaled(w)
        BY <1>1 DEF LastAttempt, Scaled, RawMax
    <2>4. QED BY <1>1, <2>1, <2>2, <2>3 DEF ScoreOf
<1>9. QED BY <1>1, <1>4, <1>5, <1>6, <1>7, <1>8, OneTask DEF TaskOf

\* A restart of the container gives the started tasks back to the broker.
LEMMA RestartStep ==
    ASSUME TasksInv, Restarted
    PROVE  TasksInv'
<1>1. /\ UNCHANGED <<deploy, job, now, comparison, decision, attempts, result>>
      /\ at' = [v \in Workers |-> IF at[v] \in Started THEN "redelivered" ELSE at[v]]
    BY DEF Restarted
<1>2. TaskTypes' BY <1>1 DEF TasksInv, TaskTypes, Stages, Started
<1>3. ASSUME NEW v \in Workers PROVE TaskOf(v)'
    <2>1. CASE at[v] \notin Started BY <1>1, <2>1, SameTask DEF TasksInv
    <2>2. CASE at[v] \in Started
        <3>1. at'[v] = "redelivered" /\ TaskOf(v) BY <1>1, <2>2 DEF TasksInv
        <3>2. StageOf(v)'
            BY <1>1, <2>2, <3>1
               DEF TaskOf, StageOf, Started, Fresh, Once, Twice, Retrying, One, Two
        <3>3. FirstOf(v)' /\ RetryOf(v)' /\ GivenOf(v)' /\ ScoreOf(v)'
            BY <1>1, <3>1 DEF TaskOf, FirstOf, RetryOf, GivenOf, ScoreOf, Twice, Two
        <3>4. QED BY <3>2, <3>3 DEF TaskOf
    <2>3. QED BY <2>1, <2>2
<1>4. QED BY <1>2, <1>3 DEF TasksInv

\* The second run of a started task fails the job and records nothing.
LEMMA RefuseStep ==
    ASSUME TasksInv, NEW w \in Workers, Refuse(w)
    PROVE  TasksInv'
<1>1. /\ UNCHANGED <<deploy, job, now, comparison, decision, attempts>>
      /\ at[w] = "redelivered" /\ at' = [at EXCEPT ![w] = "refused"]
      /\ result' = [result EXCEPT ![w] = [status |-> "FAILED", total |-> 0]]
    BY DEF Refuse, MoveTo
<1>2. /\ at \in [Workers -> Stages] /\ result = [v \in Workers |-> result[v]] /\ TaskOf(w)
    BY DEF TasksInv, TaskTypes
<1>3. /\ at'[w] = "refused" /\ result'[w] = [status |-> "FAILED", total |-> 0]
      /\ result' = [v \in Workers |-> result'[v]]
      /\ \A v \in Workers \ {w} : at'[v] = at[v] /\ result'[v] = result[v]
    BY <1>1, <1>2
<1>4. TaskTypes'
    <2>1. at' \in [Workers -> Stages] BY <1>1, <1>2 DEF Stages
    <2>2. QED BY <1>1, <1>3, <2>1 DEF TasksInv, TaskTypes
<1>5. StageOf(w)'
    BY <1>1, <1>2, <1>3 DEF TaskOf, StageOf, Fresh, Once, Twice, Retrying, One, Two
<1>6. FirstOf(w)' /\ RetryOf(w)' /\ GivenOf(w)'
    BY <1>1, <1>2 DEF TaskOf, FirstOf, RetryOf, GivenOf, Twice, Two
<1>7. ScoreOf(w)' BY <1>3 DEF ScoreOf
<1>8. QED BY <1>1, <1>3, <1>4, <1>5, <1>6, <1>7, OneTask DEF TaskOf

----------------------------------------------------------------------------
(* The invariant *)

\* It holds of every scenario before the first step.
LEMMA InitTasks == Init => TasksInv
<1>1. SUFFICES ASSUME Init PROVE TasksInv OBVIOUS
<1>2. PICK s \in Scenarios :
        /\ deploy = s.deploy /\ job = s.jobs
        /\ at = [w \in Workers |-> IF w \in s.busy THEN "waiting" ELSE "free"]
    BY <1>1 DEF Init
<1>3. deploy \in Deployments /\ job \in [Workers -> Jobs]
    BY <1>2, ScenariosAssumption
<1>4. /\ now = [w \in Workers |-> job[w].program] /\ comparison = [w \in Workers |-> "strict"]
      /\ decision = [w \in Workers |-> Undecided] /\ attempts = [w \in Workers |-> <<>>]
      /\ result = [w \in Workers |-> NoResult]
    BY <1>1 DEF Init
<1>5. TaskTypes
    <2>1. now \in [Workers -> Programs] BY <1>3, <1>4 DEF Jobs
    <2>2. at \in [Workers -> Stages] /\ comparison \in [Workers -> Comparisons]
        BY <1>2, <1>4 DEF Stages, Comparisons
    <2>3. QED BY <1>3, <1>4, <2>1, <2>2 DEF TaskTypes
<1>6. ASSUME NEW w \in Workers PROVE TaskOf(w)
    <2>1. /\ at[w] \in {"waiting", "free"} /\ now[w] = job[w].program /\ comparison[w] = "strict"
          /\ decision[w] = Undecided /\ attempts[w] = <<>> /\ result[w] = NoResult
        BY <1>2, <1>4
    <2>2. decision[w].eligible = FALSE /\ decision[w].reason = "not_asked"
        BY <2>1 DEF Undecided, Refused
    <2>3. StageOf(w) BY <2>1 DEF StageOf, Fresh
    <2>4. FirstOf(w) /\ GivenOf(w) BY <2>1 DEF FirstOf, GivenOf
    <2>5. RetryOf(w) BY <2>2 DEF RetryOf
    <2>6. ScoreOf(w) BY <2>1 DEF ScoreOf, NoResult
    <2>7. QED BY <2>3, <2>4, <2>5, <2>6 DEF TaskOf
<1>7. QED BY <1>5, <1>6 DEF TasksInv

\* Steps that touch nothing a task keeps.
LEMMA TasksStay ==
    ASSUME TasksInv, UNCHANGED <<deploy, job, task>>
    PROVE  TasksInv'
<1>1. UNCHANGED <<deploy, job, at, now, comparison, decision, attempts, result>> BY DEF task
<1>2. TaskTypes' BY <1>1 DEF TasksInv, TaskTypes
<1>3. QED BY <1>1, <1>2, SameTask DEF TasksInv

\* Every step keeps the invariant, one case for each action.
LEMMA NextTasks == TasksInv /\ [Next]_vars => TasksInv'
<1>1. SUFFICES ASSUME TasksInv, [Next]_vars PROVE TasksInv' OBVIOUS
<1>2. deploy \in Deployments /\ now \in [Workers -> Programs]
    BY <1>1 DEF TasksInv, TaskTypes
<1>3. ASSUME NEW w \in Workers, Take(w) PROVE TasksInv'
    BY <1>1, <1>3, MoveStep DEF Take, Stages, Started
<1>4. ASSUME NEW w \in Workers, Execute(w) PROVE TasksInv'
    <2>1. PICK a \in BackendAttempts(now[w], comparison[w]) : Record(w, a)
        BY <1>4 DEF Execute
    <2>2. Given(a, now[w], comparison[w]) BY <1>2, BackendIsGiven
    <2>3. QED BY <1>1, <1>4, <2>1, <2>2, RecordStep DEF Execute
<1>5. ASSUME NEW w \in Workers, EnterSandbox(w) PROVE TasksInv'
    BY <1>1, <1>5, MoveStep DEF EnterSandbox, Stages, Started
<1>6. ASSUME NEW w \in Workers, InSandbox(w) PROVE TasksInv'
    BY <1>1, <1>6, TasksStay DEF InSandbox
<1>7. ASSUME NEW w \in Workers, LeaveSandbox(w) PROVE TasksInv'
    <2>1. PICK a \in IF answered[w] THEN {GuestAnswer(now[w], comparison[w])}
                     ELSE FallbackAttempts(now[w], comparison[w]) : Record(w, a)
        BY <1>7, Zenon DEF LeaveSandbox
    <2>2. Given(a, now[w], comparison[w])
        <3>1. CASE answered[w] BY <1>2, <3>1, GuestIsGiven
        <3>2. CASE ~answered[w] BY <1>2, <3>2, FallbackIsGiven
        <3>3. QED BY <3>1, <3>2
    <2>3. QED BY <1>1, <1>7, <2>1, <2>2, RecordStep DEF LeaveSandbox
<1>8. ASSUME NEW w \in Workers, NoRetry(w) PROVE TasksInv'
    BY <1>1, <1>8, MoveStep DEF NoRetry, Stages, Started
<1>9. ASSUME NEW w \in Workers, Killed(w) PROVE TasksInv'
    BY <1>1, <1>9, MoveStep DEF Killed, Stages
<1>10. CASE UNCHANGED vars BY <1>1, <1>10, TasksStay DEF vars
<1>11. QED
    BY <1>1, <1>3, <1>4, <1>5, <1>6, <1>7, <1>8, <1>9, <1>10, AnalyzeStep, FinalizeStep,
       RestartStep, RefuseStep DEF Next, TaskStep

\* The invariant of the tasks holds throughout: the ground of the theorems below.
LEMMA TasksInvariant == Spec => []TasksInv
<1>1. Init => TasksInv BY InitTasks
<1>2. TasksInv /\ [Next]_vars => TasksInv' BY NextTasks
<1>3. QED BY <1>1, <1>2, PTL DEF Spec

----------------------------------------------------------------------------
(* Types *)

\* Type correctness, for every set of scenarios, workers and times; no task makes more
\* than two attempts.
THEOREM TypesHold == Spec => []EvaluationTypeOK
<1>1. IndInv /\ TasksInv => EvaluationTypeOK
    <2>1. SUFFICES ASSUME IndInv, TasksInv PROVE EvaluationTypeOK OBVIOUS
    <2>2. SandboxTypeOK BY <2>1 DEF IndInv
    <2>3. ASSUME NEW w \in Workers
          PROVE  /\ Len(attempts[w]) <= 2
                 /\ result[w].status \in {"none", "COMPLETED", "FAILED"}
        <3>1. StageOf(w) /\ ScoreOf(w) /\ at[w] \in Stages
            BY <2>1 DEF TasksInv, TaskOf, TaskTypes
        <3>2. attempts[w] = <<>> \/ Len(attempts[w]) = 1 \/ Len(attempts[w]) = 2
            BY <3>1 DEF StageOf, Stages, Started, Fresh, Once, Retrying, Twice, One, Two
        <3> DEFINE n == Len(attempts[w])
        <3>3. n = 0 \/ n = 1 \/ n = 2 BY <3>2
        <3> HIDE DEF n
        <3>4. n <= 2 BY <3>3
        <3>5. QED BY <3>1, <3>4 DEF ScoreOf, n
    <2>4. QED
        BY <2>1, <2>2, <2>3
           DEF TasksInv, TaskTypes, Stages, Started, Comparisons, EvaluationTypeOK
<1>2. QED BY <1>1, SandboxHolds, TasksInvariant, PTL

----------------------------------------------------------------------------
(* The verdicts *)

\* A recorded attempt that ran all test cases has one verdict for each, and judges well.
LEMMA RunsJudgeWell ==
    ASSUME NEW m, GivenAttempt(m), m.attempt.place \in Places
    PROVE  /\ DOMAIN m.attempt.cases = DOMAIN m.program.tests
           /\ \A i \in DOMAIN m.program.tests : JudgesWell(m, i)
<1>1. /\ m.program \in Programs
      /\ m.attempt = Attempt(m.attempt.place, m.program, m.mode, m.attempt.mishaps)
    BY DEF GivenAttempt, Given
<1>2. m.attempt.cases = Cases(m.attempt.place, m.program, m.mode, m.attempt.mishaps)
    <2>1. Attempt(m.attempt.place, m.program, m.mode, m.attempt.mishaps).cases
            = Cases(m.attempt.place, m.program, m.mode, m.attempt.mishaps)
        BY DEF Attempt
    <2>2. QED BY <1>1, <2>1, Zenon
<1>3. CASE m.attempt.place = "local"
    <2>1. m.attempt.cases = LocalCases(m.program, m.mode) BY <1>2, <1>3 DEF Cases
    <2>2. QED BY <1>1, <1>3, <2>1, LocalJudges DEF LocalCases
<1>4. CASE m.attempt.place = "docker"
    <2>1. m.attempt.cases = DockerCases(m.program, m.mode, m.attempt.mishaps)
        BY <1>2, <1>4 DEF Cases
    <2>2. QED BY <1>1, <1>4, <2>1, DockerJudges DEF DockerCases
<1>5. CASE m.attempt.place = "bridge"
    <2>1. m.attempt.cases = BridgeCases(m.program, m.mode) BY <1>2, <1>5 DEF Cases
    <2>2. QED BY <1>1, <1>5, <2>1, BridgeJudges DEF BridgeCases
<1>6. CASE m.attempt.place = "guest"
    <2>1. m.attempt.cases = GuestCases(m.program, m.mode) BY <1>2, <1>6 DEF Cases
    <2>2. QED BY <1>1, <1>6, <2>1, GuestJudges DEF GuestCases
<1>7. QED BY <1>3, <1>4, <1>5, <1>6 DEF Places

\* Every attempt made is one a backend can give.
LEMMA MadeIsGiven ==
    ASSUME TasksInv, NEW m \in Made PROVE GivenAttempt(m)
    BY DEF Made, TasksInv, TaskOf, GivenOf

\* No place gives a test case to a program that does not deserve it, but for the named
\* lapses: the verdicts of _run_local_testcase, _run_docker_testcase, the reference
\* executor of the bridge and the guest agent, for every program and quota.
THEOREM CreditsAreDeserved == Spec => []CreditIsDeserved
<1>1. TasksInv => CreditIsDeserved
    <2>1. SUFFICES ASSUME TasksInv, NEW m \in Made, NEW i \in DOMAIN m.program.tests,
                          Credited(m, i)
                   PROVE  Deserves(m.program, m.program.tests[i], m.mode) \/ Generous(m, i)
        BY DEF CreditIsDeserved
    <2>2. GivenAttempt(m) BY <2>1, MadeIsGiven
    <2>3. m.attempt.place \in Places
        <3>1. m.attempt.cases # <<>> BY <2>1 DEF Credited
        <3>2. QED BY <2>1, <2>2, <3>1 DEF GivenAttempt, Given, Credited
    <2>4. JudgesWell(m, i) BY <2>1, <2>2, <2>3, RunsJudgeWell
    <2>5. QED BY <2>1, <2>4 DEF JudgesWell, Credited
<1>2. QED BY <1>1, TasksInvariant, PTL

\* Whoever deserves a test case is given it by every place that ran it, but for the named
\* lapses (the same four executors).
THEOREM DeservedAreCredited == Spec => []DeservedIsCredited
<1>1. TasksInv => DeservedIsCredited
    <2>1. SUFFICES ASSUME TasksInv, NEW m \in Made, NEW i \in DOMAIN m.program.tests,
                          m.attempt.place \in {"local", "local_crash", "docker", "bridge",
                                               "guest", "guest_error"},
                          ~Credited(m, i)
                   PROVE  ~Deserves(m.program, m.program.tests[i], m.mode) \/ Strict(m, i)
        BY DEF DeservedIsCredited
    <2>2. GivenAttempt(m) BY <2>1, MadeIsGiven
    <2>3. CASE m.attempt.place \in {"local_crash", "guest_error"}
        BY <2>2, <2>3 DEF GivenAttempt, Given, Strict, Places
    <2>4. CASE m.attempt.place \in Places
        <3>1. DOMAIN m.attempt.cases = DOMAIN m.program.tests /\ JudgesWell(m, i)
            BY <2>1, <2>2, <2>4, RunsJudgeWell
        <3>2. m.attempt.place # "local_crash" BY <2>4 DEF Places
        <3>3. QED BY <2>1, <3>1, <3>2 DEF JudgesWell, Credited
    <2>5. QED BY <2>1, <2>3, <2>4 DEF Places
<1>2. QED BY <1>1, TasksInvariant, PTL

----------------------------------------------------------------------------
(* The retry for white space *)

\* What the rule calls white space: nothing but a text that is wanted up to white space.
LEMMA WhitespaceReason ==
    ASSUME NEW req, NEW t, NEW c,
           CaseReason(req, t, c) = "whitespace_only_interface_mismatch"
    PROVE  c.tokens = {"stdout_mismatch"} /\ c.out = "spaced"
<1>1. CASE "exit_code" \in c.tokens BY <1>1 DEF CaseReason
<1>2. CASE "exit_code" \notin c.tokens /\ c.tokens \cap {"timeout", "output_truncated"} # {}
    BY <1>2 DEF CaseReason
<1>3. CASE /\ c.tokens \cap {"exit_code", "timeout", "output_truncated"} = {}
           /\ c.tokens # {"stdout_mismatch"}
    BY <1>3 DEF CaseReason
<1>4. CASE c.tokens = {"stdout_mismatch"}
    <2>1. CASE c.out = "spaced" BY <1>4, <2>1
    <2>2. CASE c.out # "spaced" BY <1>4, <2>2 DEF CaseReason
    <2>3. QED BY <2>1, <2>2
<1>5. QED BY <1>1, <1>2, <1>3, <1>4

\* The same run, judged with white space collapsed: what passed still passes, and what
\* failed by white space alone passes now.
LEMMA CollapsedVerdict ==
    ASSUME NEW req, NEW t, NEW seen,
           \/ Judge(t, seen, "strict").passed
           \/ CaseReason(req, t, Judge(t, seen, "strict"))
                = "whitespace_only_interface_mismatch"
    PROVE  Judge(t, seen, "whitespace_normalized").passed
<1> DEFINE c == Judge(t, seen, "strict")
<1>1. CASE c.passed
    <2>1. seen.exit = t.exit /\ (t.text => Equivalent(seen.out, "strict"))
        BY <1>1, JudgeVerdict
    <2>2. Equivalent(seen.out, "strict") => Equivalent(seen.out, "whitespace_normalized")
        BY DEF Equivalent
    <2>3. QED BY <2>1, <2>2, JudgeVerdict
<1>2. CASE CaseReason(req, t, c) = "whitespace_only_interface_mismatch"
    <2>1. c.tokens = {"stdout_mismatch"} /\ c.out = "spaced" BY <1>2, WhitespaceReason
    <2>2. "exit_code" \in c.tokens <=> seen.exit # t.exit BY DEF Judge
    <2>3. seen.exit = t.exit BY <2>1, <2>2
    <2>4. seen.out = "spaced" BY <2>1, JudgeVerdict
    <2>5. Equivalent(seen.out, "whitespace_normalized") BY <2>4 DEF Equivalent
    <2>6. QED BY <2>3, <2>5, JudgeVerdict
<1>3. QED BY <1>1, <1>2

\* An attempt whose failures are all white space passes when it is run again at the same
\* place, and docker fails it in the same containers, with white space collapsed.
LEMMA RetryPasses ==
    ASSUME NEW req \in Programs, NEW place \in {"local", "docker"}, NEW mishaps,
           Deterministic(req, Attempt(place, req, "strict", mishaps)).eligible
    PROVE  Attempt(place, req, "whitespace_normalized", mishaps).passed
<1> DEFINE first == Cases(place, req, "strict", mishaps)
<1> DEFINE second == Cases(place, req, "whitespace_normalized", mishaps)
<1>1. /\ Attempt(place, req, "strict", mishaps).cases = first
      /\ Attempt(place, req, "whitespace_normalized", mishaps).passed
           <=> \A i \in DOMAIN second : second[i].passed
    BY DEF Attempt
<1>2. CaseReasons(req, Attempt(place, req, "strict", mishaps))
        = {"whitespace_only_interface_mismatch"}
    BY DEF Deterministic, Refused
<1>3. ASSUME NEW i \in DOMAIN first
      PROVE  \/ first[i].passed
             \/ CaseReason(req, req.tests[i], first[i]) = "whitespace_only_interface_mismatch"
    <2>1. Examined(req, Attempt(place, req, "strict", mishaps)) BY <1>2 DEF CaseReasons
    <2>2. CaseReasons(req, Attempt(place, req, "strict", mishaps))
            = {CaseReason(req, req.tests[k], first[k]) :
                 k \in Failed(Attempt(place, req, "strict", mishaps))}
        BY <1>1, <2>1 DEF CaseReasons
    <2>3. ~first[i].passed => i \in Failed(Attempt(place, req, "strict", mishaps))
        BY <1>1 DEF Failed
    <2>4. QED BY <1>2, <2>2, <2>3
<1>4. CASE place = "local"
    <2>1. first = LocalCases(req, "strict") /\ second = LocalCases(req, "whitespace_normalized")
        BY <1>4 DEF Cases
    <2>2. DOMAIN first = DOMAIN req.tests /\ DOMAIN second = DOMAIN req.tests
        BY <2>1 DEF LocalCases
    <2>3. ASSUME NEW i \in DOMAIN req.tests PROVE second[i].passed
        <3>1. CASE ~Compiles("local", req)
            <4>1. first[i] = NotCompiled(req.tests[i]) BY <2>1, <3>1 DEF LocalCases
            <4>2. first[i].passed = FALSE /\ first[i].tokens = {"compile_error"}
                BY <4>1 DEF NotCompiled
            <4>3. CaseReason(req, req.tests[i], first[i]) = "whitespace_only_interface_mismatch"
                BY <1>3, <2>2, <4>2
            <4>4. QED BY <4>2, <4>3, WhitespaceReason
        <3>2. CASE Compiles("local", req)
            <4> DEFINE seen == HostRun(LocalBehaviour(req, i))
            <4>1. /\ first[i] = Judge(req.tests[i], seen, "strict")
                  /\ second[i] = Judge(req.tests[i], seen, "whitespace_normalized")
                BY <2>1, <3>2 DEF LocalCases
            <4> HIDE DEF first, second, seen
            <4>2. QED BY <1>3, <2>2, <4>1, CollapsedVerdict
        <3>3. QED BY <3>1, <3>2
    <2>4. QED BY <1>1, <2>2, <2>3
<1>5. CASE place = "docker"
    <2>1. /\ first = DockerCases(req, "strict", mishaps)
          /\ second = DockerCases(req, "whitespace_normalized", mishaps)
        BY <1>5 DEF Cases
    <2>2. DOMAIN first = DOMAIN req.tests /\ DOMAIN second = DOMAIN req.tests
        BY <2>1 DEF DockerCases
    <2>3. ASSUME NEW i \in DOMAIN req.tests PROVE second[i].passed
        <3> DEFINE seen == DockerRun(Contained(req, i), mishaps[i])
        <3>1. /\ first[i] = Judge(req.tests[i], seen, "strict")
              /\ second[i] = Judge(req.tests[i], seen, "whitespace_normalized")
            BY <2>1 DEF DockerCases
        <3> HIDE DEF first, second, seen
        <3>2. QED BY <1>3, <2>2, <3>1, CollapsedVerdict
    <2>4. QED BY <1>1, <2>2, <2>3
<1>6. QED BY <1>4, <1>5

\* A retry that only collapses white space passes every test case, unless another place
\* runs it or docker fails in other containers (_deterministic_whitespace_decision
\* 362-396): one failure that is anything else keeps the rule from retrying.
THEOREM RetriesHelp == Spec => []RetryHelps
<1>1. TasksInv => RetryHelps
    <2>1. SUFFICES ASSUME TasksInv, NEW w \in Workers, Len(attempts[w]) = 2,
                          decision[w].reason = "whitespace",
                          attempts[w][1].attempt.place # "local_crash",
                          attempts[w][1].attempt.place = attempts[w][2].attempt.place,
                          attempts[w][1].attempt.mishaps = attempts[w][2].attempt.mishaps
                   PROVE  attempts[w][2].attempt.passed
        BY DEF RetryHelps
    <2> DEFINE m1 == attempts[w][1]
    <2> DEFINE m2 == attempts[w][2]
    <2> DEFINE req == job[w].program
    <2>2. TaskOf(w) /\ at[w] \in Stages BY <2>1 DEF TasksInv, TaskTypes
    <2>3. Twice(w)
        <3>1. \/ attempts[w] = <<>> \/ Len(attempts[w]) = 1 \/ Twice(w)
            BY <2>2 DEF TaskOf, StageOf, Stages, Started, Fresh, Once, Retrying, One
        <3>2. attempts[w] # <<>> /\ Len(attempts[w]) # 1 BY <2>1
        <3>3. QED BY <3>1, <3>2
    <2>4. /\ m1.program = req /\ m1.mode = "strict"
          /\ m2.program = req /\ m2.mode = "whitespace_normalized"
          /\ Deterministic(req, m1.attempt).eligible
        <3>1. attempts[w] # <<>> BY <2>1
        <3>2. QED BY <2>1, <2>2, <2>3, <3>1 DEF TaskOf, FirstOf, RetryOf
    <2>5. GivenAttempt(m1) /\ GivenAttempt(m2)
        <3>1. DOMAIN attempts[w] = {1, 2} BY <2>3 DEF Twice, Two
        <3>2. QED BY <2>2, <3>1 DEF TaskOf, GivenOf
    <2> HIDE DEF m1, m2, req
    <2>6. m1.attempt.listed
        <3>1. CaseReasons(req, m1.attempt) # {} BY <2>4 DEF Deterministic, Refused
        <3>2. QED BY <3>1 DEF CaseReasons, Examined
    <2>7. /\ m1.attempt.place \in Places
          /\ m1.attempt = Attempt(m1.attempt.place, req, "strict", m1.attempt.mishaps)
        BY <2>1, <2>4, <2>5, <2>6 DEF GivenAttempt, Given, m1
    <2>8. m1.attempt.place \in {"local", "docker"}
        <3>1. Attempt(m1.attempt.place, req, "strict", m1.attempt.mishaps).listed
                <=> m1.attempt.place \in {"local", "docker"}
            BY DEF Attempt
        <3>2. QED BY <2>6, <2>7, <3>1
    <2>9. m2.attempt = Attempt(m1.attempt.place, req, "whitespace_normalized",
                               m1.attempt.mishaps)
        BY <2>1, <2>4, <2>5, <2>7 DEF GivenAttempt, Given, m1, m2
    <2>10. req \in Programs BY <2>4, <2>5 DEF GivenAttempt
    <2>11. Deterministic(req, Attempt(m1.attempt.place, req, "strict", m1.attempt.mishaps)).eligible
        BY <2>4, <2>7
    <2>12. QED BY <2>8, <2>9, <2>10, <2>11, RetryPasses DEF m2
<1>2. QED BY <1>1, TasksInvariant, PTL

----------------------------------------------------------------------------
(* One program, two workers *)

\* A run passes if all its test cases do, and scores the weights of those that do.
LEMMA AttemptScores ==
    ASSUME NEW m, GivenAttempt(m), m.attempt.place \in Places
    PROVE  LET c == m.attempt.cases IN
           /\ m.attempt.passed = (\A i \in DOMAIN c : c[i].passed)
           /\ m.attempt.score =
                SumFunction([i \in DOMAIN c |-> IF c[i].passed THEN c[i].weight ELSE 0])
<1> DEFINE Passed(c) == \A i \in DOMAIN c : c[i].passed
<1> DEFINE Weights(c) == [i \in DOMAIN c |-> IF c[i].passed THEN c[i].weight ELSE 0]
<1>1. m.attempt = Attempt(m.attempt.place, m.program, m.mode, m.attempt.mishaps)
    BY DEF GivenAttempt, Given
<1> DEFINE y == Attempt(m.attempt.place, m.program, m.mode, m.attempt.mishaps)
<1>2. y.passed = Passed(y.cases) /\ y.score = SumFunction(Weights(y.cases))
    BY DEF Attempt
<1>3. m.attempt.passed = Passed(m.attempt.cases)
      /\ m.attempt.score = SumFunction(Weights(m.attempt.cases))
    <2> HIDE DEF y, Passed, Weights
    <2>1. QED BY <1>1, <1>2, Zenon DEF y
<1>4. QED BY <1>3

\* Two places that are neither generous nor strict give the same verdicts, so the same
\* score: the sums are of equal functions.
LEMMA SameVerdicts ==
    ASSUME NEW m, NEW n, GivenAttempt(m), GivenAttempt(n),
           m.attempt.place \in Places, n.attempt.place \in Places,
           m.program = n.program, m.mode = n.mode,
           \A i \in DOMAIN m.program.tests :
             ~Generous(m, i) /\ ~Strict(m, i) /\ ~Generous(n, i) /\ ~Strict(n, i)
    PROVE  m.attempt.passed = n.attempt.passed /\ m.attempt.score = n.attempt.score
<1> DEFINE a == m.attempt.cases
<1> DEFINE b == n.attempt.cases
<1> DEFINE tests == m.program.tests
<1>1. /\ DOMAIN a = DOMAIN tests /\ DOMAIN b = DOMAIN tests
      /\ \A i \in DOMAIN tests : JudgesWell(m, i) /\ JudgesWell(n, i)
    BY RunsJudgeWell
<1>2. \A i \in DOMAIN tests : /\ a[i].passed <=> b[i].passed
                              /\ a[i].weight = b[i].weight
    BY <1>1 DEF JudgesWell
<1> DEFINE Passed(c) == \A i \in DOMAIN c : c[i].passed
<1> DEFINE Weights(c) == [i \in DOMAIN c |-> IF c[i].passed THEN c[i].weight ELSE 0]
<1>3. /\ m.attempt.passed = Passed(a) /\ m.attempt.score = SumFunction(Weights(a))
      /\ n.attempt.passed = Passed(b) /\ n.attempt.score = SumFunction(Weights(b))
    BY AttemptScores
<1> HIDE DEF a, b, tests
<1>4. Passed(a) = Passed(b) BY <1>1, <1>2
<1>5. Weights(a) = Weights(b) BY <1>1, <1>2
<1> HIDE DEF Passed, Weights
<1>6. QED BY <1>3, <1>4, <1>5

\* Two workers with the same program come to the same score, wherever each attempt was
\* made, unless a retry or a named lapse parts them (execute_code_eval_job 905-945).
THEOREM SameProgramsScoreAlike == Spec => []SameProgramSameScore
<1>1. TasksInv => SameProgramSameScore
    <2>1. SUFFICES
            ASSUME TasksInv, NEW v \in Workers, NEW w \in Workers,
                   at[v] = "done", at[w] = "done", job[v] = job[w], job[v].quality = 0,
                   decision[v].reason # "patch", decision[w].reason # "patch",
                   decision[v].reason # "whitespace", decision[w].reason # "whitespace",
                   \A u \in {v, w} : \A k \in DOMAIN attempts[u] :
                     LET m == attempts[u][k]
                     IN /\ m.attempt.place \in Places
                        /\ \A i \in DOMAIN m.program.tests : ~Generous(m, i) /\ ~Strict(m, i)
            PROVE  result[v] = result[w]
        BY DEF SameProgramSameScore, Places
    <2>2. ASSUME NEW u \in {v, w}
          PROVE  /\ LastAttempt(u) = attempts[u][1].attempt
                 /\ GivenAttempt(attempts[u][1]) /\ 1 \in DOMAIN attempts[u]
                 /\ attempts[u][1].program = job[u].program /\ attempts[u][1].mode = "strict"
                 /\ result[u] = [status |-> IF LastAttempt(u).passed THEN "COMPLETED" ELSE "FAILED",
                                 total  |-> Scaled(u)]
        <3>1. TaskOf(u) /\ at[u] = "done" /\ job[u].quality = 0 BY <2>1 DEF TasksInv
        <3>2. ~decision[u].eligible BY <2>1, <3>1 DEF TaskOf, RetryOf
        <3>3. One(u) BY <3>1, <3>2 DEF TaskOf, StageOf, Once, Twice
        <3>4. LastAttempt(u) = attempts[u][1].attempt BY <3>3 DEF One, LastAttempt
        <3>5. 1 \in DOMAIN attempts[u] /\ attempts[u] # <<>> BY <3>3 DEF One
        <3>6. QED BY <3>1, <3>4, <3>5 DEF TaskOf, FirstOf, GivenOf, ScoreOf
    <2> DEFINE m == attempts[v][1]
    <2> DEFINE n == attempts[w][1]
    <2>3. /\ GivenAttempt(m) /\ GivenAttempt(n) /\ m.program = n.program /\ m.mode = n.mode
        BY <2>1, <2>2
    <2>4. /\ m.attempt.place \in Places /\ n.attempt.place \in Places
          /\ \A i \in DOMAIN m.program.tests :
               ~Generous(m, i) /\ ~Strict(m, i) /\ ~Generous(n, i) /\ ~Strict(n, i)
        BY <2>1, <2>2, <2>3
    <2>5. m.attempt.passed = n.attempt.passed /\ m.attempt.score = n.attempt.score
        BY <2>3, <2>4, SameVerdicts
    <2>6. LastAttempt(v) = m.attempt /\ LastAttempt(w) = n.attempt BY <2>2
    <2>7. Scaled(v) = Scaled(w) BY <2>1, <2>5, <2>6 DEF Scaled, RawMax
    <2>8. QED BY <2>2, <2>5, <2>6, <2>7
<1>2. QED BY <1>1, TasksInvariant, PTL

----------------------------------------------------------------------------
(* The marks *)

SameWeights(p, q) ==
    /\ DOMAIN p.tests = DOMAIN q.tests
    /\ \A i \in DOMAIN p.tests : p.tests[i].weight = q.tests[i].weight

\* A retry changes what the program prints and not what its test cases weigh, and the
\* total is one that the last attempt allows.
WeightsOf(w) ==
    /\ SameWeights(now[w], job[w].program)
    /\ \A k \in DOMAIN attempts[w] : SameWeights(attempts[w][k].program, job[w].program)

MarksOf(w) == WeightsOf(w) /\ (at[w] = "done" => result[w].total \in Totals(w))

MarksInv == \A w \in Workers : MarksOf(w)

\* Of the program a patch makes.
LEMMA PatchKeepsWeights ==
    ASSUME NEW req \in Programs, NEW p \in Patched(req)
    PROVE  SameWeights(p, req)
<1>1. PICK verdict \in Verdicts, run \in PatchedRuns :
        p = PatchedAs(req, verdict, run)
    BY DEF Patched, Verdicts, Programs
<1> DEFINE new(t) == [t EXCEPT !.clean = run, !.dirty = run]
<1> DEFINE tests == [i \in DOMAIN req.tests |-> new(req.tests[i])]
<1>2. ASSUME NEW t \in Tests PROVE new(t).weight = t.weight BY DEF Tests
<1>3. p = [req EXCEPT !.compile = verdict, !.tests = tests] BY <1>1 DEF PatchedAs
<1>4. \A i \in DOMAIN req.tests : req.tests[i] \in Tests BY DEF Programs
<1> HIDE DEF new
<1>5. DOMAIN tests = DOMAIN req.tests
      /\ \A i \in DOMAIN tests : tests[i].weight = req.tests[i].weight
    BY <1>2, <1>4
<1> HIDE DEF tests
<1>6. p.tests = tests BY <1>3 DEF Programs
<1>7. QED BY <1>5, <1>6 DEF SameWeights

\* What a step may do to the program, the attempts and the result of a worker.
LEMMA StepOfTask ==
    ASSUME TasksInv, Next, NEW w \in Workers
    PROVE  /\ job' = job
           /\ \/ now'[w] = now[w]
              \/ \E d : now'[w] \in RetryRequests(now[w], d)
           /\ \/ attempts'[w] = attempts[w]
              \/ \E a, mode :
                   attempts'[w] = Append(attempts[w],
                                    [attempt |-> a, program |-> now[w], mode |-> mode])
           /\ at'[w] = "done" =>
                /\ attempts'[w] = attempts[w]
                /\ \/ at[w] = "done" /\ result'[w] = result[w]
                   \/ result'[w].total \in Totals(w)
<1> DEFINE Goal ==
           /\ job' = job
           /\ \/ now'[w] = now[w]
              \/ \E d : now'[w] \in RetryRequests(now[w], d)
           /\ \/ attempts'[w] = attempts[w]
              \/ \E a, mode :
                   attempts'[w] = Append(attempts[w],
                                    [attempt |-> a, program |-> now[w], mode |-> mode])
           /\ at'[w] = "done" =>
                /\ attempts'[w] = attempts[w]
                /\ \/ at[w] = "done" /\ result'[w] = result[w]
                   \/ result'[w].total \in Totals(w)
<1> SUFFICES Goal OBVIOUS
<1>1. /\ at \in [Workers -> Stages] /\ now \in [Workers -> Programs]
      /\ attempts = [v \in Workers |-> attempts[v]] /\ result = [v \in Workers |-> result[v]]
    BY DEF TasksInv, TaskTypes
<1>2. ASSUME NEW v \in Workers, NEW place \in Stages \ {"done"}, MoveTo(v, place),
             UNCHANGED <<job, now, attempts, result>>
      PROVE  Goal
    BY <1>1, <1>2 DEF MoveTo
<1>3. ASSUME NEW v \in Workers, NEW a, Record(v, a), job' = job
      PROVE  Goal
    <2>1. /\ at' = [at EXCEPT ![v] = "recorded"] /\ now' = now /\ result' = result
          /\ attempts' = [attempts EXCEPT ![v] =
               Append(attempts[v], [attempt |-> a, program |-> now[v], mode |-> comparison[v]])]
        BY <1>3 DEF Record, MoveTo
    <2>2. CASE v = w BY <1>1, <1>3, <2>1, <2>2
    <2>3. CASE v # w BY <1>1, <1>3, <2>1, <2>3
    <2>4. QED BY <2>2, <2>3
<1>4. ASSUME NEW v \in Workers, Take(v) \/ EnterSandbox(v) \/ NoRetry(v) \/ Killed(v) PROVE Goal
    BY <1>2, <1>4 DEF Take, EnterSandbox, NoRetry, Killed, Stages, Started
<1>5. ASSUME NEW v \in Workers, Execute(v) PROVE Goal
    BY <1>3, <1>5 DEF Execute
<1>6. ASSUME NEW v \in Workers, InSandbox(v) PROVE Goal
    BY <1>6 DEF InSandbox, task
<1>7. ASSUME NEW v \in Workers, LeaveSandbox(v) PROVE Goal
    BY <1>3, <1>7 DEF LeaveSandbox
<1>8. ASSUME NEW v \in Workers, AnalyzeAttempt(v) PROVE Goal
    <2>1. UNCHANGED <<job, attempts, result>> BY <1>8 DEF AnalyzeAttempt
    <2>2. \/ now' = now
          \/ \E d : \E req \in RetryRequests(now[v], d) : now' = [now EXCEPT ![v] = req]
        BY <1>8, Zenon DEF AnalyzeAttempt
    <2>3. at' = [at EXCEPT ![v] = "execute"] \/ at' = [at EXCEPT ![v] = "finalize"]
        BY <1>8, Zenon DEF AnalyzeAttempt, MoveTo
    <2>4. \/ now'[w] = now[w]
          \/ \E d : now'[w] \in RetryRequests(now[w], d)
        BY <1>1, <2>2
    <2>5. at'[w] = "done" => at[w] = "done" BY <1>1, <2>3
    <2>6. QED BY <2>1, <2>4, <2>5
<1>9. ASSUME NEW v \in Workers, Finalize(v) PROVE Goal
    <2>1. UNCHANGED <<job, now, attempts>> /\ at' = [at EXCEPT ![v] = "done"]
        BY <1>9 DEF Finalize, MoveTo
    <2>2. PICK total \in Totals(v), status \in {"COMPLETED", "FAILED"} :
            result' = [result EXCEPT ![v] = [status |-> status, total |-> total]]
        BY <1>9 DEF Finalize
    <2>3. CASE v = w
        <3>1. result'[w].total = total BY <1>1, <2>2, <2>3
        <3>2. QED BY <2>1, <2>2, <2>3, <3>1
    <2>4. CASE v # w BY <1>1, <2>1, <2>2, <2>4
    <2>5. QED BY <2>3, <2>4
<1>10. CASE Restarted
    <2>1. /\ UNCHANGED <<job, now, attempts, result>>
          /\ at' = [v \in Workers |-> IF at[v] \in Started THEN "redelivered" ELSE at[v]]
        BY <1>10 DEF Restarted
    <2>2. QED BY <2>1
<1>11. ASSUME NEW v \in Workers, Refuse(v) PROVE Goal
    <2>1. /\ UNCHANGED <<job, now, attempts>> /\ at' = [at EXCEPT ![v] = "refused"]
          /\ result' = [result EXCEPT ![v] = [status |-> "FAILED", total |-> 0]]
        BY <1>11 DEF Refuse, MoveTo
    <2>2. at'[w] = "done" => v # w /\ at[w] = "done" BY <1>1, <2>1
    <2>3. v # w => result'[w] = result[w] BY <1>1, <2>1
    <2>4. QED BY <2>1, <2>2, <2>3
<1>12. QED
    BY <1>4, <1>5, <1>6, <1>7, <1>8, <1>9, <1>10, <1>11 DEF Next, TaskStep

\* The totals that the last attempt allows.
LEMMA SameTotals ==
    ASSUME NEW w, job' = job, attempts'[w] = attempts[w]
    PROVE  Totals(w)' = Totals(w)
BY DEF Totals, Scaled, Combined, LastAttempt, RawMax

\* Attempts are a sequence.
LEMMA AttemptsAreSequence ==
    ASSUME TasksInv, NEW w \in Workers
    PROVE  attempts[w] \in Seq({attempts[w][1], attempts[w][2]})
<1>1. StageOf(w) /\ at[w] \in Stages BY DEF TasksInv, TaskOf, TaskTypes
<1>2. \/ attempts[w] = <<>> \/ attempts[w] = <<attempts[w][1]>>
      \/ attempts[w] = <<attempts[w][1], attempts[w][2]>>
    BY <1>1 DEF StageOf, Stages, Started, Fresh, Once, Retrying, Twice, One, Two
<1> DEFINE x == attempts[w][1]
<1> DEFINE y == attempts[w][2]
<1>3. <<>> \in Seq({x, y}) /\ <<x>> \in Seq({x, y}) /\ <<x, y>> \in Seq({x, y}) OBVIOUS
<1>4. QED BY <1>2, <1>3

\* Every step keeps scores within what the weights of the test cases allow.
LEMMA MarksStep ==
    ASSUME TasksInv, MarksInv, [Next]_vars
    PROVE  MarksInv'
<1>1. CASE UNCHANGED vars
    BY <1>1 DEF vars, task, MarksInv, MarksOf, WeightsOf, Totals, Scaled, Combined,
                LastAttempt, RawMax
<1>2. CASE Next
    <2>1. SUFFICES ASSUME NEW w \in Workers PROVE MarksOf(w)' BY DEF MarksInv
    <2>2. MarksOf(w) /\ now[w] \in Programs BY DEF MarksInv, TasksInv, TaskTypes
    <2>3. SameWeights(now'[w], job'[w].program)
        <3>1. CASE now'[w] = now[w]
            BY <1>2, <2>2, <3>1, StepOfTask DEF MarksOf, WeightsOf
        <3>3. ASSUME NEW d, now'[w] \in RetryRequests(now[w], d)
              PROVE  SameWeights(now'[w], job'[w].program)
            <4>1. now'[w] = now[w] \/ now'[w] \in Patched(now[w])
                BY <3>3 DEF RetryRequests
            <4>2. SameWeights(now'[w], now[w])
                BY <2>2, <4>1, PatchKeepsWeights DEF SameWeights
            <4>3. SameWeights(now[w], job[w].program) /\ job' = job
                BY <1>2, <2>2, StepOfTask DEF MarksOf, WeightsOf
            <4>4. QED BY <4>2, <4>3 DEF SameWeights
        <3>4. QED BY <1>2, <3>1, <3>3, StepOfTask
    <2>4. ASSUME NEW k \in DOMAIN attempts'[w]
          PROVE  SameWeights(attempts'[w][k].program, job'[w].program)
        <3>1. job' = job BY <1>2, StepOfTask
        <3>2. CASE attempts'[w] = attempts[w]
            BY <2>2, <2>4, <3>1, <3>2 DEF MarksOf, WeightsOf
        <3>4. ASSUME NEW a, NEW mode,
                     attempts'[w] = Append(attempts[w],
                                      [attempt |-> a, program |-> now[w], mode |-> mode])
              PROVE  SameWeights(attempts'[w][k].program, job'[w].program)
            <4> DEFINE m == [attempt |-> a, program |-> now[w], mode |-> mode]
            <4> DEFINE s == attempts[w]
            <4>1. attempts'[w] = Append(s, m) BY <3>4
            <4>2. m.program = now[w] OBVIOUS
            <4>3. s \in Seq({s[1], s[2]}) BY AttemptsAreSequence
            <4> HIDE DEF m, s
            <4>4. \/ k = Len(s) + 1 /\ Append(s, m)[k] = m
                  \/ k \in DOMAIN s /\ Append(s, m)[k] = s[k]
                BY <2>4, <4>1, <4>3
            <4>5. QED BY <2>2, <3>1, <4>1, <4>2, <4>4 DEF MarksOf, WeightsOf, s
        <3>5. QED BY <1>2, <3>2, <3>4, StepOfTask
    <2>5. at'[w] = "done" => result'[w].total \in Totals(w)'
        BY <1>2, <2>2, StepOfTask, SameTotals DEF MarksOf
    <2>6. QED BY <2>3, <2>4, <2>5 DEF MarksOf, WeightsOf
<1>3. QED BY <1>1, <1>2

\* So every attempt of every behaviour does.
LEMMA MarksInvariant == Spec => []MarksInv
<1>1. Init => MarksInv
    <2>1. ASSUME Init, NEW w \in Workers
          PROVE  now[w] = job[w].program /\ attempts[w] = <<>> /\ at[w] \in {"waiting", "free"}
        BY <2>1 DEF Init
    <2>2. QED BY <2>1 DEF MarksInv, MarksOf, WeightsOf, SameWeights
<1>2. TasksInv /\ MarksInv /\ [Next]_vars => MarksInv' BY MarksStep
<1>3. QED BY <1>1, <1>2, TasksInvariant, PTL DEF Spec

\* An attempt earns at most the sum of the weights, and all of it just by passing.
LEMMA ScoreOfAttempt ==
    ASSUME NEW m, GivenAttempt(m), m.attempt.place # "transport"
    PROVE  LET max == MaxScore(m.program) IN
           /\ max \in Nat /\ m.attempt.score \in 0 .. max
           /\ m.attempt.passed => m.attempt.score = max
           /\ ~m.attempt.passed /\ max > 0 => m.attempt.score < max
<1> DEFINE tests == m.program.tests
<1> DEFINE all == [i \in DOMAIN tests |-> tests[i].weight]
<1>1. /\ tests \in Seq(Tests) /\ DOMAIN tests = 1 .. Len(tests) /\ Len(tests) \in Nat
      /\ \A i \in DOMAIN tests : tests[i].weight \in Nat \ {0}
    <2>1. tests \in Seq(Tests) BY DEF GivenAttempt, Programs
    <2>2. DOMAIN tests = 1 .. Len(tests) /\ Len(tests) \in Nat
          /\ \A i \in DOMAIN tests : tests[i] \in Tests
        BY <2>1
    <2>3. QED BY <2>1, <2>2 DEF Tests
<1>2. IsFiniteSet(DOMAIN tests) BY <1>1, FS_Interval
<1>3. all \in [DOMAIN tests -> Nat] BY <1>1
<1>4. MaxScore(m.program) = SumFunction(all) BY DEF MaxScore
<1> HIDE DEF all
<1>5. SumFunction(all) \in Nat BY <1>2, <1>3, SumsCompare
<1>6. CASE m.attempt.place \notin Places
    BY <1>4, <1>5, <1>6 DEF GivenAttempt, Given
<1>7. CASE m.attempt.place \in Places
    <2> DEFINE cases == m.attempt.cases
    <2> DEFINE won == [i \in DOMAIN cases |-> IF cases[i].passed THEN cases[i].weight ELSE 0]
    <2>1. /\ DOMAIN cases = DOMAIN tests
          /\ \A i \in DOMAIN tests : JudgesWell(m, i)
        BY <1>7, RunsJudgeWell
    <2>2. \A i \in DOMAIN tests : cases[i].weight = tests[i].weight
        BY <2>1 DEF JudgesWell
    <2>3. /\ m.attempt.passed = (\A i \in DOMAIN cases : cases[i].passed)
          /\ m.attempt.score = SumFunction(won)
        BY <1>7, AttemptScores
    <2>4. /\ won \in [DOMAIN tests -> Nat]
          /\ \A i \in DOMAIN tests : won[i] <= all[i]
          /\ \A i \in DOMAIN tests : cases[i].passed => won[i] = all[i]
          /\ \A i \in DOMAIN tests : ~cases[i].passed => won[i] < all[i]
        BY <1>1, <2>1, <2>2 DEF all
    <2> HIDE DEF cases, won, tests
    <2>5. SumFunction(won) \in Nat /\ SumFunction(won) <= SumFunction(all)
          /\ ((\E i \in DOMAIN tests : won[i] < all[i]) => SumFunction(won) < SumFunction(all))
        BY <1>2, <1>3, <2>4, SumsCompare
    <2>6. ASSUME m.attempt.passed PROVE won = all
        <3>1. \A i \in DOMAIN tests : cases[i].passed BY <2>1, <2>3, <2>6
        <3>2. \A i \in DOMAIN tests : won[i] = all[i] BY <2>4, <3>1
        <3>3. QED BY <1>3, <2>4, <3>2
    <2>7. QED BY <1>4, <1>5, <2>1, <2>3, <2>4, <2>5, <2>6
<1>8. QED BY <1>6, <1>7

----------------------------------------------------------------------------
(* From the score to the total *)

\* Multiplication by a factor keeps the order.
LEMMA ProductsCompare ==
    ASSUME NEW x \in Nat, NEW y \in Nat, NEW k \in Nat, x <= y
    PROVE  x * k \in Nat /\ x * k <= y * k /\ (x < y /\ k > 0 => x * k < y * k)
OBVIOUS

\* The total of correctness alone, in units.
LEMMA ScaledTotal ==
    ASSUME NEW s \in Nat, NEW r \in Nat, s <= r, NEW marks \in Nat \ {0}
    PROVE  LET full == marks * (10000 * r)
               t    == IF r = 0 THEN 0 ELSE s * marks * 10000
           IN t \in 0 .. full /\ (t = full /\ r > 0 => s = r) /\ (s = r => t = full)
<1> DEFINE k == marks * 10000
<1>1. k \in Nat /\ k > 0 OBVIOUS
<1>2. s * marks * 10000 = s * k /\ marks * (10000 * r) = r * k OBVIOUS
<1> HIDE DEF k
<1>3. s * k \in Nat /\ r * k \in Nat /\ s * k <= r * k /\ (s < r => s * k < r * k)
    BY <1>1, ProductsCompare
<1>4. QED BY <1>2, <1>3

\* With a quality weight, in percent: neither part exceeds its share.
LEMMA CombinedTotal ==
    ASSUME NEW s \in Nat, NEW r \in Nat, s <= r, NEW marks \in Nat \ {0},
           NEW q \in 0 .. 100, NEW c \in {0, 100}
    PROVE  LET full == marks * (10000 * r)
               t    == marks * (s * 100 * (100 - q) + c * r * q)
           IN t \in 0 .. full /\ (t = full /\ r > 0 /\ q < 100 => s = r)
<1> DEFINE k == 100 * (100 - q)
<1> DEFINE x == s * k
<1> DEFINE y == r * k
<1> DEFINE z == r * (100 * q)
<1> DEFINE d == c * r * q
<1>1. k \in Nat /\ (q < 100 => k > 0) OBVIOUS
<1>2. s * 100 * (100 - q) = x OBVIOUS
<1>3. y + z = 10000 * r OBVIOUS
<1>4. d \in Nat /\ z \in Nat /\ d <= z
    <2>1. CASE c = 0 BY <2>1
    <2>2. CASE c = 100 BY <2>2
    <2>3. QED BY <2>1, <2>2
<1> HIDE DEF k
<1>5. x \in Nat /\ y \in Nat /\ x <= y /\ (s < r /\ k > 0 => x < y)
    BY <1>1, ProductsCompare
<1> DEFINE part == x + d
<1> DEFINE whole == y + z
<1> HIDE DEF x, y, z, d
<1>6. part \in Nat /\ whole \in Nat /\ part <= whole /\ (s < r /\ k > 0 => part < whole)
    BY <1>4, <1>5
<1> HIDE DEF part, whole
<1>7. part * marks \in Nat /\ part * marks <= whole * marks
      /\ (part < whole => part * marks < whole * marks)
    BY <1>6, ProductsCompare
<1>8. marks * part = part * marks /\ marks * whole = whole * marks BY <1>6
<1>9. /\ marks * (10000 * r) = marks * whole
      /\ marks * (s * 100 * (100 - q) + c * r * q) = marks * part
    BY <1>2, <1>3 DEF part, whole, d
<1>10. QED BY <1>1, <1>6, <1>7, <1>8, <1>9

\* No total exceeds the marks of the assignment, all marks without passing take a quality
\* weight, and without one who passes gets them all (build_score_breakdown 28-33); a
\* score that the bridge forwards is the exception.
THEOREM TotalsAreWithinMarks == Spec => []WithinMarks
<1>1. TasksInv /\ MarksInv => WithinMarks
    <2>1. SUFFICES
            ASSUME TasksInv, MarksInv, NEW w \in Workers, at[w] = "done",
                   LastAttempt(w).place # "transport"
            PROVE  /\ result[w].total \in 0 .. Marks * Unit(w)
                   /\ result[w].total = Marks * Unit(w) /\ job[w].quality < 100
                      /\ RawMax(w) > 0 => LastAttempt(w).passed
                   /\ result[w].total < Marks * Unit(w) /\ job[w].quality = 0
                      => ~LastAttempt(w).passed
        BY DEF WithinMarks
    <2> DEFINE m == attempts[w][Len(attempts[w])]
    <2> DEFINE s == m.attempt.score
    <2> DEFINE r == RawMax(w)
    <2> DEFINE q == job[w].quality
    <2> DEFINE t == result[w].total
    <2>last. LastAttempt(w) = m.attempt BY DEF LastAttempt
    <2>2. TaskOf(w) /\ MarksOf(w) /\ job[w] \in Jobs
        BY <2>1 DEF TasksInv, MarksInv, TaskTypes
    <2>3. Len(attempts[w]) \in DOMAIN attempts[w]
        BY <2>1, <2>2 DEF TaskOf, StageOf, Once, Twice, One, Two
    <2>4. GivenAttempt(m) /\ SameWeights(m.program, job[w].program)
        BY <2>2, <2>3 DEF TaskOf, GivenOf, MarksOf, WeightsOf
    <2>5. MaxScore(m.program) = r
        BY <2>4 DEF SameWeights, MaxScore, RawMax
    <2>6. /\ r \in Nat /\ s \in Nat /\ s <= r
          /\ m.attempt.passed => s = r
          /\ ~m.attempt.passed /\ r > 0 => s < r
        BY <2>1, <2>last, <2>4, <2>5, ScoreOfAttempt
    <2>7. q \in 0 .. 100 /\ Marks \in Nat \ {0}
        BY <2>2, EvaluationAssumption DEF Jobs
    <2>8. Marks * Unit(w) = Marks * (10000 * r) BY DEF Unit
    <2>9. t \in Totals(w) BY <2>1, <2>2 DEF MarksOf
    <2>10. CASE t = Scaled(w)
        <3>1. t = IF r = 0 THEN 0 ELSE s * Marks * 10000 BY <2>last, <2>10 DEF Scaled
        <3> HIDE DEF s, r, q, t, m
        <3> DEFINE total == IF r = 0 THEN 0 ELSE s * Marks * 10000
        <3> DEFINE full == Marks * (10000 * r)
        <3>2. total \in 0 .. full /\ (total = full /\ r > 0 => s = r) /\ (s = r => total = full)
            BY <2>6, <2>7, ScaledTotal
        <3>3. t = total /\ Marks * Unit(w) = full BY <2>8, <3>1
        <3> HIDE DEF total, full
        <3>4. /\ t \in 0 .. full
              /\ t = full /\ r > 0 => m.attempt.passed
              /\ t < full => ~m.attempt.passed
            BY <2>6, <2>7, <3>2, <3>3
        <3>5. QED BY <2>last, <3>3, <3>4 DEF r, t
    <2>11. ASSUME NEW c \in {0, 100}, q # 0, t = Combined(w, c)
           PROVE  /\ t \in 0 .. Marks * Unit(w)
                  /\ t = Marks * Unit(w) /\ q < 100 /\ r > 0 => m.attempt.passed
        <3>1. t = Marks * (Least(s, r) * 100 * (100 - q) + c * r * q)
            BY <2>last, <2>11 DEF Combined
        <3> HIDE DEF s, r, q, t, m
        <3>2. Least(s, r) = s BY <2>6 DEF Least
        <3> DEFINE total == Marks * (s * 100 * (100 - q) + c * r * q)
        <3> DEFINE full == Marks * (10000 * r)
        <3>3. t = total /\ Marks * Unit(w) = full BY <2>8, <3>1, <3>2
        <3>4. total \in 0 .. full /\ (total = full /\ r > 0 /\ q < 100 => s = r)
            BY <2>6, <2>7, CombinedTotal
        <3> HIDE DEF total, full
        <3>5. t \in 0 .. full /\ (t = full /\ r > 0 /\ q < 100 => s = r) BY <3>3, <3>4
        <3>6. QED BY <2>6, <3>3, <3>5
    <2>12. t = Scaled(w) \/ (q # 0 /\ \E c \in {0, 100} : t = Combined(w, c))
        BY <2>9 DEF Totals
    <2>13. QED BY <2>last, <2>10, <2>11, <2>12
<1>2. QED BY <1>1, TasksInvariant, MarksInvariant, PTL
=============================================================================
