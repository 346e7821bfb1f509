------------------------------ MODULE TestRuns ------------------------------
(***************************************************************************)
(* How the backends of the code evaluator run the test cases of a request *)
(* and judge them: the local and the docker backend of                     *)
(* code_eval/execution_service.py, the reference executor of               *)
(* runtime_bridge_service/server.py and the guest agent of                 *)
(* microvm_guest_agent/agent.py.  Four translations of one idea, compared  *)
(* with one reference verdict.                                             *)
(*                                                                         *)
(* A text is what a comparison can tell of it: "same" as expected, "spaced"*)
(* (equal once white space is collapsed), "other", "blank" or "binary" (not  *)
(* UTF-8).  One stream stands for stdout and stderr, treated alike.  A text *)
(* that is wanted is never blank.                                          *)
(***************************************************************************)
EXTENDS Integers, Sequences, FiniteSets, SequencesExt

CONSTANTS
  Quota,        \* quota.timeout_seconds, the time one test case may take
  Grace,        \* what the docker backend waits on top of it
  VsockWait,    \* code_eval_microvm_vsock_connect_timeout_seconds
  BridgeWait    \* code_eval_microvm_runtime_bridge_timeout_seconds

ASSUME TimesAssumption ==
  /\ Quota \in Nat \ {0} /\ Grace \in Nat
  /\ VsockWait \in Nat /\ BridgeWait \in Nat

Compiled == {"c", "cpp", "java"}
Languages == Compiled \cup {"python"}

(***************************************************************************)
(* What a program does on one test case: the time it takes, its exit code, *)
(* what it printed by then and how much.  "pipe" is more than a pipe holds *)
(* and within max_output_kb, "over" is more than max_output_kb.            *)
(***************************************************************************)
Behaviours ==
  [time : Nat, exit : {0, 1}, out : {"same", "spaced", "other", "blank", "binary"},
   size : {"small", "pipe", "over"}]

(***************************************************************************)
(* A request: the language, what its compiler says of the program, whether *)
(* its environment names packages to install, which input the source reads,*)
(* and the test cases in order.  A test case has a weight, the exit code it*)
(* wants, whether it wants a text, how it gives input, and what the program*)
(* does on it in a fresh directory (clean) and in one where an earlier test*)
(* case has left files (dirty).                                            *)
(***************************************************************************)
Tests ==
  [weight : Nat \ {0}, exit : {-9, -1, 0, 1}, text : BOOLEAN, input : {"stdin", "argv"},
   writes : BOOLEAN, clean : Behaviours, dirty : Behaviours]

\* "parts": the program is in several files; "libm": it needs -lm.
Verdicts == {"ok", "parts", "libm", "error"}

Programs ==
  [language : Languages, compile : Verdicts, packages : BOOLEAN,
   reads : {"stdin", "argv", "nothing"}, tests : Seq(Tests)]

\* The places that compile with the flags of the language profile, and the one that
\* hands all source files to the compiler (javac finds the others by itself).
ProfileFlags == {"local", "docker"}
AllSources == {"local"}

Compiles(place, req) ==
  \/ req.language \notin Compiled
  \/ req.compile = "ok"
  \/ req.compile = "parts" /\ (req.language = "java" \/ place \in AllSources)
  \/ req.compile = "libm" /\ (req.language = "java" \/ place \in ProfileFlags)

MaxScore(req) == SumFunction([i \in DOMAIN req.tests |-> req.tests[i].weight])

Equivalent(out, comparison) ==
  \/ out = "same"
  \/ out = "spaced" /\ comparison = "whitespace_normalized"

\* What is left of an output after max_output_kb.
Truncated(b) == IF b.size = "over" THEN "other" ELSE b.out

-----------------------------------------------------------------------------
(***************************************************************************)
(* What each backend sees of a run.  A run that takes too long has exit    *)
(* code -1 on the host, -9 in the guest, which kills it and reports the    *)
(* signal; the local runners lose what it printed, the others keep it.     *)
(***************************************************************************)
Finished(b) == [exit |-> b.exit, out |-> Truncated(b), timeout |-> FALSE,
                truncated |-> b.size = "over"]

\* The host, too, waits longer than the quota.
HostRunLate(b) ==
  IF b.time > Quota + Grace
  THEN [exit |-> -1, out |-> "blank", timeout |-> TRUE, truncated |-> FALSE]
  ELSE Finished(b)

HostRun(b) ==
  IF b.time > Quota
  THEN [exit |-> -1, out |-> "blank", timeout |-> TRUE, truncated |-> FALSE]
  ELSE Finished(b)

\* What can go wrong with one container and its test case alone: a call up to the end of
\* the program raises, which the code takes for a timeout, or the output cannot be read,
\* which it takes for none.
Mishaps == {"raised", "unread"}

DockerRun(b, mishaps) ==
  LET ended == "raised" \notin mishaps /\ b.time <= Quota + Grace
      read  == "unread" \notin mishaps
  IN [exit      |-> IF ended THEN b.exit ELSE -1,
      out       |-> IF read THEN Truncated(b) ELSE "blank",
      timeout   |-> ~ended,
      truncated |-> read /\ b.size = "over"]

\* The guest reads the pipes only after the process has ended: a process that
\* fills one waits for a reader until it is killed.
GuestRun(b) ==
  IF b.time > Quota \/ b.size # "small"
  THEN [exit |-> -9, out |-> IF b.size = "small" THEN b.out ELSE "other",
        timeout |-> TRUE, truncated |-> FALSE]
  ELSE Finished(b)

\* How long a test case keeps the guest busy, and the bridge.
GuestTime(t) ==
  IF t.clean.time > Quota \/ t.clean.size # "small" THEN Quota ELSE t.clean.time

BridgeTime(t) == IF t.clean.time > Quota THEN Quota ELSE t.clean.time

\* The host waits for one answer to the whole request: from the guest with the quota of
\* one test case, from the bridge with a timeout of its own.
ResponseWait == IF Quota >= VsockWait THEN Quota ELSE VsockWait

GuestInTime(req) ==
  SumFunction([i \in DOMAIN req.tests |-> GuestTime(req.tests[i])]) <= ResponseWait

BridgeInTime(req) ==
  SumFunction([i \in DOMAIN req.tests |-> BridgeTime(req.tests[i])]) <= BridgeWait

-----------------------------------------------------------------------------
(***************************************************************************)
(* The verdict on one test case, the same code in all four places: the     *)
(* exit code and, if a text is wanted, the text.                           *)
(***************************************************************************)
\* A test case without a wanted text is held to one.
JudgeText(t, seen, comparison) ==
  LET exitOk == seen.exit = t.exit
      outOk  == Equivalent(seen.out, comparison)
  IN [passed |-> exitOk /\ outOk, weight |-> t.weight, out |-> seen.out,
      tokens |-> {x \in {"timeout"} : seen.timeout}
                 \cup {x \in {"exit_code"} : ~exitOk}
                 \cup {x \in {"stdout_mismatch"} : ~outOk}
                 \cup {x \in {"output_truncated"} : seen.truncated}]

Judge(t, seen, comparison) ==
  LET exitOk == seen.exit = t.exit
      outOk  == t.text => Equivalent(seen.out, comparison)
  IN [passed |-> exitOk /\ outOk,
      weight |-> t.weight,
      out    |-> seen.out,
      tokens |-> {x \in {"timeout"} : seen.timeout}
                 \cup {x \in {"exit_code"} : ~exitOk}
                 \cup {x \in {"stdout_mismatch"} : ~outOk}
                 \cup {x \in {"output_truncated"} : seen.truncated}]

NotCompiled(t) ==
  [passed |-> FALSE, weight |-> t.weight, out |-> "blank", tokens |-> {"compile_error"}]

\* The local backend compiles once and runs every test case in one workspace.
Dirty(req, i) == \E j \in 1 .. i - 1 : req.tests[j].writes

LocalBehaviour(req, i) ==
  IF Dirty(req, i) THEN req.tests[i].dirty ELSE req.tests[i].clean

LocalCases(req, comparison) ==
  [i \in DOMAIN req.tests |->
     IF Compiles("local", req)
     THEN Judge(req.tests[i], HostRun(LocalBehaviour(req, i)), comparison)
     ELSE NotCompiled(req.tests[i])]

\* subprocess.run decodes what a finished program printed and raises if it cannot.
Undecodable(b) == b.out = "binary" /\ b.time <= Quota

LocalCrashes(req) ==
  {i \in DOMAIN req.tests : Compiles("local", req) /\ Undecodable(LocalBehaviour(req, i))}

BridgeCrashes(req) ==
  {i \in DOMAIN req.tests : Compiles("bridge", req) /\ Undecodable(req.tests[i].clean)}

\* The bridge and the guest agent compile and run each test case in a directory of
\* its own.
BridgeCases(req, comparison) ==
  [i \in DOMAIN req.tests |->
     IF Compiles("bridge", req)
     THEN Judge(req.tests[i], HostRun(req.tests[i].clean), comparison)
     ELSE NotCompiled(req.tests[i])]

GuestCases(req, comparison) ==
  [i \in DOMAIN req.tests |->
     IF Compiles("guest", req)
     THEN Judge(req.tests[i], GuestRun(req.tests[i].clean), comparison)
     ELSE NotCompiled(req.tests[i])]

\* Containers compared with white space collapsed, also on the first attempt.
DockerCasesLoosely(req, comparison, mishaps) ==
  [i \in DOMAIN req.tests |->
     Judge(req.tests[i], DockerRun(req.tests[i].clean, mishaps[i]), "whitespace_normalized")]

\* The docker backend gives each test case a container and one shell command that
\* compiles and runs: a compiler that fails is an exit code like any other.
FailingCompiler == [time |-> 0, exit |-> 1, out |-> "blank", size |-> "small"]

Contained(req, i) ==
  IF Compiles("docker", req) THEN req.tests[i].clean ELSE FailingCompiler

\* mishaps: of each test case's container.
DockerCases(req, comparison, mishaps) ==
  [i \in DOMAIN req.tests |->
     Judge(req.tests[i], DockerRun(Contained(req, i), mishaps[i]), comparison)]

Cases(place, req, comparison, mishaps) ==
  CASE place = "local"  -> LocalCases(req, comparison)
    [] place = "docker" -> DockerCases(req, comparison, mishaps)
    [] place = "bridge" -> BridgeCases(req, comparison)
    [] place = "guest"  -> GuestCases(req, comparison)

\* The attempt a backend returns.  The test cases of a microVM or bridge run are
\* below guest_artifacts or bridge_artifacts, where the shim does not look.
Attempt(place, req, comparison, mishaps) ==
  LET cases == Cases(place, req, comparison, mishaps)
  IN [place   |-> place,
      passed  |-> \A i \in DOMAIN cases : cases[i].passed,
      score   |-> SumFunction([i \in DOMAIN cases |->
                    IF cases[i].passed THEN cases[i].weight ELSE 0]),
      cases   |-> cases,
      listed  |-> place \in {"local", "docker"},
      mishaps |-> mishaps]

\* The other places have no containers.
Smoothly(req) == [i \in DOMAIN req.tests |-> {}]

\* An attempt in which no test case was run.
NoAttempt(reason) ==
  [place |-> reason, passed |-> FALSE, score |-> 0, cases |-> <<>>, listed |-> FALSE,
   mishaps |-> <<>>]

\* An exception ends the whole run: the score is lost, the test cases before it are
\* listed all the same.
LocalAnswer(req, comparison) ==
  LET crashes == LocalCrashes(req)
      first   == CHOOSE i \in crashes : \A j \in crashes : i <= j
      attempt == Attempt("local", req, comparison, Smoothly(req))
  IN IF crashes = {} THEN attempt
     ELSE [attempt EXCEPT !.place = "local_crash", !.passed = FALSE, !.score = 0,
                          !.cases = SubSeq(attempt.cases, 1, first - 1)]

\* The guest image installs no packages: a Python request that names some is answered
\* with an error, and the host takes that for the verdict.
GuestAnswer(req, comparison) ==
  IF req.language = "python" /\ req.packages
  THEN NoAttempt("guest_error") ELSE Attempt("guest", req, comparison, Smoothly(req))

-----------------------------------------------------------------------------
(***************************************************************************)
(* The reference: a test case passes if the program compiles, all of it    *)
(* with the flags of its language, and, alone in its directory, ends within*)
(* the quota with the exit code and the text that are wanted, within the   *)
(* output limit.                                                           *)
(***************************************************************************)
Deserves(req, t, comparison) ==
  /\ Compiles("local", req)
  /\ t.clean.time <= Quota
  /\ t.clean.exit = t.exit
  /\ t.text => t.clean.size # "over" /\ Equivalent(t.clean.out, comparison)

=============================================================================
