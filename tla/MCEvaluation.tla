---------------------------- MODULE MCEvaluation ----------------------------
(***************************************************************************)
(* Evaluation for TLC.  A program's run time is 1 (in time), 3 (too late   *)
(* for the quota of 2) or 5 (also for the grace of docker).  The scenarios *)
(* come in groups: one worker and every behaviour of one test case on each *)
(* backend; pairs of test cases that disturb each other; what compilers    *)
(* accept; every deployment; scores; and workers that contend for the one  *)
(* microVM.                                                                *)
(***************************************************************************)
EXTENDS Evaluation, TLC

CONSTANTS w1, w2

Runs(times, exits, outs, sizes) ==
  [time : times, exit : exits, out : outs, size : sizes]

Behaves(out) == [time |-> 1, exit |-> 0, out |-> out, size |-> "small"]
Good == Behaves("same")
Slow == [Good EXCEPT !.time = 2]

Test(behaviour) ==
  [weight |-> 1, exit |-> 0, text |-> TRUE, input |-> "stdin", writes |-> FALSE,
   clean |-> behaviour, dirty |-> behaviour]

Python(tests) ==
  [language |-> "python", compile |-> "ok", packages |-> FALSE, reads |-> "argv",
   tests |-> tests]

On(backend) ==
  [backend |-> backend, mode |-> "pending", snapshot |-> TRUE, fallback |-> "none",
   local |-> TRUE, shim |-> "model"]

MicroVM(mode, fallback) ==
  [On("microvm") EXCEPT !.mode = mode, !.fallback = fallback]

\* Where many meet, the model would only multiply the states.
ByRule(d) == [d EXCEPT !.shim = "rule"]

FourPlaces ==
  {On("local"), On("docker"), MicroVM("runtime_bridge", "docker"),
   MicroVM("firecracker_vsock", "none")}

\* One worker has the job, the others are free.
Alone(d, program, quality) ==
  [deploy |-> d, busy |-> {w1},
   jobs |-> [w \in Workers |-> [program |-> program, quality |-> quality, asked |-> TRUE]]]

\* A weight without an evaluation.
NotAsked(s) == [s EXCEPT !.jobs = [w \in Workers |-> [s.jobs[w] EXCEPT !.asked = FALSE]]]

-----------------------------------------------------------------------------
AnyBehaviour ==
  Runs({1, 5}, {0, 1}, {"same", "spaced", "other", "blank", "binary"}, {"small"})
  \cup Runs({3}, {0}, {"same", "other"}, {"small"})
  \cup Runs({1}, {0}, {"same"}, {"pipe", "over"})

SingleTests ==
  {[Test(b) EXCEPT !.exit = exit, !.text = text] :
     b \in AnyBehaviour, exit \in {-9, -1, 0, 1}, text \in BOOLEAN}

Verdict ==
  {Alone(ByRule(d), Python(<<t>>), 0) : d \in FourPlaces, t \in SingleTests}
  \cup {Alone(d, Python(<<Test(b)>>), 0) : d \in FourPlaces, b \in AnyBehaviour}

Pairs ==
  {<<[Test(Behaves(x)) EXCEPT !.writes = writes], [Test(Behaves(y)) EXCEPT !.dirty.out = z]>> :
     x \in {"same", "spaced"}, writes \in BOOLEAN,
     y \in {"same", "other", "binary"}, z \in {"same", "spaced", "other", "binary"}}
  \cup {<<Test(Slow), Test(b)>> : b \in {Slow, [Good EXCEPT !.size = "pipe"]}}

Sequence == {Alone(ByRule(d), Python(tests), 0) : d \in FourPlaces, tests \in Pairs}

Compiling ==
  LET Of(tests) ==
        {[Python(tests) EXCEPT !.language = language, !.compile = verdict] :
           language \in {"c", "java"}, verdict \in Verdicts}
        \cup {[Python(tests) EXCEPT !.packages = TRUE]}
  IN UNION {{Alone(ByRule(d), program, 0) : d \in FourPlaces, program \in Of(<<t>>)} :
              t \in {[Test(Behaves(out)) EXCEPT !.exit = exit, !.text = (exit = 0)] :
                      out \in {"same", "blank"}, exit \in {0, 1}}}
     \cup {Alone(d, program, 0) : d \in FourPlaces, program \in Of(<<Test(Behaves("blank"))>>)}

Interfaces ==
  {Alone(On("local"), [Python(<<[Test(Behaves("blank")) EXCEPT !.input = input]>>)
                         EXCEPT !.reads = reads], 0) :
     input \in {"stdin", "argv"}, reads \in {"stdin", "argv", "nothing"}}

Deploying ==
  {Alone(d, Python(tests), 0) :
     d \in {e \in Deployments :
             \/ e.backend = "microvm" /\ e.shim # "model"
             \/ e = [On(e.backend) EXCEPT !.local = e.local, !.shim = e.shim]},
     tests \in {<<>>, <<Test(Good)>>}}

Scoring ==
  {NotAsked(Alone(On("local"), Python(<<Test(Behaves(x))>>), 100)) : x \in {"same", "other"}}
  \cup {Alone(d, Python(<<[Test(Behaves(x)) EXCEPT !.weight = 2], Test(Behaves(y))>>), quality) :
     d \in {On("local"), MicroVM("microvm_transport", "none")},
     x \in {"same", "spaced", "other"}, y \in {"same", "other"}, quality \in {0, 50, 100}}

\* All workers busy: the same program, or one that the guest cannot answer in time or
\* whose retry goes back to the queue for the microVM.
Contending ==
  {[deploy |-> ByRule(MicroVM("firecracker_vsock", fallback)), busy |-> {w1, w2},
    jobs |-> [w \in Workers |-> [quality |-> 0, asked |-> TRUE,
                program |-> IF w = w1 THEN Python(tests) ELSE Python(<<Test(Behaves("spaced"))>>)]]] :
     fallback \in {"none", "local"},
     tests \in {<<Test(Behaves("spaced"))>>, <<Test(Behaves("other"))>>,
                <<Test(Slow), Test(Slow)>>}}

\* The same program for two workers, in the microVM or whatever stands in for it.
Twins ==
  {[deploy |-> ByRule(MicroVM(mode, "docker")), busy |-> {w1, w2},
    jobs |-> [w \in Workers |-> [quality |-> 0, asked |-> TRUE, program |-> Python(<<t>>)]]] :
     mode \in {"firecracker_vsock", "microvm_transport"},
     t \in {Test(Good), Test(Behaves("spaced")), Test([Good EXCEPT !.time = 3]),
            [Test(Behaves("other")) EXCEPT !.exit = 1]}}

mcScenarios ==
  Verdict \cup Sequence \cup Compiling \cup Interfaces \cup Deploying \cup Scoring
  \cup Contending \cup Twins
=============================================================================
