---------------------------- MODULE ShimDecision ----------------------------
(***************************************************************************)
(* code_eval/shim_service.py: whether a failed attempt is retried, how its *)
(* texts are compared then, and what is run.  First a rule for white space *)
(* that needs no model, then the answer of the model service.              *)
(***************************************************************************)
EXTENDS TestRuns

Refused(reason) == [eligible |-> FALSE, reason |-> reason, comparison |-> "strict"]

Failed(attempt) == {i \in DOMAIN attempt.cases : ~attempt.cases[i].passed}

-----------------------------------------------------------------------------
(* The rule for white space, for Python only *)

\* The program reads its arguments where the test case gives it a standard input.
ReadsElsewhere(req, t, c) ==
  t.input = "stdin" /\ c.out = "blank" /\ req.reads = "argv"

CaseReason(req, t, c) ==
  CASE "exit_code" \in c.tokens -> "exit_code_mismatch"
    [] "exit_code" \notin c.tokens /\ c.tokens \cap {"timeout", "output_truncated"} # {}
         -> "blocking_runtime_failure"
    [] c.tokens \cap {"exit_code", "timeout", "output_truncated"} = {}
       /\ c.tokens # {"stdout_mismatch"} -> "contains_non_interface_failure_tokens"
    [] c.tokens = {"stdout_mismatch"} ->
         IF c.out = "spaced" THEN "whitespace_only_interface_mismatch"
         ELSE IF ReadsElsewhere(req, t, c) THEN "potential_interface_io_mismatch"
         ELSE "output_difference_not_whitespace_only"

\* The reasons of the failed test cases, as far as the rule looks at them.
Examined(req, attempt) == attempt.listed /\ req.language = "python"

CaseReasons(req, attempt) ==
  IF ~Examined(req, attempt) THEN {}
  ELSE {CaseReason(req, req.tests[i], attempt.cases[i]) : i \in Failed(attempt)}

\* One failure that is only white space is enough.
DeterministicAny(req, attempt) ==
  IF "whitespace_only_interface_mismatch" \in CaseReasons(req, attempt)
  THEN [eligible |-> TRUE, reason |-> "whitespace", comparison |-> "whitespace_normalized"]
  ELSE Refused("not_whitespace")

Deterministic(req, attempt) ==
  IF CaseReasons(req, attempt) = {"whitespace_only_interface_mismatch"}
  THEN [eligible |-> TRUE, reason |-> "whitespace", comparison |-> "whitespace_normalized"]
  ELSE Refused("not_whitespace")

-----------------------------------------------------------------------------
(* The model service *)

\* The reasons the model path goes by: of a compiled program all that is known is that
\* the first execution failed, and of a run in a microVM or on the bridge nothing.
AiReasons(req, attempt) ==
  IF Examined(req, attempt) THEN CaseReasons(req, attempt)
  ELSE IF attempt.listed /\ Failed(attempt) # {} THEN {"initial_execution_failure"}
  ELSE {}

AllInterfaceLike(reasons) ==
  /\ reasons # {}
  /\ reasons \subseteq {"potential_interface_io_mismatch", "whitespace_only_interface_mismatch"}

\* An answer of the model: none, files with an unsafe path, a failure that it cannot fix,
\* or one that it can, with or without files, that pass the compiler on their own or not,
\* and the comparison it asks for.
ModelAnswers ==
  [kind : {"unavailable", "unsafe", "not_fixable"}, files : {"none"}, checks : {FALSE},
   comparison : {"strict"}]
  \cup [kind : {"fixable"}, files : {"none", "whole"}, checks : BOOLEAN,
        comparison : {"strict", "whitespace_normalized"}]

\* Without files the code writes the adapter itself, if the failures look like it.
HasPatch(req, attempt, answer) ==
  answer.files = "whole" \/ AllInterfaceLike(AiReasons(req, attempt))

\* A patch is compiled by itself before it is run; a Python patch is not checked.
CompileCheck(req, answer) == req.language \in Compiled => answer.checks

\* enabled: settings.code_eval_enable_ai_shim_generation.
AiDecision(enabled, req, attempt, answer) ==
  CASE ~enabled -> Refused("ai_shim_generation_disabled")
    [] enabled /\ answer.kind = "unavailable" -> Refused("ai_shim_model_error")
    [] enabled /\ answer.kind = "unsafe" -> Refused("ai_shim_invalid_patch_path")
    [] enabled /\ answer.kind = "not_fixable" -> Refused("ai_shim_not_fixable")
    [] enabled /\ answer.kind = "fixable" ->
         IF ~HasPatch(req, attempt, answer)
         THEN Refused("ai_shim_fixable_without_patch_rejected")
         ELSE IF ~CompileCheck(req, answer) THEN Refused("shim_compile_check_failed")
         ELSE [eligible |-> TRUE, reason |-> "patch", comparison |-> answer.comparison]

Analyze(enabled, req, attempt, answer) ==
  IF Deterministic(req, attempt).eligible THEN Deterministic(req, attempt)
  ELSE AiDecision(enabled, req, attempt, answer)

-----------------------------------------------------------------------------
\* What a patched program does on every test case: it prints what is wanted or something
\* else, fails, or does not end.
PatchedRuns ==
  LET ends(exit, out) == [time |-> 0, exit |-> exit, out |-> out, size |-> "small"]
  IN {ends(0, "same"), ends(0, "other"), ends(1, "other"),
      [ends(0, "other") EXCEPT !.time = Quota + Grace + 1]}

PatchedAs(req, verdict, run) ==
  [req EXCEPT !.compile = verdict,
              !.tests = [i \in DOMAIN req.tests |->
                           [req.tests[i] EXCEPT !.clean = run, !.dirty = run]]]

\* What a patch, by the model or the adapter, can make of a program.  The check compiled
\* the patched files only, and passed if there was no compiler: of the whole program it
\* says nothing.
Patched(req) ==
  {PatchedAs(req, verdict, run) :
     verdict \in IF req.language \in Compiled THEN {"ok", "error"} ELSE {req.compile},
     run \in PatchedRuns}

\* The program of the retry: the merged files, or the same request.
RetryRequests(req, decision) ==
  IF decision.reason = "patch" THEN Patched(req) ELSE {req}

=============================================================================
