-------------------------- MODULE JobStateMachine --------------------------
(***************************************************************************)
(* The lifecycle table of a code-evaluation job                            *)
(* (services/code_eval/state_machine.py) and the walk the worker takes     *)
(* through it when it gives a job up (workers/code_eval_tasks.py).  No     *)
(* state: CodeEvalJob and JobLifecycle are both built on these operators.  *)
(***************************************************************************)
EXTENDS Naturals, Sequences

\* CodeEvalJobState
JobStates == {"QUEUED", "EXECUTING_RAW", "AI_ANALYZING", "RETRYING_SHIM",
              "FINALIZING", "COMPLETED", "FAILED"}

Terminal == {"COMPLETED", "FAILED"}

\* A table that also lets a terminal job be opened again.
ReopeningTransitions ==
    [s \in JobStates |->
        CASE s = "QUEUED"        -> {"EXECUTING_RAW", "FAILED"}
          [] s = "EXECUTING_RAW" -> {"AI_ANALYZING", "FINALIZING", "FAILED"}
          [] s = "AI_ANALYZING"  -> {"RETRYING_SHIM", "FAILED"}
          [] s = "RETRYING_SHIM" -> {"FINALIZING", "FAILED"}
          [] s = "FINALIZING"    -> {"COMPLETED", "FAILED"}
          [] OTHER               -> {"EXECUTING_RAW"}]

\* _ALLOWED_TRANSITIONS
AllowedTransitions ==
    [s \in JobStates |->
        CASE s = "QUEUED"        -> {"EXECUTING_RAW", "FAILED"}
          [] s = "EXECUTING_RAW" -> {"AI_ANALYZING", "FINALIZING", "FAILED"}
          [] s = "AI_ANALYZING"  -> {"RETRYING_SHIM", "FAILED"}
          [] s = "RETRYING_SHIM" -> {"FINALIZING", "FAILED"}
          [] s = "FINALIZING"    -> {"COMPLETED", "FAILED"}
          [] OTHER               -> {}]

\* A check that never rejects.
AnyTransition(current, next) == TRUE

\* can_transition; validate_transition raises exactly when this is false.
CanTransition(current, next) == next \in AllowedTransitions[current]

\* An initial state that is not one of the seven.
PendingState == "PENDING"

\* default_initial_state
InitialState == "QUEUED"

\* A walk that forgets that a QUEUED job has to be started before it can fail.
WalkWithoutStart(current) == <<current, "FINALIZING", "FAILED">>

(***************************************************************************)
(* The states _transition_to_failed steps through, in memory, before the   *)
(* one commit that follows it.  Every hop goes through validate_transition *)
(* again, so the walk raises if one hop is not in the table.               *)
(***************************************************************************)
FailureWalk(current) ==
    CASE current = "QUEUED"     -> <<"QUEUED", "EXECUTING_RAW", "FINALIZING", "FAILED">>
      [] current = "FINALIZING" -> <<"FINALIZING", "FAILED">>
      [] OTHER                  -> <<current, "FINALIZING", "FAILED">>

LegalWalk(walk) ==
    \A i \in 1 .. Len(walk) - 1 : CanTransition(walk[i], walk[i + 1])

\* Whether _transition_to_failed reaches FAILED from `current`.
CanGiveUp(current) == LegalWalk(FailureWalk(current))

(***************************************************************************)
(* Reachable[s]: the states some legal walk of one hop or more leads to    *)
(* from s, as the least set that holds the successors of s and is closed   *)
(* under the table.  Several transitions may fall into one commit, so this *)
(* relation, not the table, is what another session sees of a job.         *)
(***************************************************************************)
ClosedUnderTable(set) == \A s \in set : AllowedTransitions[s] \subseteq set

Reachable ==
    [s \in JobStates |->
        {t \in JobStates :
            \A set \in SUBSET JobStates :
                (AllowedTransitions[s] \subseteq set /\ ClosedUnderTable(set)) => t \in set}]
=============================================================================
