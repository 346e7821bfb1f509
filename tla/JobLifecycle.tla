---------------------------- MODULE JobLifecycle ----------------------------
(***************************************************************************)
(* What the rest of the system is promised about a code-evaluation job:    *)
(* it is created QUEUED and its stored status only ever moves forward      *)
(* along the lifecycle table, so that COMPLETED and FAILED are final.      *)
(* CodeEvalJob implements this when each job is delivered once; the        *)
(* frontend stops polling a job at its first terminal status.              *)
(***************************************************************************)
EXTENDS JobStateMachine

CONSTANTS Jobs,     \* identifiers of code_eval_jobs rows
          Absent    \* the status of a row that does not exist yet, none of JobStates

VARIABLE status

TypeOK == status \in [Jobs -> JobStates \cup {Absent}]

Init == status = [j \in Jobs |-> Absent]

Create(j) ==
    /\ status[j] = Absent
    /\ status' = [status EXCEPT ![j] = InitialState]

Advance(j) ==
    /\ status[j] # Absent
    /\ \E next \in Reachable[status[j]] : status' = [status EXCEPT ![j] = next]

Next == \E j \in Jobs : Create(j) \/ Advance(j)

Spec == Init /\ [][Next]_status
=============================================================================
