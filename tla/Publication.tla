----------------------------- MODULE Publication -----------------------------
(***************************************************************************)
(* How one coding assignment comes to be graded: its environment versions  *)
(* are built (EnvironmentBuilds), its tests and rubrics approved (Reviews),*)
(* it is published with a version, and jobs are made from what is there    *)
(* when they are made.  What becomes of a job is CodeEvalJob's.            *)
(***************************************************************************)
EXTENDS EnvironmentBuilds, Reviews

CONSTANTS
  NoVersion,    \* published_environment_version_id is NULL
  Stages        \* what an assignment may have when the behaviour starts

AssignmentRows == [published : BOOLEAN, version : Versions \cup {NoVersion}]

\* Rows the database can hold: what approve read in approved tests is sound; a
\* version may be `ready' without a key, for it can be created so.
ASSUME StagesAssumption ==
  \A s \in Stages :
    /\ DOMAIN s.expected = Ids
    /\ \A v \in Versions : NoKey \notin s.resolves[v]
    /\ s.env \in [Versions -> VersionRows(s.resolves)]
    /\ s.artifact \in [Artifacts -> {row \in ArtifactRows : row.made = 0}]
    /\ s.artifact["tests"].status = "approved" => s.artifact["tests"].content.sound
    /\ s.assignment \in AssignmentRows

VARIABLES
  assignment,   \* its is_published and its published version
  jobs          \* the jobs made of it, with what they were bound to

vars == <<requests, building, reviews, assignment, jobs>>

Init ==
  /\ \E s \in Stages :
       /\ RequestsInit(s.expected)
       /\ EnvInit(s.env, s.resolves)
       /\ ReviewsInit(s.artifact)
       /\ assignment = s.assignment
  /\ jobs = {}

ApprovedRubrics == {a \in Rubrics : artifact[a].status = "approved"}
\* (mutant) Tests an instructor has not rejected will do.
TestsOfAnyKind == artifact["tests"].status # "rejected"
ApprovedTests == artifact["tests"].status = "approved"
\* (mutant) Having been published is enough.
Published(v) == v # NoVersion
Ready(v) == v # NoVersion /\ env[v].status = "ready"
-----------------------------------------------------------------------------
(* POST /assignments/{id}/publish *)

\* The version asked for, or else the one already published.
Resolved(v) == IF v = NoVersion THEN assignment.version ELSE v

\* Any approved rubric may come first, sound or not.
ReadyForPublish(v) ==
  /\ Ready(v)
  /\ \E a \in ApprovedRubrics : artifact[a].content.counts => ApprovedTests

OpenPublish(i, v, force) ==
  /\ Arrives(i, "publish")
  /\ ~assignment.published \/ force
  /\ ReadyForPublish(Resolved(v))
  /\ Moves(i, [step |-> "open", kind |-> "publish", on |-> Resolved(v), row |-> assignment])
  /\ UNCHANGED <<building, reviews, assignment, jobs>>

CommitPublish(i) ==
  /\ InStep(i, "publish", "open")
  /\ assignment' = Flushed(request[i].row,
                           [published |-> TRUE, version |-> request[i].on], assignment)
  /\ Moves(i, Over)
  /\ UNCHANGED <<building, reviews, jobs>>
-----------------------------------------------------------------------------
(* Jobs: dispatch_code_eval takes everything from the database; create_job *)
(* takes the tests from its body and the version it names.                 *)

\* What a job is bound to, and the builds of its version when that was read.
Job(i, v, counts, tests) ==
  [by |-> i, version |-> v, key |-> env[v].key, counts |-> counts, tests |-> tests,
   builds |-> builds[v]]

Opens(i, job) ==
  /\ Moves(i, [step |-> "open", kind |-> "job", on |-> job.version, job |-> job])
  /\ UNCHANGED <<building, reviews, assignment, jobs>>

OpenDispatch(i) ==
  /\ Arrives(i, "job")
  /\ assignment.published
  /\ Ready(assignment.version)
  /\ \E a \in ApprovedRubrics :
       /\ artifact[a].content.sound
       /\ artifact[a].content.counts =>
            ApprovedTests /\ artifact["tests"].content.given # "none"
       /\ Opens(i, Job(i, assignment.version, artifact[a].content.counts,
                       IF artifact[a].content.counts THEN artifact["tests"].content
                                                     ELSE NoContent))

OpenCreate(i, v) ==
  /\ Arrives(i, "job")
  /\ Ready(v) /\ env[v].key # NoKey
  /\ Opens(i, Job(i, v, FALSE, NoContent))

CommitJob(i) ==
  /\ InStep(i, "job", "open")
  /\ jobs' = jobs \cup {request[i].job}
  /\ Moves(i, Over)
  /\ UNCHANGED <<building, reviews, assignment>>
-----------------------------------------------------------------------------
RequestRuns(i) ==
  \/ (CommitBuild(i) \/ SendBuild(i)) /\ UNCHANGED <<reviews, assignment, jobs>>
  \/ (CommitRewrite(i) \/ OpenApprove(i) \/ CommitApprove(i) \/ CommitReject(i))
     /\ UNCHANGED <<building, assignment, jobs>>
  \/ CommitPublish(i) \/ CommitJob(i)

Next ==
  \/ \E i \in Ids :
       \/ BuildRequestStep(i) /\ UNCHANGED <<reviews, assignment, jobs>>
       \/ ReviewStep(i) /\ UNCHANGED <<building, assignment, jobs>>
       \/ \E v \in Versions \cup {NoVersion}, force \in BOOLEAN : OpenPublish(i, v, force)
       \/ CommitPublish(i)
       \/ OpenDispatch(i) \/ CommitJob(i)
       \/ \E v \in Versions : OpenCreate(i, v)
  \/ \E b \in Builders : BuilderStep(b) /\ UNCHANGED <<reviews, assignment, jobs>>

(***************************************************************************)
(* A request that was opened is answered, and worker processes take and    *)
(* finish messages.                                                        *)
(***************************************************************************)
Fairness ==
  /\ \A i \in Ids : WF_vars(RequestRuns(i))
  /\ \A b \in Builders :
       WF_vars((TakeBuild(b) \/ BuilderRuns(b)) /\ UNCHANGED <<requests, reviews, assignment, jobs>>)

Spec == Init /\ [][Next]_vars /\ Fairness
-----------------------------------------------------------------------------
\* Types of the rows, messages and requests of an assignment.
PublicationTypeOK ==
  /\ env \in [Versions -> VersionRows(resolves)]
  /\ queue \subseteq [id : Ids, version : Versions, force : BOOLEAN]
  /\ \A b \in Builders :
       builder[b].step \in {"free", "loaded", "begun", "resolving", "unacknowledged"}
  /\ faults \in 0 .. MaxFaults
  /\ overlapped \subseteq Versions /\ lost \subseteq Versions
  /\ artifact \in [Artifacts -> ArtifactRows]
  /\ reviewed \in [Artifacts -> SUBSET Contents]
  /\ contested \subseteq Artifacts
  /\ assignment \in AssignmentRows
  /\ \A i \in Ids : request[i].step \in {"awaited", "looked", "open", "committed", "over"}
  /\ \A j \in jobs : j.version \in Versions /\ j.tests \in Contents

(***************************************************************************)
(* The freeze a job is bound to is the freeze of its version for as long   *)
(* as no build of the version was asked for, or begun, after the job read  *)
(* it: an idle version stays ready, under the key the jobs carry, also     *)
(* where the assignment was published with a version that a build then     *)
(* took back.  The versions two builds of which overlapped are excepted:   *)
(* there a job can be bound to the key of the first build, or to no key.   *)
(* A job has no key either where its version was made ready without one    *)
(* and nobody has built it.                                                *)
(***************************************************************************)
JobIsFrozen ==
  \A j \in jobs :
    (j.version \notin overlapped /\ builds[j.version] = j.builds) =>
      /\ env[j.version] = [status |-> "ready", key |-> j.key]
      /\ j.builds > 0 => j.key # NoKey

(***************************************************************************)
(* A dispatched job that scores with test cases has tests, of a record     *)
(* that passed the coverage gate and that somebody reviewed, whatever was  *)
(* edited between publishing and dispatching (review and rewrite           *)
(* overlapping excepted).  The tests themselves passed the gate except     *)
(* where the record was made by hand so that dispatch takes others than    *)
(* approve reads.                                                          *)
(***************************************************************************)
JobTestsWereReviewed ==
  \A j \in jobs : j.counts =>
    /\ j.tests.given # "none" /\ j.tests.sound
    /\ "tests" \notin contested => j.tests \in reviewed["tests"]
=============================================================================
