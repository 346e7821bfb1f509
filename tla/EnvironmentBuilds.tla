-------------------------- MODULE EnvironmentBuilds --------------------------
(***************************************************************************)
(* Environment versions and the tasks that build them.  A request to build *)
(* marks the version and sends a message; a worker process marks it again, *)
(* resolves the freeze key, which may take half an hour, and commits the   *)
(* key with the status `ready', or the status `failed'.  The freeze key is *)
(* unique in the table.                                                    *)
(***************************************************************************)
EXTENDS Requests

CONSTANTS
  Versions,     \* the rows of code_eval_environment_versions
  Builders,     \* worker processes of the code_eval queue
  NoKey,        \* freeze_key is NULL
  MaxFaults     \* processes lost and commits failed, at most (a bound)

ASSUME BuildsAssumption == MaxFaults \in Nat

VARIABLES
  env,          \* per version: its row, status and freeze key
  resolves,     \* per version: the keys its specification can resolve to
  queue,        \* build messages not taken
  builder,      \* per worker process: its step, message and loaded row
  faults,       \* faults so far
  builds,       \* per version: how often a build was asked for or begun
  overlapped,   \* versions two builds of which were under way together
  lost          \* versions the end of a build of which nobody will record

building == <<env, resolves, queue, builder, faults, builds, overlapped, lost>>

\* The rows of versions that resolve to the keys of `keys'.
VersionRows(keys) == [status : {"draft", "building", "ready", "failed"},
                      key : {NoKey} \cup UNION {keys[v] : v \in Versions}]

FreeBuilder == [step |-> "free"]

Busy(v) == {b \in Builders : builder[b].step # "free" /\ builder[b].message.version = v}

\* A build of v that was asked for is on its way to an end.
UnderWay(v) ==
  InFlight({"build"}, v) # {} \/ (\E m \in queue : m.version = v) \/ Busy(v) # {}

\* (mutant) A forced build clears the key and leaves the status.
ClearedOnly(row, force) == [status |-> row.status, key |-> IF force THEN NoKey ELSE row.key]

\* Both the request and the task set these attributes.
Marked(row, force) == [status |-> "building", key |-> IF force THEN NoKey ELSE row.key]

Fault == faults < MaxFaults /\ faults' = faults + 1

EnvInit(rows, keys) ==
  /\ env = rows
  /\ resolves = keys
  /\ queue = {}
  /\ builder = [b \in Builders |-> FreeBuilder]
  /\ faults = 0
  /\ builds = [v \in Versions |-> 0]
  /\ overlapped = {}
  /\ lost = {}
-----------------------------------------------------------------------------
(* POST /environments/versions/{id}/build *)

OpenBuild(i, v, force) ==
  /\ Arrives(i, "build")
  /\ env[v].status # "building" \/ force
  /\ Moves(i, [step |-> "open", kind |-> "build", on |-> v, force |-> force, row |-> env[v]])
  /\ overlapped' = IF UnderWay(v) THEN overlapped \cup {v} ELSE overlapped
  /\ UNCHANGED <<env, resolves, queue, builder, faults, builds, lost>>

CommitBuild(i) ==
  /\ InStep(i, "build", "open")
  /\ LET r == request[i] IN
       /\ env' = [env EXCEPT ![r.on] = Flushed(r.row, Marked(r.row, r.force), @)]
       /\ builds' = [builds EXCEPT ![r.on] = @ + 1]
       /\ Moves(i, [r EXCEPT !.step = "committed"])
  /\ UNCHANGED <<resolves, queue, builder, faults, overlapped, lost>>

SendBuild(i) ==
  /\ InStep(i, "build", "committed")
  /\ queue' = queue \cup {[id |-> i, version |-> request[i].on, force |-> request[i].force]}
  /\ Moves(i, Over)
  /\ UNCHANGED <<env, resolves, builder, faults, builds, overlapped, lost>>

\* The API process ends, or the broker refuses, after the commit.
SendFails(i) ==
  /\ InStep(i, "build", "committed")
  /\ Fault
  /\ lost' = lost \cup {request[i].on}
  /\ Moves(i, Over)
  /\ UNCHANGED <<env, resolves, queue, builder, builds, overlapped>>
-----------------------------------------------------------------------------
(* run_code_eval_environment_build_task *)

BuilderTo(b, s) == builder' = [builder EXCEPT ![b] = s]

\* The task loads the row.
TakeBuild(b) ==
  /\ builder[b].step = "free"
  /\ \E m \in queue :
       /\ queue' = queue \ {m}
       /\ BuilderTo(b, [step |-> "loaded", message |-> m, row |-> env[m.version]])
  /\ UNCHANGED <<env, resolves, faults, builds, overlapped, lost>>

BeginBuild(b) ==
  /\ builder[b].step = "loaded"
  /\ LET m == builder[b].message  row == builder[b].row IN
       /\ env' = [env EXCEPT ![m.version] = Flushed(row, Marked(row, m.force), @)]
       /\ builds' = [builds EXCEPT ![m.version] = @ + 1]
       /\ BuilderTo(b, [builder[b] EXCEPT !.step = "begun"])
  /\ UNCHANGED <<resolves, queue, faults, overlapped, lost>>

\* The commit expired the attributes: resolving the key loads the row again.
ReloadRow(b) ==
  /\ builder[b].step = "begun"
  /\ BuilderTo(b, [builder[b] EXCEPT !.step = "resolving",
                                     !.row = env[builder[b].message.version]])
  /\ UNCHANGED <<env, resolves, queue, faults, builds, overlapped, lost>>

\* The unique constraint on freeze_key.
Admitted(rows) ==
  \A v, u \in Versions : v # u /\ rows[v].key = rows[u].key => rows[v].key = NoKey

(***************************************************************************)
(* Finding the key in another version (the dedup) changes only the log:    *)
(* the key is set all the same, and the constraint decides.                *)
(***************************************************************************)
FinishBuild(b) ==
  /\ builder[b].step = "resolving"
  /\ LET v == builder[b].message.version IN
       \E k \in resolves[v] :
         env' = [env EXCEPT ![v] =
                   Flushed(builder[b].row, [status |-> "ready", key |-> k], @)]
  /\ Admitted(env')
  /\ BuilderTo(b, [builder[b] EXCEPT !.step = "unacknowledged"])
  /\ UNCHANGED <<resolves, queue, faults, builds, overlapped, lost>>

\* Whatever raises after the row was asked for comes to the handler.
Running(b) == builder[b].step \in {"loaded", "begun", "resolving"}

\* (mutant) The handler rolls back and logs.
FailQuietly(b) ==
  /\ Running(b)
  /\ BuilderTo(b, [builder[b] EXCEPT !.step = "unacknowledged"])
  /\ UNCHANGED <<env, resolves, queue, faults, builds, overlapped, lost>>

\* (mutant) The handler writes a status the column does not have.
FailUnknown(b) ==
  /\ Running(b)
  /\ env' = [env EXCEPT ![builder[b].message.version].status = "error"]
  /\ BuilderTo(b, [builder[b] EXCEPT !.step = "unacknowledged"])
  /\ UNCHANGED <<resolves, queue, faults, builds, overlapped, lost>>

\* Resolving raises, or a commit or a load does; the handler loads the row anew.
FailBuild(b) ==
  /\ Running(b)
  /\ LET v == builder[b].message.version IN
       /\ env' = [env EXCEPT ![v].status = "failed"]
       /\ builds' = IF builder[b].step = "loaded" THEN [builds EXCEPT ![v] = @ + 1] ELSE builds
  /\ BuilderTo(b, [builder[b] EXCEPT !.step = "unacknowledged"])
  /\ UNCHANGED <<resolves, queue, faults, overlapped, lost>>

\* The commit of the failure fails as well and is only logged.
FailureUnsaved(b) ==
  /\ Running(b)
  /\ Fault
  /\ lost' = lost \cup {builder[b].message.version}
  /\ BuilderTo(b, [builder[b] EXCEPT !.step = "unacknowledged"])
  /\ UNCHANGED <<env, resolves, queue, builds, overlapped>>

Acknowledge(b) ==
  /\ builder[b].step = "unacknowledged"
  /\ BuilderTo(b, FreeBuilder)
  /\ UNCHANGED <<env, resolves, queue, faults, builds, overlapped, lost>>

\* task_acks_late: the message of a worker that goes down is handed out again.
BuilderDown(b) ==
  /\ builder[b].step # "free"
  /\ Fault
  /\ queue' = queue \cup {builder[b].message}
  /\ BuilderTo(b, FreeBuilder)
  /\ UNCHANGED <<env, resolves, builds, overlapped, lost>>

BuilderRuns(b) ==
  \/ BeginBuild(b) \/ ReloadRow(b) \/ FinishBuild(b) \/ FailBuild(b) \/ Acknowledge(b)

BuilderStep(b) ==
  /\ TakeBuild(b) \/ BuilderRuns(b) \/ FailureUnsaved(b) \/ BuilderDown(b)
  /\ UNCHANGED requests

BuildRequestStep(i) ==
  \/ \E v \in Versions, force \in BOOLEAN : OpenBuild(i, v, force)
  \/ CommitBuild(i) \/ SendBuild(i) \/ SendFails(i)
-----------------------------------------------------------------------------
(***************************************************************************)
(* A version that is `ready' after a build has a freeze key, for dispatch  *)
(* takes the key of any version that is ready.  Excepted are the versions  *)
(* two builds of which were under way together, when a forced request can  *)
(* clear the key after the other build has read it and before that build   *)
(* commits; and those nobody has built since the behaviour began, which    *)
(* may have been made `ready' without a key (POST /environments/versions). *)
(***************************************************************************)
ReadyHasKey ==
  \A v \in Versions \ overlapped :
    env[v].status = "ready" /\ builds[v] > 0 => env[v].key # NoKey

(***************************************************************************)
(* A version does not stay in `building': the build ends ready or failed,  *)
(* whatever overlaps with it, also when another version has its freeze key *)
(* first and the unique constraint refuses it, and whichever worker goes   *)
(* down, unless the message or the record of the failure was lost.         *)
(***************************************************************************)
BuildsEnd ==
  \A v \in Versions : (env[v].status = "building" /\ v \notin lost) ~>
                        (env[v].status # "building" \/ v \in lost)
=============================================================================
