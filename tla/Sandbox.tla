------------------------------- MODULE Sandbox -------------------------------
(***************************************************************************)
(* One Firecracker microVM at a time on a host:                            *)
(* code_eval/firecracker_runtime.py.  A worker process takes a lock file,  *)
(* starts a VM from a snapshot, exchanges one request with the agent in the*)
(* guest, kills the VM and removes the file.  The file is all the lock     *)
(* there is: nobody looks at the process id in it.                         *)
(*                                                                         *)
(* Time is not counted.  Every wait has a deadline, so wherever a worker   *)
(* waits it may also give up.  A worker process can be killed anywhere;    *)
(* its VM is a process of its own and goes on.  A restart of the host's    *)
(* container ends all processes and keeps the file.  The file system can   *)
(* fail when the file is written, after it was made, and when it is removed.*)
(***************************************************************************)
EXTENDS Naturals, FiniteSets

CONSTANTS
  Workers,     \* Celery worker processes of code_eval_queue on the host
  MaxKills,    \* bound: how many times a process or the container is killed
  MaxFaults    \* bound: how many times the file system fails

ASSUME SandboxAssumption == MaxKills \in Nat /\ MaxFaults \in Nat

VARIABLES
  step,        \* per worker: where it is in execute_firecracker_vsock_backend
  holds,       \* per worker: it has the file descriptor of the lock file
  lockFile,    \* the lock file exists
  vm,          \* workers whose Firecracker process runs
  orphans,     \* workers that were killed and left a Firecracker process
  answered,    \* per worker: the guest agent's answer has arrived
  kills,       \* kills so far
  faults       \* failures of the file system so far

sandbox == <<step, holds, lockFile, vm, orphans, answered, kills, faults>>

Steps == {"out", "lock", "wait", "launch", "load", "connect", "exchange", "close", "release"}

SandboxTypeOK ==
  /\ step \in [Workers -> Steps]
  /\ holds \in [Workers -> BOOLEAN]
  /\ lockFile \in BOOLEAN
  /\ vm \subseteq Workers
  /\ orphans \subseteq Workers
  /\ answered \in [Workers -> BOOLEAN]
  /\ kills \in 0 .. MaxKills
  /\ faults \in 0 .. MaxFaults

SandboxInit ==
  /\ step = [w \in Workers |-> "out"]
  /\ holds = [w \in Workers |-> FALSE]
  /\ lockFile = FALSE
  /\ vm = {}
  /\ orphans = {}
  /\ answered = [w \in Workers |-> FALSE]
  /\ kills = 0
  /\ faults = 0

-----------------------------------------------------------------------------
GoTo(w, s) == step' = [step EXCEPT ![w] = s]

\* The checks before the lock have passed (binary, snapshot, checksums, network, kvm).
Enter(w) ==
  /\ step[w] = "out"
  /\ GoTo(w, "lock")
  /\ answered' = [answered EXCEPT ![w] = FALSE]
  /\ UNCHANGED <<holds, lockFile, vm, orphans, kills, faults>>

\* A lock whose holder is gone is taken over, with no thought of the holder's VM.
TakeOver(w) ==
  /\ step[w] \in {"lock", "wait"}
  /\ lockFile => \A v \in Workers : ~holds[v]
  /\ lockFile' = TRUE
  /\ holds' = [holds EXCEPT ![w] = TRUE]
  /\ GoTo(w, "launch")
  /\ UNCHANGED <<vm, orphans, answered, kills, faults>>

\* O_CREAT | O_EXCL: the file is made only if it is not there.
AcquireLock(w) ==
  /\ step[w] \in {"lock", "wait"}
  /\ ~lockFile
  /\ lockFile' = TRUE
  /\ holds' = [holds EXCEPT ![w] = TRUE]
  /\ GoTo(w, "launch")
  /\ UNCHANGED <<vm, orphans, answered, kills, faults>>

\* The file is made, its content cannot be written, and nobody remembers that it is ours.
LoseLock(w) ==
  /\ step[w] \in {"lock", "wait"}
  /\ ~lockFile
  /\ faults < MaxFaults
  /\ faults' = faults + 1
  /\ lockFile' = TRUE
  /\ GoTo(w, "close")
  /\ UNCHANGED <<holds, vm, orphans, answered, kills>>

FindLocked(w) ==
  /\ step[w] = "lock"
  /\ lockFile
  /\ GoTo(w, "wait")
  /\ UNCHANGED <<holds, lockFile, vm, orphans, answered, kills, faults>>

\* The deadline passes after a try that found the file.
LockTimesOut(w) ==
  /\ step[w] = "wait"
  /\ GoTo(w, "close")
  /\ UNCHANGED <<holds, lockFile, vm, orphans, answered, kills, faults>>

Launch(w) ==
  /\ step[w] = "launch"
  /\ vm' = vm \cup {w}
  /\ GoTo(w, "load")
  /\ UNCHANGED <<holds, lockFile, orphans, answered, kills, faults>>

\* The snapshot is loaded with its own vsock path or, by a Firecracker that does not
\* know vsock_override, with the one all VMs share.
LoadSnapshot(w) ==
  /\ step[w] = "load"
  /\ GoTo(w, "connect")
  /\ UNCHANGED <<holds, lockFile, vm, orphans, answered, kills, faults>>

Connect(w) ==
  /\ step[w] = "connect"
  /\ GoTo(w, "exchange")
  /\ UNCHANGED <<holds, lockFile, vm, orphans, answered, kills, faults>>

Answer(w) ==
  /\ step[w] = "exchange"
  /\ answered' = [answered EXCEPT ![w] = TRUE]
  /\ GoTo(w, "close")
  /\ UNCHANGED <<holds, lockFile, vm, orphans, kills, faults>>

\* A timeout, a refused snapshot, a closed stream: the agent listens anew every few
\* seconds and drops who is waiting then.
Fail(w) ==
  /\ step[w] \in {"launch", "load", "connect", "exchange"}
  /\ GoTo(w, "close")
  /\ UNCHANGED <<holds, lockFile, vm, orphans, answered, kills, faults>>

\* The VM is ended after an answer only.
TerminateAnswered(w) ==
  /\ step[w] = "close"
  /\ vm' = IF answered[w] THEN vm \ {w} ELSE vm
  /\ GoTo(w, "release")
  /\ UNCHANGED <<holds, lockFile, orphans, answered, kills, faults>>

\* finally: first the VM, then the lock, which only its holder removes.
Terminate(w) ==
  /\ step[w] = "close"
  /\ vm' = vm \ {w}
  /\ GoTo(w, "release")
  /\ UNCHANGED <<holds, lockFile, orphans, answered, kills, faults>>

\* The file is removed by whoever returns, holder or not.
ReleaseAnyLock(w) ==
  /\ step[w] = "release"
  /\ lockFile' = FALSE
  /\ holds' = [holds EXCEPT ![w] = FALSE]
  /\ GoTo(w, "out")
  /\ UNCHANGED <<vm, orphans, answered, kills, faults>>

\* A file that cannot be removed stays, and nobody hears of it.
ReleaseLock(w) ==
  /\ step[w] = "release"
  /\ \/ lockFile' = (lockFile /\ ~holds[w]) /\ UNCHANGED faults
     \/ holds[w] /\ faults < MaxFaults /\ faults' = faults + 1 /\ UNCHANGED lockFile
  /\ holds' = [holds EXCEPT ![w] = FALSE]
  /\ GoTo(w, "out")
  /\ UNCHANGED <<vm, orphans, answered, kills>>

\* SIGKILL of a worker process: no finally.
KillWorker(w) ==
  /\ step[w] # "out"
  /\ kills < MaxKills
  /\ kills' = kills + 1
  /\ GoTo(w, "out")
  /\ holds' = [holds EXCEPT ![w] = FALSE]
  /\ vm' = vm \ {w}
  /\ orphans' = orphans \cup (vm \cap {w})
  /\ answered' = [answered EXCEPT ![w] = FALSE]
  /\ UNCHANGED <<lockFile, faults>>

KillContainer ==
  /\ \E w \in Workers : step[w] # "out"
  /\ kills < MaxKills
  /\ kills' = kills + 1
  /\ step' = [w \in Workers |-> "out"]
  /\ holds' = [w \in Workers |-> FALSE]
  /\ vm' = {}
  /\ orphans' = {}
  /\ answered' = [w \in Workers |-> FALSE]
  /\ UNCHANGED <<lockFile, faults>>

SandboxStep(w) ==
  \/ AcquireLock(w) \/ LoseLock(w) \/ FindLocked(w) \/ LockTimesOut(w)
  \/ Launch(w) \/ LoadSnapshot(w) \/ Connect(w) \/ Answer(w) \/ Fail(w)
  \/ Terminate(w) \/ ReleaseLock(w)

SandboxNext ==
  \/ \E w \in Workers : Enter(w) \/ SandboxStep(w) \/ KillWorker(w)
  \/ KillContainer

\* A worker process that is not killed goes on; none is owed the lock.
SandboxSpec ==
  SandboxInit /\ [][SandboxNext]_sandbox /\ \A w \in Workers : WF_sandbox(SandboxStep(w))

-----------------------------------------------------------------------------
\* At most one Firecracker process is alive on the host, those of killed workers
\* included: they share the snapshot, the guest address and, in fallback mode, the
\* vsock path (_acquire_serial_lock, finally of execute_firecracker_vsock_backend).
OneVM ==
  /\ vm \cap orphans = {}
  /\ \A v, w \in vm \cup orphans : v = w

\* A killed holder leaves the file behind, and so does a fault of the file system.
StaleLock == lockFile /\ \A w \in Workers : ~holds[w]

\* What a run started it also ends: a VM that belongs to no run in progress was left by
\* a kill, a lock file by a kill or a failing file system (finally, lines 717-743).
NothingLeft ==
  /\ \A w \in vm : holds[w] /\ step[w] \in {"load", "connect", "exchange", "close"}
  /\ orphans # {} => kills > 0
  /\ StaleLock => kills > 0 \/ faults > 0

\* Once the file has no holder no run ever gets the lock again: the file stays, for no
\* one checks whether its owner lives (_acquire_serial_lock 25-35).
StaleLockIsForever == [][StaleLock => StaleLock' /\ vm' \subseteq vm]_sandbox

=============================================================================
