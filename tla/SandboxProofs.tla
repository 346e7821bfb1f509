--------------------------- MODULE SandboxProofs ---------------------------
(***************************************************************************)
(* What Sandbox promises for any number of workers, kills and faults.  The *)
(* lock file alone does not say who uses the microVM: the invariant ties   *)
(* together the file, the descriptor of the worker that made it, the point *)
(* that worker has reached, its Firecracker process, and the process that  *)
(* a killed worker leaves behind.                                          *)
(***************************************************************************)
EXTENDS Sandbox, TLAPS

\* Only the maker of the lock file has its descriptor, and only one at a time.
HolderHasFile ==
  /\ \A w \in Workers : holds[w] => lockFile
  /\ \A v, w \in Workers : holds[v] /\ holds[w] => v = w

\* A worker that is past the lock and not yet through holds it; one before it does not.
StepNeedsLock ==
  \A w \in Workers :
    /\ step[w] \in {"launch", "load", "connect", "exchange"} => holds[w]
    /\ step[w] \in {"out", "lock", "wait"} => ~holds[w]

\* A Firecracker process belongs to a holder that has yet to end it.
VMIsHeld ==
  \A w \in vm : holds[w] /\ step[w] \in {"load", "connect", "exchange", "close"}

\* The process of a killed worker is the only one, behind a lock file nobody holds.
OrphanIsLockedIn ==
  /\ orphans # {} => StaleLock
  /\ \A v, w \in orphans : v = w

\* A process that belongs to nobody was left by a kill, a file also by a fault.
LeftByKill ==
  /\ orphans # {} => kills > 0
  /\ StaleLock => kills > 0 \/ faults > 0

IndInv ==
  /\ SandboxTypeOK
  /\ HolderHasFile
  /\ StepNeedsLock
  /\ VMIsHeld
  /\ OrphanIsLockedIn
  /\ LeftByKill

-----------------------------------------------------------------------------
\* The invariant holds at the start: nobody is inside and there is no file.
LEMMA InitIndInv == SandboxInit => IndInv
<1>1. SUFFICES ASSUME SandboxInit PROVE IndInv
  OBVIOUS
<1>2. SandboxTypeOK
  <2>1. kills \in 0 .. MaxKills /\ faults \in 0 .. MaxFaults /\ step \in [Workers -> Steps]
    BY <1>1, SandboxAssumption DEF SandboxInit, Steps
  <2>2. holds \in [Workers -> BOOLEAN] /\ answered \in [Workers -> BOOLEAN]
    BY <1>1, Zenon DEF SandboxInit
  <2>3. QED
    BY <1>1, <2>1, <2>2 DEF SandboxInit, SandboxTypeOK
<1>3. HolderHasFile /\ StepNeedsLock /\ VMIsHeld
  BY <1>1 DEF SandboxInit, HolderHasFile, StepNeedsLock, VMIsHeld
<1>4. OrphanIsLockedIn /\ LeftByKill
  BY <1>1 DEF SandboxInit, OrphanIsLockedIn, LeftByKill, StaleLock
<1>5. QED
  BY <1>2, <1>3, <1>4 DEF IndInv

\* The rows of step, holds and answered keep their types when one entry is set.
LEMMA TypeStep ==
  ASSUME SandboxTypeOK, SandboxNext PROVE SandboxTypeOK'
<1>1. ASSUME NEW w \in Workers, Enter(w) \/ SandboxStep(w) PROVE SandboxTypeOK'
  <2>1. CASE LoseLock(w)
    BY <2>1, SandboxAssumption DEF SandboxTypeOK, Steps, LoseLock, GoTo
  <2>2. CASE ReleaseLock(w)
    <3>1. lockFile' \in BOOLEAN /\ faults' \in 0 .. MaxFaults
      <4>1. CASE lockFile' = (lockFile /\ ~holds[w]) /\ faults' = faults
        BY <4>1 DEF SandboxTypeOK
      <4>2. CASE lockFile' = lockFile /\ faults < MaxFaults /\ faults' = faults + 1
        BY <4>2, SandboxAssumption DEF SandboxTypeOK
      <4>3. QED
        BY <2>2, <4>1, <4>2 DEF ReleaseLock
    <3>2. QED
      BY <2>2, <3>1 DEF SandboxTypeOK, Steps, ReleaseLock, GoTo
  <2>3. CASE Enter(w) \/ AcquireLock(w) \/ FindLocked(w) \/ LockTimesOut(w) \/ Launch(w)
               \/ LoadSnapshot(w) \/ Connect(w) \/ Answer(w) \/ Fail(w) \/ Terminate(w)
    BY <2>3 DEF SandboxTypeOK, Steps, Enter, GoTo, AcquireLock, FindLocked, LockTimesOut,
         Launch, LoadSnapshot, Connect, Answer, Fail, Terminate
  <2>4. QED
    BY <1>1, <2>1, <2>2, <2>3 DEF SandboxStep
<1>2. ASSUME NEW w \in Workers, KillWorker(w) PROVE SandboxTypeOK'
  BY <1>2, SandboxAssumption DEF SandboxTypeOK, Steps, KillWorker, GoTo
<1>3. ASSUME KillContainer PROVE SandboxTypeOK'
  BY <1>3, SandboxAssumption DEF SandboxTypeOK, Steps, KillContainer
<1>4. QED
  BY <1>1, <1>2, <1>3 DEF SandboxNext

\* A worker that moves on without touching lock, processes or kills.
LEMMA MoveKeeps ==
  ASSUME IndInv, NEW w \in Workers,
         Enter(w) \/ FindLocked(w) \/ LockTimesOut(w) \/ LoadSnapshot(w) \/ Connect(w)
           \/ Answer(w) \/ Fail(w),
         SandboxTypeOK'
  PROVE  IndInv'
<1>1. UNCHANGED <<holds, lockFile, vm, orphans, kills, faults>>
  BY DEF Enter, FindLocked, LockTimesOut, LoadSnapshot, Connect, Answer, Fail
<1>2. HolderHasFile' /\ OrphanIsLockedIn' /\ LeftByKill'
  BY <1>1 DEF IndInv, HolderHasFile, OrphanIsLockedIn, LeftByKill, StaleLock
<1>3. StepNeedsLock'
  BY <1>1 DEF IndInv, SandboxTypeOK, StepNeedsLock, GoTo, Enter, FindLocked, LockTimesOut,
       LoadSnapshot, Connect, Answer, Fail
<1>4. VMIsHeld'
  BY <1>1 DEF IndInv, SandboxTypeOK, StepNeedsLock, VMIsHeld, GoTo, Enter, FindLocked,
       LockTimesOut, LoadSnapshot, Connect, Answer, Fail
<1>5. QED
  BY <1>2, <1>3, <1>4 DEF IndInv

\* A lock is taken only when there is no file, so there is no holder, process or orphan.
LEMMA AcquireKeeps ==
  ASSUME IndInv, NEW w \in Workers, AcquireLock(w), SandboxTypeOK'
  PROVE  IndInv'
<1>1. /\ ~lockFile /\ \A v \in Workers : ~holds[v]
      /\ vm = {} /\ orphans = {}
  BY DEF IndInv, SandboxTypeOK, HolderHasFile, VMIsHeld, OrphanIsLockedIn, StaleLock,
         AcquireLock
<1>2. /\ lockFile' /\ vm' = {} /\ orphans' = {}
      /\ holds' = [holds EXCEPT ![w] = TRUE]
      /\ step' = [step EXCEPT ![w] = "launch"]
  BY <1>1 DEF AcquireLock, GoTo
<1>3. holds'[w] /\ \A v \in Workers : v # w => holds'[v] = holds[v] /\ step'[v] = step[v]
  BY <1>2 DEF IndInv, SandboxTypeOK
<1>4. HolderHasFile' /\ VMIsHeld'
  BY <1>1, <1>2, <1>3 DEF HolderHasFile, VMIsHeld
<1>5. StepNeedsLock'
  BY <1>2, <1>3 DEF IndInv, SandboxTypeOK, StepNeedsLock
<1>6. OrphanIsLockedIn' /\ LeftByKill'
  BY <1>2, <1>3 DEF OrphanIsLockedIn, LeftByKill, StaleLock
<1>7. QED
  BY <1>4, <1>5, <1>6 DEF IndInv

\* A file that is lost at once has no holder, and there is no process.
LEMMA LoseKeeps ==
  ASSUME IndInv, NEW w \in Workers, LoseLock(w), SandboxTypeOK'
  PROVE  IndInv'
<1>1. /\ ~lockFile /\ \A v \in Workers : ~holds[v]
      /\ vm = {} /\ orphans = {}
  BY DEF IndInv, SandboxTypeOK, HolderHasFile, VMIsHeld, OrphanIsLockedIn, StaleLock, LoseLock
<1>2. /\ lockFile' /\ vm' = {} /\ orphans' = {} /\ holds' = holds /\ faults' = faults + 1
      /\ step' = [step EXCEPT ![w] = "close"]
  BY <1>1 DEF LoseLock, GoTo
<1>3. HolderHasFile' /\ VMIsHeld' /\ OrphanIsLockedIn'
  BY <1>1, <1>2 DEF HolderHasFile, VMIsHeld, OrphanIsLockedIn
<1>4. StepNeedsLock'
  BY <1>2 DEF IndInv, SandboxTypeOK, StepNeedsLock
<1>5. LeftByKill'
  BY <1>2 DEF IndInv, SandboxTypeOK, LeftByKill
<1>6. QED
  BY <1>3, <1>4, <1>5 DEF IndInv

\* Only a holder starts a VM, and it has none yet.
LEMMA LaunchKeeps ==
  ASSUME IndInv, NEW w \in Workers, Launch(w), SandboxTypeOK'
  PROVE  IndInv'
<1>1. /\ UNCHANGED <<holds, lockFile, orphans, kills, faults>>
      /\ vm' = vm \cup {w} /\ step[w] = "launch" /\ holds[w]
      /\ step' = [step EXCEPT ![w] = "load"]
  BY DEF Launch, GoTo, IndInv, StepNeedsLock
<1>2. HolderHasFile' /\ OrphanIsLockedIn' /\ LeftByKill'
  BY <1>1 DEF IndInv, HolderHasFile, OrphanIsLockedIn, LeftByKill, StaleLock
<1>3. StepNeedsLock' /\ VMIsHeld'
  BY <1>1 DEF IndInv, SandboxTypeOK, StepNeedsLock, VMIsHeld
<1>4. QED
  BY <1>2, <1>3 DEF IndInv

\* The VM goes before the lock.
LEMMA TerminateKeeps ==
  ASSUME IndInv, NEW w \in Workers, Terminate(w), SandboxTypeOK'
  PROVE  IndInv'
<1>1. /\ UNCHANGED <<holds, lockFile, orphans, kills, faults>>
      /\ vm' = vm \ {w} /\ step' = [step EXCEPT ![w] = "release"]
  BY DEF Terminate, GoTo
<1>2. HolderHasFile' /\ OrphanIsLockedIn' /\ LeftByKill'
  BY <1>1 DEF IndInv, HolderHasFile, OrphanIsLockedIn, LeftByKill, StaleLock
<1>3. StepNeedsLock' /\ VMIsHeld'
  BY <1>1 DEF IndInv, SandboxTypeOK, StepNeedsLock, VMIsHeld
<1>4. QED
  BY <1>2, <1>3 DEF IndInv

\* A holder that releases has no VM any more, whether or not the file goes; who holds
\* nothing removes nothing.
LEMMA ReleaseKeeps ==
  ASSUME IndInv, NEW w \in Workers, ReleaseLock(w), SandboxTypeOK'
  PROVE  IndInv'
<1>1. /\ UNCHANGED <<vm, orphans, kills>>
      /\ step[w] = "release" /\ step' = [step EXCEPT ![w] = "out"]
      /\ holds' = [holds EXCEPT ![w] = FALSE]
      /\ \/ lockFile' = (lockFile /\ ~holds[w]) /\ faults' = faults
         \/ holds[w] /\ lockFile' = lockFile /\ faults' = faults + 1
  BY DEF ReleaseLock, GoTo
<1>2. ~holds'[w] /\ \A v \in Workers : v # w => holds'[v] = holds[v] /\ step'[v] = step[v]
  BY <1>1 DEF IndInv, SandboxTypeOK
<1>3. HolderHasFile'
  BY <1>1, <1>2 DEF IndInv, HolderHasFile
<1>4. StepNeedsLock'
  BY <1>1, <1>2 DEF IndInv, SandboxTypeOK, StepNeedsLock
<1>5. VMIsHeld'
  BY <1>1, <1>2 DEF IndInv, SandboxTypeOK, VMIsHeld
<1>6. ASSUME holds[w] PROVE OrphanIsLockedIn' /\ LeftByKill'
  <2>1. ~StaleLock /\ orphans = {}
    BY <1>6 DEF IndInv, StaleLock, OrphanIsLockedIn
  <2>2. StaleLock' => faults' > 0
    <3>1. faults \in Nat
      BY SandboxAssumption DEF IndInv, SandboxTypeOK
    <3>2. CASE lockFile' = (lockFile /\ ~holds[w])
      BY <1>6, <3>2 DEF StaleLock
    <3>3. CASE faults' = faults + 1
      BY <3>1, <3>3
    <3>4. QED
      BY <1>1, <3>2, <3>3
  <2>3. QED
    BY <1>1, <2>1, <2>2 DEF OrphanIsLockedIn, LeftByKill
<1>7. ASSUME ~holds[w] PROVE OrphanIsLockedIn' /\ LeftByKill'
  <2>1. StaleLock' <=> StaleLock
    BY <1>1, <1>2, <1>7 DEF StaleLock
  <2>2. QED
    BY <1>1, <1>7, <2>1 DEF IndInv, OrphanIsLockedIn, LeftByKill
<1>8. QED
  BY <1>3, <1>4, <1>5, <1>6, <1>7 DEF IndInv

\* A kill of the holder leaves the file, and the VM if it was running: at most one,
\* since there are no orphans while the lock is held.
LEMMA KillKeeps ==
  ASSUME IndInv, NEW w \in Workers, KillWorker(w), SandboxTypeOK'
  PROVE  IndInv'
<1>1. /\ UNCHANGED <<lockFile, faults>> /\ kills' = kills + 1
      /\ step' = [step EXCEPT ![w] = "out"] /\ holds' = [holds EXCEPT ![w] = FALSE]
      /\ vm' = vm \ {w} /\ orphans' = orphans \cup (vm \cap {w})
  BY DEF KillWorker, GoTo
<1>2. ~holds'[w] /\ \A v \in Workers : v # w => holds'[v] = holds[v] /\ step'[v] = step[v]
  BY <1>1 DEF IndInv, SandboxTypeOK
<1>3. HolderHasFile'
  BY <1>1, <1>2 DEF IndInv, HolderHasFile
<1>4. StepNeedsLock'
  BY <1>1, <1>2 DEF IndInv, SandboxTypeOK, StepNeedsLock
<1>5. VMIsHeld'
  BY <1>1, <1>2 DEF IndInv, SandboxTypeOK, VMIsHeld
<1>6. ASSUME StaleLock PROVE StaleLock'
  BY <1>1, <1>2, <1>6 DEF StaleLock
<1>7. ASSUME w \in vm PROVE StaleLock' /\ orphans = {}
  <2>1. holds[w] /\ lockFile /\ \A v \in Workers : v # w => ~holds[v]
    BY <1>7 DEF IndInv, VMIsHeld, HolderHasFile
  <2>2. QED
    BY <1>1, <1>2, <2>1 DEF IndInv, OrphanIsLockedIn, StaleLock
<1>8. OrphanIsLockedIn'
  BY <1>1, <1>6, <1>7 DEF IndInv, OrphanIsLockedIn
<1>9. LeftByKill'
  BY <1>1 DEF IndInv, SandboxTypeOK, LeftByKill
<1>10. QED
  BY <1>3, <1>4, <1>5, <1>8, <1>9 DEF IndInv

\* A restart of the container ends every process and leaves at most the file.
LEMMA RestartKeeps ==
  ASSUME IndInv, KillContainer, SandboxTypeOK'
  PROVE  IndInv'
<1>1. HolderHasFile' /\ StepNeedsLock' /\ VMIsHeld' /\ OrphanIsLockedIn'
  BY DEF KillContainer, HolderHasFile, StepNeedsLock, VMIsHeld, OrphanIsLockedIn
<1>2. LeftByKill'
  BY DEF IndInv, SandboxTypeOK, KillContainer, LeftByKill
<1>3. QED
  BY <1>1, <1>2 DEF IndInv

-----------------------------------------------------------------------------
\* Every step keeps the invariant, one case per action.
LEMMA NextIndInv ==
  ASSUME IndInv, [SandboxNext]_sandbox PROVE IndInv'
<1>1. CASE SandboxNext
  <2>1. SandboxTypeOK'
    BY <1>1, TypeStep DEF IndInv
  <2>2. ASSUME NEW w \in Workers, Enter(w) \/ SandboxStep(w) PROVE IndInv'
    BY <2>1, <2>2, MoveKeeps, AcquireKeeps, LoseKeeps, LaunchKeeps, TerminateKeeps, ReleaseKeeps
       DEF SandboxStep
  <2>3. ASSUME NEW w \in Workers, KillWorker(w) PROVE IndInv'
    BY <2>1, <2>3, KillKeeps
  <2>4. QED
    BY <1>1, <2>1, <2>2, <2>3, RestartKeeps DEF SandboxNext
<1>2. CASE UNCHANGED sandbox
  BY <1>2 DEF sandbox, IndInv, SandboxTypeOK, HolderHasFile, StepNeedsLock, VMIsHeld,
       OrphanIsLockedIn, LeftByKill, StaleLock
<1>3. QED
  BY <1>1, <1>2

\* The invariant holds throughout: the ground of the theorems below.
THEOREM SandboxInvariant == SandboxSpec => []IndInv
BY InitIndInv, NextIndInv, PTL DEF SandboxSpec

\* Type correctness, for every set of workers and every bound of kills and faults.
THEOREM SandboxTypes == SandboxSpec => []SandboxTypeOK
<1>1. IndInv => SandboxTypeOK
  BY DEF IndInv
<1>2. QED
  BY <1>1, SandboxInvariant, PTL

\* At most one Firecracker process is alive on a host, however many workers contend
\* for it and are killed: _acquire_serial_lock with the finally of
\* execute_firecracker_vsock_backend.
THEOREM OneVMAtATime == SandboxSpec => []OneVM
<1>1. IndInv => OneVM
  BY DEF IndInv, OneVM, SandboxTypeOK, VMIsHeld, HolderHasFile, OrphanIsLockedIn, StaleLock
<1>2. QED
  BY <1>1, SandboxInvariant, PTL

\* A run that was not killed leaves no VM, and no lock file unless the file system fails.
THEOREM NothingIsLeft == SandboxSpec => []NothingLeft
<1>1. IndInv => NothingLeft
  BY DEF IndInv, NothingLeft, VMIsHeld, LeftByKill
<1>2. QED
  BY <1>1, SandboxInvariant, PTL

\* A lock without a holder is never taken again, and no VM is started: whatever
\* the workers do, they end with the lock timeout (_acquire_serial_lock 25-35).
THEOREM StaleLockStays == SandboxSpec => StaleLockIsForever
<1>1. ASSUME IndInv, [SandboxNext]_sandbox, StaleLock
      PROVE  StaleLock' /\ vm' \subseteq vm
  <2>1. lockFile /\ \A w \in Workers : ~holds[w]
    BY <1>1 DEF StaleLock
  <2>2. \A w \in Workers : ~AcquireLock(w) /\ ~LoseLock(w) /\ ~Launch(w)
    BY <1>1, <2>1 DEF IndInv, StepNeedsLock, AcquireLock, LoseLock, Launch
  <2>3. ASSUME NEW w \in Workers, Enter(w) \/ FindLocked(w) \/ LockTimesOut(w)
                 \/ LoadSnapshot(w) \/ Connect(w) \/ Answer(w) \/ Fail(w) \/ Terminate(w)
        PROVE  StaleLock' /\ vm' \subseteq vm
    BY <2>1, <2>3 DEF StaleLock, Enter, FindLocked, LockTimesOut, LoadSnapshot, Connect,
         Answer, Fail, Terminate
  <2>4. ASSUME NEW w \in Workers, ReleaseLock(w) \/ KillWorker(w)
        PROVE  StaleLock' /\ vm' \subseteq vm
    BY <1>1, <2>1, <2>4 DEF StaleLock, ReleaseLock, KillWorker, IndInv, SandboxTypeOK
  <2>5. CASE KillContainer
    BY <2>1, <2>5 DEF StaleLock, KillContainer
  <2>6. CASE UNCHANGED sandbox
    BY <2>1, <2>6 DEF StaleLock, sandbox
  <2>7. QED
    BY <1>1, <2>2, <2>3, <2>4, <2>5, <2>6 DEF SandboxNext, SandboxStep
<1>2. [](IndInv) /\ [][SandboxNext]_sandbox => [][StaleLock => StaleLock' /\ vm' \subseteq vm]_sandbox
  BY <1>1, PTL
<1>3. QED
  BY <1>2, SandboxInvariant, PTL DEF SandboxSpec, StaleLockIsForever
=============================================================================
