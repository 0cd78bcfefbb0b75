-------------------------- MODULE EngineServiceProofs --------------------------
(***************************************************************************)
(* The single-engine guarantee for every set of processes.  The engines    *)
(* use the lock as SingleWriterLock specifies it, so the lock's theorems   *)
(* apply to them; the rest of the argument is that an engine past          *)
(* lock.acquire() holds the lock until its lifespan has ended.             *)
(***************************************************************************)
EXTENDS EngineService, TLAPS

LockP == INSTANCE SingleWriterLockProofs

(* The lock actions an engine takes are the ones the lock's proofs are about. *)
LEMMA LockActions ==
    ASSUME NEW p \in Process,
           Lock!Acquire(p) \/ Lock!Release(p) \/ Lock!Start(p) \/ Lock!Die(p)
    PROVE  LockP!Next
<1>1. CASE Lock!Acquire(p)
  BY <1>1 DEF Lock!Acquire, Lock!Open, Lock!FlockGranted, Lock!Truncate, Lock!WritePid,
              Lock!Acquired, Lock!FlockRefused, Lock!AcquireRaises, Lock!StampRaises,
              Lock!CloseAndRaise, Lock!Contended, Lock!Created, Lock!AfterClose, Lock!Goto,
              Lock!vars,
              LockP!Acquire, LockP!Open, LockP!FlockGranted, LockP!Truncate, LockP!WritePid,
              LockP!Acquired, LockP!FlockRefused, LockP!AcquireRaises, LockP!StampRaises,
              LockP!CloseAndRaise, LockP!Contended, LockP!Created, LockP!AfterClose,
              LockP!Goto, LockP!vars, LockP!Next
<1>2. CASE Lock!Release(p) \/ Lock!Start(p) \/ Lock!Die(p)
  BY <1>2 DEF Lock!Release, Lock!Unlock, Lock!Close, Lock!UnlockRaises, Lock!CloseRaises,
              Lock!Start, Lock!Die, Lock!Goto, Lock!AfterClose, Lock!vars,
              LockP!Release, LockP!Unlock, LockP!Close, LockP!UnlockRaises,
              LockP!CloseRaises, LockP!Start, LockP!Die, LockP!AfterClose, LockP!Goto,
              LockP!vars, LockP!Next
<1> QED
  BY <1>1, <1>2

(* Every step of an engine process is a step of its lock, or leaves the lock *)
(* alone.                                                                    *)
LEMMA StepIsLockStep == [Next]_vars => [LockP!Next]_LockP!vars
<1> SUFFICES ASSUME [Next]_vars PROVE [LockP!Next]_LockP!vars
  OBVIOUS
<1>1. ASSUME NEW p \in Process, Progress(p) PROVE [LockP!Next]_LockP!vars
  <2>1. CASE Boot(p) \/ Acquiring(p) \/ LockAcquired(p) \/ RefuseToStart(p)
    BY <2>1, LockActions DEF Boot, Acquiring, LockAcquired, RefuseToStart, Lock!Acquire
  <2>2. CASE Releasing(p) \/ Exit(p)
    BY <2>2, LockActions DEF Releasing, Exit, Gone, Lock!Release
  <2>3. CASE StartLifespan(p) \/ Bind(p) \/ StopLifespan(p)
    BY <2>3 DEF StartLifespan, Bind, StopLifespan, lockVars, LockP!vars
  <2> QED
    BY <1>1, <2>1, <2>2, <2>3 DEF Progress
<1>2. ASSUME NEW p \in Process, Heartbeat(p) PROVE UNCHANGED LockP!vars
  BY <1>2 DEF Heartbeat, BeatTruncates, BeatWrites, BeatWakes, lockVars, LockP!vars
<1>3. ASSUME NEW p \in Process, Disturbance(p) PROVE [LockP!Next]_LockP!vars
  <2>1. CASE AcquireFails(p) \/ Crash(p) \/ ReleaseFails(p)
    BY <2>1, LockActions DEF AcquireFails, Crash, Gone, ReleaseFails, Lock!Acquire,
       Lock!Release
  <2>2. CASE BindFails(p) \/ Signal(p) \/ BeatFails(p)
    BY <2>2 DEF BindFails, Signal, BeatFails, lockVars, LockP!vars
  <2> QED
    BY <1>3, <2>1, <2>2 DEF Disturbance
<1>4. CASE UNCHANGED vars
  BY <1>4 DEF vars, lockVars, LockP!vars
<1> QED
  BY <1>1, <1>2, <1>3, <1>4 DEF Next

LEMMA StartsAsLock == Init => LockP!Init
  BY DEF Init, Lock!Init, LockP!Init

(* The engines obey the lock's specification.                                *)
THEOREM UsesTheLock == Spec => LockP!Spec
  BY StartsAsLock, StepIsLockStep, PTL DEF Spec, LockP!Spec

(* So what holds of every lock holds of the engines' lock.                   *)
LEMMA LockInvariant == Spec => []LockP!IInv
<1>1. LockP!Spec => []LockP!IInv
  BY EngineConstants, LockP!Invariance
<1> QED
  BY <1>1, UsesTheLock, PTL

-----------------------------------------------------------------------------
(* An engine past lock.acquire() has a completed acquire and has not begun   *)
(* its release.                                                              *)
EngineHolds == \A p \in Process : Engine(p) => self_fd[p] # None /\ phase[p] = "idle"

(* A live heartbeat task and the file agree.                                 *)
BeatAgrees ==
    \A p \in Process : LoopRuns(p) =>
        /\ task[p] = "writing" => beat = Empty
        /\ task[p] = "sleeping" => beat = p

EngineTypes ==
    /\ stage \in [Process -> Stage]
    /\ task \in [Process -> Task]
    /\ beat \in Process \cup {Absent, Empty}

EngineInv == EngineTypes /\ EngineHolds /\ BeatAgrees

(* Two engines would both hold the one flock.                                *)
LEMMA HoldingExcludes == LockP!IInv /\ EngineHolds => SingleEngine
<1> SUFFICES ASSUME LockP!IInv, EngineHolds,
                    NEW p \in Process, NEW q \in Process, Engine(p), Engine(q)
             PROVE  p = q
  BY DEF SingleEngine
<1>1. flock = <<p, self_fd[p]>> /\ flock = <<q, self_fd[q]>>
  BY DEF EngineHolds, LockP!IInv, LockP!HolderOwnsFlock, LockP!Holds
<1> QED
  BY <1>1

LEMMA InitEngineInv == Init => EngineInv
  BY DEF Init, Lock!Init, EngineInv, EngineTypes, EngineHolds, BeatAgrees, Engine,
         LoopRuns, Stage, Task

(* run() and the lifespan keep EngineInv: a process becomes an engine with   *)
(* the completion of acquire, whose descriptor is real.                      *)
LEMMA ProgressKeeps ==
    ASSUME LockP!IInv, EngineInv, NEW p \in Process, Progress(p) PROVE EngineInv'
<1> USE DEF EngineInv, EngineTypes, EngineHolds, BeatAgrees, Engine, LoopRuns, LoopFree,
            Stage, Task, Goto, Becomes
<1>1. phase \in [Process -> LockP!Phase] /\ self_fd \in [Process -> Fd \cup {None}]
  BY DEF LockP!IInv, LockP!TypeOK
<1>2. CASE Boot(p) \/ Acquiring(p) \/ RefuseToStart(p)
  BY <1>1, <1>2 DEF Boot, Acquiring, RefuseToStart, Lock!Start, Lock!Open,
     Lock!FlockGranted, Lock!Truncate, Lock!WritePid, Lock!FlockRefused,
     Lock!CloseAndRaise, Lock!Goto
<1>3. CASE LockAcquired(p)
  <2>1. fd[p] # None
    BY <1>3, EngineConstants DEF LockAcquired, Lock!Acquired, LockP!IInv, LockP!TypeOK,
       LockP!DescriptorsOpen, LockP!InAcquire
  <2> QED
    BY <1>1, <1>3, <2>1 DEF LockAcquired, Lock!Acquired, Lock!Goto
<1>4. CASE StartLifespan(p) \/ Bind(p) \/ StopLifespan(p)
  BY <1>4 DEF StartLifespan, Bind, StopLifespan, lockVars
<1>5. CASE Releasing(p)
  BY <1>1, <1>5 DEF Releasing, Lock!Unlock, Lock!Close, Lock!Goto
<1>6. CASE Exit(p)
  BY <1>1, <1>6 DEF Exit, Gone, Lock!Die, Lock!Goto
<1> QED
  BY <1>2, <1>3, <1>4, <1>5, <1>6 DEF Progress

(* The heartbeat keeps EngineInv: no other process has a live heartbeat.     *)
LEMMA HeartbeatKeeps ==
    ASSUME LockP!IInv, EngineInv, NEW p \in Process, Heartbeat(p) \/ BeatFails(p)
    PROVE  EngineInv'
<1> USE DEF EngineInv, EngineTypes, EngineHolds, BeatAgrees, Engine, LoopRuns,
            Stage, Task, Becomes
<1>1. UNCHANGED <<lockVars, stage>>
  BY DEF Heartbeat, BeatTruncates, BeatWrites, BeatWakes, BeatFails
<1>2. \A q \in Process : LoopRuns(q) /\ LoopRuns(p) => q = p
  BY HoldingExcludes DEF SingleEngine
<1>3. CASE BeatTruncates(p)
  BY <1>1, <1>2, <1>3 DEF BeatTruncates, lockVars
<1>4. CASE BeatWrites(p)
  BY <1>1, <1>2, <1>4 DEF BeatWrites, lockVars
<1>5. CASE BeatWakes(p) \/ BeatFails(p)
  BY <1>1, <1>5 DEF BeatWakes, BeatFails, lockVars
<1> QED
  BY <1>3, <1>4, <1>5 DEF Heartbeat

(* Failures, signals and crashes keep EngineInv.                             *)
LEMMA DisturbanceKeeps ==
    ASSUME LockP!IInv, EngineInv, NEW p \in Process, Disturbance(p) PROVE EngineInv'
<1> USE DEF EngineInv, EngineTypes, EngineHolds, BeatAgrees, Engine, LoopRuns, LoopFree,
            Stage, Task, Goto, Becomes
<1>1. phase \in [Process -> LockP!Phase] /\ self_fd \in [Process -> Fd \cup {None}]
  BY DEF LockP!IInv, LockP!TypeOK
<1>2. CASE AcquireFails(p)
  BY <1>1, <1>2 DEF AcquireFails, Lock!AcquireRaises, Lock!CloseAndRaise,
     Lock!StampRaises, Lock!Goto, Lock!vars
<1>3. CASE BindFails(p) \/ Signal(p)
  BY <1>3 DEF BindFails, Signal, lockVars
<1>4. CASE Crash(p)
  BY <1>1, <1>4 DEF Crash, Gone, Lock!Die, Lock!Goto
<1>5. CASE BeatFails(p)
  BY <1>5, HeartbeatKeeps
<1>6. CASE ReleaseFails(p)
  BY <1>1, <1>6 DEF ReleaseFails, Lock!UnlockRaises, Lock!CloseRaises, Lock!Goto, Lock!vars
<1> QED
  BY <1>2, <1>3, <1>4, <1>5, <1>6 DEF Disturbance

LEMMA NextKeepsEngineInv == LockP!IInv /\ EngineInv /\ [Next]_vars => EngineInv'
<1> SUFFICES ASSUME LockP!IInv, EngineInv, [Next]_vars PROVE EngineInv'
  OBVIOUS
<1>1. CASE Next
  BY <1>1, ProgressKeeps, HeartbeatKeeps, DisturbanceKeeps DEF Next
<1>2. CASE UNCHANGED vars
  BY <1>2 DEF vars, lockVars, EngineInv, EngineTypes, EngineHolds, BeatAgrees, Engine,
              LoopRuns
<1> QED
  BY <1>1, <1>2

(* The inductive invariant of the engines, relative to the lock's.           *)
THEOREM EngineInvariance == Spec => []EngineInv
  BY LockInvariant, InitEngineInv, NextKeepsEngineInv, PTL DEF Spec

(* Type correctness of the engines and of their lock.                        *)
THEOREM TypeCorrect == Spec => []TypeOK
<1>1. LockP!IInv /\ EngineInv => TypeOK
  BY DEF LockP!IInv, LockP!TypeOK, LockP!Phase, Lock!TypeOK, Lock!Phase, EngineInv,
         EngineTypes, TypeOK
<1> QED
  BY <1>1, LockInvariant, EngineInvariance, PTL

(* At most one process on a volume is past lock.acquire(), for any number of *)
(* processes and any pattern of crashes, restarts and failing acquires.      *)
THEOREM OneEngine == Spec => []SingleEngine
<1>1. LockP!IInv /\ EngineInv => SingleEngine
  BY HoldingExcludes DEF EngineInv
<1> QED
  BY <1>1, LockInvariant, EngineInvariance, PTL

(* Between two of its writes the heartbeat file is the live engine's.        *)
THEOREM HeartbeatOwned == Spec => []HeartbeatIsTheEngines
<1>1. EngineInv => HeartbeatIsTheEngines
  BY DEF EngineInv, BeatAgrees, HeartbeatIsTheEngines
<1> QED
  BY <1>1, EngineInvariance, PTL

-----------------------------------------------------------------------------
(* Refinement of EngineOwnership: the owner is the process whose description *)
(* has the flock.                                                            *)
Owner == IF flock = Free THEN Free ELSE flock[1]

LEMMA OwnerIsAProcess ==
    LockP!IInv => /\ \A p \in Process, n \in Fd : flock = <<p, n>> => Owner = p
                  /\ flock # Free => Owner \in Process /\ Owner # Free
  BY EngineConstants DEF LockP!IInv, LockP!TypeOK, Owner

(* A lock step passes ownership through nobody.                              *)
LEMMA LockStepMaps ==
    ASSUME LockP!IInv, LockP!IInv', [LockP!Next]_LockP!vars, UNCHANGED beat
    PROVE  [Ownership!Next]_Ownership!vars
<1>1. flock' = flock => UNCHANGED Ownership!vars
  BY DEF Ownership!vars
<1>2. flock = Free /\ flock' # Free => \E p \in Process : Ownership!Claim(p)
  BY EngineConstants DEF Ownership!Claim, Owner, LockP!IInv, LockP!TypeOK
<1>3. flock # Free /\ flock' = Free => Ownership!Yield
  BY OwnerIsAProcess DEF Ownership!Yield, Owner
<1>4. flock' = flock \/ flock = Free \/ flock' = Free
  BY DEF LockP!Next, LockP!Acquire, LockP!Release, LockP!Open, LockP!FlockGranted,
     LockP!Contended, LockP!Truncate, LockP!WritePid, LockP!Acquired, LockP!FlockRefused,
     LockP!AcquireRaises, LockP!CloseAndRaise, LockP!StampRaises, LockP!Unlock,
     LockP!Close, LockP!UnlockRaises, LockP!CloseRaises, LockP!Start, LockP!Die,
     LockP!AfterClose, LockP!vars
<1> QED
  BY <1>1, <1>2, <1>3, <1>4 DEF Ownership!Next

(* A heartbeat step is the owner's.                                          *)
LEMMA BeatStepMaps ==
    ASSUME LockP!IInv, EngineInv, NEW p \in Process, BeatTruncates(p) \/ BeatWrites(p)
    PROVE  Ownership!Next
<1>1. Owner = p
  BY OwnerIsAProcess DEF BeatTruncates, BeatWrites, EngineInv, EngineHolds, Engine,
     LoopRuns, LockP!IInv, LockP!HolderOwnsFlock, LockP!Holds, LockP!TypeOK
<1>2. Owner' = Owner
  BY DEF BeatTruncates, BeatWrites, lockVars, Owner
<1>3. BeatWrites(p) => beat = Empty
  BY DEF BeatWrites, EngineInv, BeatAgrees
<1>4. Ownership!Beat(p)
  BY <1>1, <1>2, <1>3 DEF BeatTruncates, BeatWrites, Ownership!Beat, Owner
<1> QED
  BY <1>4 DEF Ownership!Next

LEMMA StepMaps ==
    LockP!IInv /\ LockP!IInv' /\ EngineInv /\ [Next]_vars
        => [Ownership!Next]_Ownership!vars
<1> SUFFICES ASSUME LockP!IInv, LockP!IInv', EngineInv, [Next]_vars
             PROVE  [Ownership!Next]_Ownership!vars
  OBVIOUS
<1>1. [LockP!Next]_LockP!vars
  BY StepIsLockStep
<1>2. CASE UNCHANGED beat
  BY <1>1, <1>2, LockStepMaps
<1>3. CASE \E p \in Process : BeatTruncates(p) \/ BeatWrites(p)
  BY <1>3, BeatStepMaps
<1>4. UNCHANGED beat \/ \E p \in Process : BeatTruncates(p) \/ BeatWrites(p)
  BY DEF Next, Progress, Heartbeat, Disturbance, Boot, Acquiring, LockAcquired,
     RefuseToStart, AcquireFails, Releasing, ReleaseFails, Exit, Crash, Gone, StartLifespan, Bind,
     BindFails, Signal, StopLifespan, BeatWakes, BeatFails, vars
<1> QED
  BY <1>2, <1>3, <1>4

(* The engines implement the abstract promise: initial states map to initial *)
(* states and every step to a step of EngineOwnership or to a stutter.       *)
THEOREM Refinement == Spec => ImplementsOwnership
<1>1. Init => Ownership!Init
  BY DEF Init, Lock!Init, Ownership!Init
<1>2. Spec => [][Ownership!Next]_Ownership!vars
  BY StepMaps, LockInvariant, EngineInvariance, PTL DEF Spec
<1> QED
  BY <1>1, <1>2, PTL DEF Spec, ImplementsOwnership, Ownership!Spec

-----------------------------------------------------------------------------
(* A process whose locking failed is on its way out, so it never waits for a *)
(* lock it has itself.                                                       *)
Stranded(p) ==
    \/ stage[p] = "down"
    \/ stage[p] = "acquiring" /\ phase[p] \notin {"locked", "truncated", "written"}

HolderMoves == \A p \in Process, n \in Fd : flock = <<p, n>> => ~ Stranded(p)

(* The other processes' flock, stage and phase are not touched by a step of p. *)
LEMMA OthersAreLeftAlone ==
    ASSUME HolderMoves, NEW p \in Process,
           \A q \in Process : q # p => stage'[q] = stage[q] /\ phase'[q] = phase[q],
           \A q \in Process, n \in Fd : q # p /\ flock' = <<q, n>> => flock = <<q, n>>,
           \A n \in Fd : flock' = <<p, n>> => ~ Stranded(p)'
    PROVE  HolderMoves'
  BY DEF HolderMoves, Stranded

LEMMA NextKeepsHolderMoves ==
    LockP!IInv /\ EngineTypes /\ HolderMoves /\ [Next]_vars => HolderMoves'
<1> SUFFICES ASSUME LockP!IInv, EngineTypes, HolderMoves, [Next]_vars PROVE HolderMoves'
  OBVIOUS
<1>1. /\ phase \in [Process -> LockP!Phase] /\ stage \in [Process -> Stage]
      /\ \A q \in Process, n \in Fd : flock = <<q, n>> => n \in open[q]
      /\ \A q \in Process, n \in Fd : <<q, n>> # Free
  BY EngineConstants DEF LockP!IInv, LockP!TypeOK, LockP!FlockHeldOpen, EngineTypes
<1>2. ASSUME NEW p \in Process, Boot(p) PROVE HolderMoves'
  <2>1. \A n \in Fd : flock # <<p, n>>
    BY <1>2 DEF Boot, HolderMoves, Stranded
  <2> QED
    BY <1>1, <1>2, <2>1, OthersAreLeftAlone DEF Boot, Lock!Start, Lock!Goto, Goto
<1>3. ASSUME NEW p \in Process, Acquiring(p) PROVE HolderMoves'
  <2>1. stage' = stage
    BY <1>3 DEF Acquiring
  <2>2. CASE Lock!Open(p)
    <3>1. \A n \in Fd : flock' # <<p, n>>
      BY <1>3, <2>2 DEF Acquiring, Lock!Open, HolderMoves, Stranded
    <3> QED
      BY <1>1, <2>1, <2>2, <3>1, OthersAreLeftAlone DEF Lock!Open, Lock!Goto
  <2>3. CASE Lock!FlockGranted(p)
    BY <1>1, <1>3, <2>1, <2>3, OthersAreLeftAlone
       DEF Acquiring, Lock!FlockGranted, Lock!Goto, Stranded
  <2>4. CASE Lock!Truncate(p) \/ Lock!WritePid(p)
    BY <1>1, <1>3, <2>1, <2>4, OthersAreLeftAlone
       DEF Acquiring, Lock!Truncate, Lock!WritePid, Lock!Goto, Stranded
  <2> QED
    BY <1>3, <2>2, <2>3, <2>4 DEF Acquiring
<1>4. ASSUME NEW p \in Process, LockAcquired(p) \/ RefuseToStart(p) \/ AcquireFails(p)
      PROVE  HolderMoves'
  <2>1. /\ stage' = [stage EXCEPT ![p] = "startup"] \/ stage' = [stage EXCEPT ![p] = "exiting"]
        /\ \A q \in Process : q # p => phase'[q] = phase[q]
        /\ flock' \in {flock, Free}
    BY <1>1, <1>4 DEF LockAcquired, RefuseToStart, AcquireFails, Lock!Acquired, Lock!FlockRefused,
       Lock!AcquireRaises, Lock!StampRaises, Lock!CloseAndRaise, Lock!AfterClose, Lock!Goto,
       Lock!vars, Goto
  <2> QED
    BY <1>1, <2>1, OthersAreLeftAlone DEF Stranded
<1>5. ASSUME NEW p \in Process, Releasing(p) \/ ReleaseFails(p) PROVE HolderMoves'
  <2>1. /\ stage'[p] \in {"releasing", "exiting"}
        /\ \A q \in Process : q # p => stage'[q] = stage[q] /\ phase'[q] = phase[q]
        /\ flock' \in {flock, Free}
    BY <1>1, <1>5 DEF Releasing, ReleaseFails, Lock!Unlock, Lock!Close, Lock!UnlockRaises,
       Lock!CloseRaises, Lock!AfterClose, Lock!Goto, Lock!vars, Goto
  <2> QED
    BY <1>1, <2>1, OthersAreLeftAlone DEF Stranded
<1>6. ASSUME NEW p \in Process, Gone(p) PROVE HolderMoves'
  <2>1. \A n \in Fd : flock' # <<p, n>>
    BY <1>1, <1>6 DEF Gone, Lock!Die
  <2> QED
    BY <1>1, <1>6, <2>1, OthersAreLeftAlone DEF Gone, Lock!Die, Lock!Goto, Goto
<1>7. ASSUME NEW p \in Process,
             StartLifespan(p) \/ Bind(p) \/ BindFails(p) \/ Signal(p) \/ StopLifespan(p)
      PROVE  HolderMoves'
  BY <1>1, <1>7 DEF StartLifespan, Bind, BindFails, Signal, StopLifespan, lockVars, Goto,
     HolderMoves, Stranded
<1>8. ASSUME NEW p \in Process, Heartbeat(p) \/ BeatFails(p) PROVE HolderMoves'
  BY <1>8 DEF Heartbeat, BeatTruncates, BeatWrites, BeatWakes, BeatFails, lockVars,
     HolderMoves, Stranded
<1>9. CASE UNCHANGED vars
  BY <1>9 DEF vars, lockVars, HolderMoves, Stranded
<1> QED
  BY <1>2, <1>3, <1>4, <1>5, <1>6, <1>7, <1>8, <1>9
     DEF Next, Progress, Disturbance, Exit, Crash

(* The lock is always on its way to an engine or to nobody, for any number   *)
(* of processes: this is the part of SomeEngineServes that needs no fairness. *)
THEOREM NeverStranded == Spec => []LockIsNotStranded
<1>1. Init => HolderMoves
  BY EngineConstants DEF Init, Lock!Init, HolderMoves
<1>2. LockP!IInv /\ EngineTypes /\ HolderMoves => LockIsNotStranded
  <2> SUFFICES ASSUME LockP!IInv, EngineTypes, HolderMoves, flock # Free
               PROVE  LockIsNotStranded
    BY DEF LockIsNotStranded
  <2>1. PICK p \in Process, n \in Fd : flock = <<p, n>>
    BY DEF LockP!IInv, LockP!TypeOK
  <2>2. stage[p] \in Stage /\ ~ Stranded(p) /\ flock[1] = p
    BY <2>1 DEF EngineTypes, HolderMoves
  <2> QED
    BY <2>2 DEF LockIsNotStranded, Stranded, Stage, Engine
<1>3. EngineInv => EngineTypes
  BY DEF EngineInv
<1> QED
  BY <1>1, <1>2, <1>3, NextKeepsHolderMoves, LockInvariant, EngineInvariance, PTL DEF Spec
=============================================================================
