----------------------------- MODULE EngineService -----------------------------
(***************************************************************************)
(* engine/main.py: run(), the lifespan and the heartbeat task of every     *)
(* engine process that shares one data directory, on top of the lock of    *)
(* SingleWriterLock.  A process is one event loop: its steps are           *)
(* sequential, while processes interleave and may be killed at any step.   *)
(* uvicorn is external: it starts the lifespan, binds the port, serves     *)
(* until a signal, and ends the lifespan.  Suffixed names, like            *)
(* Boot_WithoutLock, are wrong variants a property must tell apart.        *)
(***************************************************************************)
CONSTANTS Process, Fd, None, Free, Absent, Empty

VARIABLES
    phase, fd, self_fd, open, flock, lockFile,  \* of the lock
    stage,      \* where in run() and the lifespan an engine process is
    task,       \* its heartbeat task
    beat        \* engine-heartbeat.json on the volume: whose it is

lockVars == <<phase, fd, self_fd, open, flock, lockFile>>
vars == <<lockVars, stage, task, beat>>

Lock == INSTANCE SingleWriterLock

ASSUME EngineConstants ==
    /\ None \notin Fd
    /\ Free \notin Process \X Fd
    /\ {Absent, Empty, Free} \cap Process = {}

Stage == {"down", "acquiring", "startup", "binding", "serving", "stopping",
          "releasing", "exiting"}

(* "failed": the coroutine raised, and the task object keeps the exception *)
Task == {"none", "due", "writing", "sleeping", "failed", "cancelled"}

TypeOK ==
    /\ Lock!TypeOK
    /\ stage \in [Process -> Stage]
    /\ task \in [Process -> Task]
    /\ beat \in Process \cup {Absent, Empty}

Init ==
    /\ Lock!Init
    /\ stage = [p \in Process |-> "down"]
    /\ task = [p \in Process |-> "none"]
    /\ beat = Absent

Goto(p, new) == stage' = [stage EXCEPT ![p] = new]
Becomes(p, new) == task' = [task EXCEPT ![p] = new]

-----------------------------------------------------------------------------
(* run(): lock.acquire() before uvicorn, sys.exit(1) when it is refused *)

(* the restart policy starts the process; import constructs the lock *)
Boot_WithoutLock(p) ==
    /\ stage[p] = "down"
    /\ Lock!Start(p)
    /\ Goto(p, "startup")
    /\ UNCHANGED <<task, beat>>

Boot(p) ==
    /\ stage[p] = "down"
    /\ Lock!Start(p)
    /\ Goto(p, "acquiring")
    /\ UNCHANGED <<task, beat>>

Acquiring(p) ==
    /\ stage[p] = "acquiring"
    /\ \/ Lock!Open(p) \/ Lock!FlockGranted(p) \/ Lock!Truncate(p) \/ Lock!WritePid(p)
    /\ UNCHANGED <<stage, task, beat>>

LockAcquired(p) ==
    /\ stage[p] = "acquiring"
    /\ Lock!Acquired(p)
    /\ Goto(p, "startup")
    /\ UNCHANGED <<task, beat>>

RefuseToStart_GoesOn(p) ==
    /\ stage[p] = "acquiring"
    /\ Lock!FlockRefused(p)
    /\ Goto(p, "startup")
    /\ UNCHANGED <<task, beat>>

RefuseToStart(p) ==
    /\ stage[p] = "acquiring"
    /\ Lock!FlockRefused(p)
    /\ Goto(p, "exiting")
    /\ UNCHANGED <<task, beat>>

AcquireFails_Retries(p) ==
    /\ stage[p] = "acquiring"
    /\ Lock!AcquireRaises(p) \/ Lock!StampRaises(p)
    /\ UNCHANGED <<stage, task, beat>>

(* an OSError of acquire is not caught and ends the interpreter *)
AcquireFails(p) ==
    /\ stage[p] = "acquiring"
    /\ Lock!AcquireRaises(p) \/ Lock!StampRaises(p)
    /\ Goto(p, "exiting")
    /\ UNCHANGED <<task, beat>>

(* the finally clause *)
Releasing(p) ==
    /\ stage[p] = "releasing"
    /\ \/ Lock!Unlock(p) /\ UNCHANGED stage
       \/ Lock!Close(p) /\ Goto(p, "exiting")
    /\ UNCHANGED <<task, beat>>

(* an OSError of release is not caught either *)
ReleaseFails(p) ==
    /\ stage[p] = "releasing"
    /\ Lock!UnlockRaises(p) \/ Lock!CloseRaises(p)
    /\ Goto(p, "exiting")
    /\ UNCHANGED <<task, beat>>

Gone(p) ==
    /\ Lock!Die(p)
    /\ Goto(p, "down")
    /\ Becomes(p, "none")
    /\ UNCHANGED beat

Exit(p) == stage[p] = "exiting" /\ Gone(p)

(* SIGKILL, OOM, node loss, or the SIGTERM uvicorn raises again when it is
   done, which ends the process before the finally clause *)
Crash(p) == stage[p] # "exiting" /\ Gone(p)

-----------------------------------------------------------------------------
(* uvicorn.run and the lifespan.  write_text does not await, so nothing else *)
(* of the process runs between its truncation and its write.                 *)

LoopFree(p) == task[p] # "writing"

StartLifespan(p) ==
    /\ stage[p] = "startup"
    /\ Goto(p, "binding")
    /\ Becomes(p, "due")
    /\ UNCHANGED <<lockVars, beat>>

Bind(p) ==
    /\ stage[p] = "binding" /\ LoopFree(p)
    /\ Goto(p, "serving")
    /\ UNCHANGED <<lockVars, task, beat>>

(* the port is taken: uvicorn ends the lifespan and exits *)
BindFails(p) ==
    /\ stage[p] = "binding" /\ LoopFree(p)
    /\ Goto(p, "stopping")
    /\ UNCHANGED <<lockVars, task, beat>>

Signal_Unlocks(p) ==
    /\ stage[p] = "serving" /\ LoopFree(p)
    /\ Lock!Unlock(p)
    /\ Goto(p, "stopping")
    /\ UNCHANGED <<task, beat>>

Signal(p) ==
    /\ stage[p] = "serving" /\ LoopFree(p)
    /\ Goto(p, "stopping")
    /\ UNCHANGED <<lockVars, task, beat>>

(* task.cancel() and await task: a task that failed stays failed, and the    *)
(* await raises its exception, which uvicorn logs before it goes on.         *)
StopLifespan(p) ==
    /\ stage[p] = "stopping" /\ LoopFree(p)
    /\ Becomes(p, IF task[p] = "failed" THEN "failed" ELSE "cancelled")
    /\ Goto(p, "releasing")
    /\ UNCHANGED <<lockVars, beat>>

-----------------------------------------------------------------------------
(* _heartbeat() *)

LoopRuns(p) == stage[p] \in {"binding", "serving", "stopping"}

BeatTruncates(p) ==
    /\ LoopRuns(p) /\ task[p] = "due"
    /\ beat' = Empty
    /\ Becomes(p, "writing")
    /\ UNCHANGED <<lockVars, stage>>

BeatWrites(p) ==
    /\ LoopRuns(p) /\ task[p] = "writing"
    /\ beat' = p
    /\ Becomes(p, "sleeping")
    /\ UNCHANGED <<lockVars, stage>>

BeatFails(p) ==
    /\ LoopRuns(p) /\ task[p] \in {"due", "writing"}
    /\ Becomes(p, "failed")
    /\ UNCHANGED <<lockVars, stage, beat>>

BeatWakes(p) ==
    /\ LoopRuns(p) /\ task[p] = "sleeping"
    /\ Becomes(p, "due")
    /\ UNCHANGED <<lockVars, stage, beat>>

-----------------------------------------------------------------------------
Progress(p) ==
    \/ Boot(p) \/ Acquiring(p) \/ LockAcquired(p) \/ RefuseToStart(p)
    \/ StartLifespan(p) \/ Bind(p) \/ StopLifespan(p) \/ Releasing(p) \/ Exit(p)

Heartbeat(p) == BeatTruncates(p) \/ BeatWrites(p) \/ BeatWakes(p)

(* what the environment does to a process *)
Disturbance(p) ==
    \/ AcquireFails(p) \/ BindFails(p) \/ Signal(p) \/ Crash(p) \/ BeatFails(p)
    \/ ReleaseFails(p)

Next == \E p \in Process : Progress(p) \/ Heartbeat(p) \/ Disturbance(p)

Spec == Init /\ [][Next]_vars

(* The operating system runs every process, the restart policy (compose's    *)
(* unless-stopped, the kubelet's Always) starts every one that ended, and    *)
(* the event loop runs its timers.  Progress needs strong fairness because a *)
(* heartbeat being written keeps the loop busy: the loop's ready queue is    *)
(* first in, first out, so a ready step runs although heartbeats recur.      *)
(* Nothing makes the environment disturb.                                    *)
Fairness == \A p \in Process : SF_vars(Progress(p)) /\ WF_vars(Heartbeat(p))

FairSpec == Spec /\ Fairness

-----------------------------------------------------------------------------
(* Properties *)

(* Processes between a granted lock and the end of run(). *)
Engine(p) == stage[p] \in {"startup", "binding", "serving", "stopping"}

(* Of all the processes that run engine/main.py on one volume at most one is *)
(* past lock.acquire(), serves requests or runs a heartbeat, also across     *)
(* crashes, restarts and half-failed acquires.                               *)
SingleEngine == \A p, q \in Process : Engine(p) /\ Engine(q) => p = q

(* Between two writes of a live engine the heartbeat file holds that         *)
(* engine's beat: no process that lost or never had the lock writes it.      *)
HeartbeatIsTheEngines ==
    \A p \in Process : LoopRuns(p) /\ task[p] = "sleeping" => beat = p

(* The volume is never locked by a process that is gone or that itself waits  *)
(* for the lock: who has the flock is stamping its pid, is an engine, or is   *)
(* on its way out, also after a stamping that failed and left the lock with   *)
(* an object that does not know of it.                                        *)
LockIsNotStranded ==
    flock # Free =>
        LET p == flock[1]
        IN  \/ stage[p] = "acquiring" /\ phase[p] \in {"locked", "truncated", "written"}
            \/ Engine(p)
            \/ stage[p] \in {"releasing", "exiting"}

Ownership ==
    INSTANCE EngineOwnership WITH
        Nobody <- Free,
        owner <- IF flock = Free THEN Free ELSE flock[1]

(* The engines implement the abstract promise: ownership passes only through *)
(* nobody, and only the owner writes the heartbeat.                          *)
ImplementsOwnership == Ownership!Spec

(* Unless the environment disturbs for ever, some engine is eventually up    *)
(* for good: no crash, refusal or half-failed acquire leaves the directory   *)
(* locked with nobody to serve.                                              *)
SomeEngineServes ==
    \/ []<><<\E p \in Process : Disturbance(p)>>_vars
    \/ \E p \in Process : <>[](stage[p] = "serving")

(* Claims of the repository *)

(* A heartbeat that can no longer be written does not stay unnoticed: the    *)
(* engine stops serving.                                                     *)
HeartbeatLossIsLoud ==
    \A p \in Process : task[p] = "failed" ~> stage[p] # "serving"
=============================================================================
