--------------------------- MODULE SingleWriterLock ---------------------------
(***************************************************************************)
(* service_common/single_writer.py: the advisory flock on <data_dir>/.lock *)
(* that stops two processes owning one data directory.                     *)
(*                                                                         *)
(* Every process of Process constructs one SingleWriterLock.  acquire and  *)
(* release are split at their system calls, because other processes run,   *)
(* and any process may be killed, between two of them.  Inside one process *)
(* the calls are sequential.  Process death and the kernel's reaping of    *)
(* descriptors are part of the environment.  A name with an underscore and *)
(* a suffix, like Created_Truncated, is a wrong variant of the definition  *)
(* after it, which a property must tell from the right one.                *)
(***************************************************************************)
CONSTANTS
    Process,    \* operating system processes that may want the directory
    Fd,         \* descriptor numbers a process may get for .lock
    None,       \* no descriptor
    Free,       \* nobody has the flock
    Absent,     \* .lock does not exist
    Empty       \* .lock exists and has no contents

ASSUME LockConstants ==
    /\ None \notin Fd
    /\ Free \notin Process \X Fd
    /\ {Absent, Empty} \cap Process = {}

VARIABLES
    phase,      \* where in acquire, release or its life a process is
    fd,         \* acquire's local fd
    self_fd,    \* the lock object's _fd
    open,       \* the descriptors on .lock a process has open
    flock,      \* the open description <<process, descriptor>> with LOCK_EX
    lockFile    \* the contents of .lock: the pid in it, if any

vars == <<phase, fd, self_fd, open, flock, lockFile>>

Phase == {"dead", "idle", "opened", "locked", "truncated", "written", "unlocked",
          "broken"}

TypeOK ==
    /\ phase \in [Process -> Phase]
    /\ fd \in [Process -> Fd \cup {None}]
    /\ self_fd \in [Process -> Fd \cup {None}]
    /\ open \in [Process -> SUBSET Fd]
    /\ flock \in (Process \X Fd) \cup {Free}
    /\ lockFile \in Process \cup {Absent, Empty}

(* No process has started, the volume is new. *)
Init ==
    /\ phase = [p \in Process |-> "dead"]
    /\ fd = [p \in Process |-> None]
    /\ self_fd = [p \in Process |-> None]
    /\ open = [p \in Process |-> {}]
    /\ flock = Free
    /\ lockFile = Absent

-----------------------------------------------------------------------------
(* acquire.  A holder may call it again: its second descriptor is another    *)
(* open file description, so the kernel treats it like any other contender.  *)

Goto(p, new) == phase' = [phase EXCEPT ![p] = new]

(* the contents of .lock after os.open with O_CREAT and without O_TRUNC *)
Created_Truncated == Empty
Created == IF lockFile = Absent THEN Empty ELSE lockFile

(* mkdir and os.open *)
Open(p) ==
    /\ phase[p] = "idle"
    /\ \E n \in Fd \ open[p] :
         /\ fd' = [fd EXCEPT ![p] = n]
         /\ open' = [open EXCEPT ![p] = @ \cup {n}]
    /\ lockFile' = Created
    /\ Goto(p, "opened")
    /\ UNCHANGED <<self_fd, flock>>

(* flock(2) locks an open file description.  Closing its descriptor unlocks   *)
(* it; closing another one on the same file does not, which a POSIX record    *)
(* lock would.                                                                *)
Contended_ByPidFile == lockFile \notin {Absent, Empty}
Contended == flock # Free
AfterClose_Posix(p, n) == IF flock # Free /\ flock[1] = p THEN Free ELSE flock
AfterClose(p, n) == IF flock = <<p, n>> THEN Free ELSE flock

FlockGranted_OfSelf(p) ==
    /\ phase[p] = "opened" /\ ~ Contended
    /\ flock' = <<p, self_fd[p]>>
    /\ Goto(p, "locked")
    /\ UNCHANGED <<fd, self_fd, open, lockFile>>

FlockGranted(p) ==
    /\ phase[p] = "opened"
    /\ ~ Contended
    /\ flock' = <<p, fd[p]>>
    /\ Goto(p, "locked")
    /\ UNCHANGED <<fd, self_fd, open, lockFile>>

(* the except branch: os.close(fd), then raise *)
CloseAndRaise(p) ==
    /\ phase[p] = "opened"
    /\ open' = [open EXCEPT ![p] = @ \ {fd[p]}]
    /\ flock' = AfterClose(p, fd[p])
    /\ fd' = [fd EXCEPT ![p] = None]
    /\ Goto(p, "idle")
    /\ UNCHANGED <<self_fd, lockFile>>

(* DataDirectoryLocked *)
FlockRefused_Ignored(p) ==
    /\ Contended /\ phase[p] = "opened"
    /\ Goto(p, "locked")
    /\ UNCHANGED <<fd, self_fd, open, flock, lockFile>>

FlockRefused(p) == Contended /\ CloseAndRaise(p)

(* mkdir or open failed, or flock failed with an errno that says nothing
   about another holder: the OSError passes through *)
AcquireRaises(p) ==
    \/ phase[p] = "idle" /\ UNCHANGED vars
    \/ ~ Contended /\ CloseAndRaise(p)

Truncate(p) ==
    /\ phase[p] = "locked"
    /\ lockFile' = Empty
    /\ Goto(p, "truncated")
    /\ UNCHANGED <<fd, self_fd, open, flock>>

WritePid(p) ==
    /\ phase[p] = "truncated"
    /\ lockFile' = p
    /\ Goto(p, "written")
    /\ UNCHANGED <<fd, self_fd, open, flock>>

(* fsync returned: the object remembers its descriptor *)
Acquired(p) ==
    /\ phase[p] = "written"
    /\ self_fd' = [self_fd EXCEPT ![p] = fd[p]]
    /\ fd' = [fd EXCEPT ![p] = None]
    /\ Goto(p, "idle")
    /\ UNCHANGED <<open, flock, lockFile>>

(* truncate, write or fsync raised: nothing closes the descriptor or drops   *)
(* the lock, and _fd still says None                                         *)
StampRaises(p) ==
    /\ phase[p] \in {"locked", "truncated", "written"}
    /\ fd' = [fd EXCEPT ![p] = None]
    /\ Goto(p, "idle")
    /\ UNCHANGED <<self_fd, open, flock, lockFile>>

-----------------------------------------------------------------------------
(* release.  Without a descriptor it returns at once, which changes nothing. *)

Unlock(p) ==
    /\ phase[p] = "idle" /\ self_fd[p] # None
    /\ flock' = IF flock = <<p, self_fd[p]>> THEN Free ELSE flock
    /\ Goto(p, "unlocked")
    /\ UNCHANGED <<fd, self_fd, open, lockFile>>

Close(p) ==
    /\ phase[p] = "unlocked"
    /\ open' = [open EXCEPT ![p] = @ \ {self_fd[p]}]
    /\ flock' = AfterClose(p, self_fd[p])
    /\ self_fd' = [self_fd EXCEPT ![p] = None]
    /\ Goto(p, "idle")
    /\ UNCHANGED <<fd, lockFile>>

(* flock(LOCK_UN) raised: the lock and _fd stay *)
UnlockRaises(p) ==
    /\ phase[p] = "idle" /\ self_fd[p] # None
    /\ UNCHANGED vars

(* os.close raised after the kernel had given the descriptor up: _fd still   *)
(* names it.  The OSError leaves release and nothing calls the object again. *)
CloseRaises(p) ==
    /\ phase[p] = "unlocked"
    /\ open' = [open EXCEPT ![p] = @ \ {self_fd[p]}]
    /\ flock' = AfterClose(p, self_fd[p])
    /\ Goto(p, "broken")
    /\ UNCHANGED <<fd, self_fd, lockFile>>

-----------------------------------------------------------------------------
(* The environment: a process starts with a new lock object, and ends, of    *)
(* its own accord or killed, at any point.  The kernel then closes what it   *)
(* had open, which drops its flock; the contents of .lock stay.              *)

Start(p) ==
    /\ phase[p] = "dead"
    /\ Goto(p, "idle")
    /\ UNCHANGED <<fd, self_fd, open, flock, lockFile>>

Die(p) ==
    /\ phase[p] # "dead"
    /\ flock' = IF flock \in {p} \X open[p] THEN Free ELSE flock
    /\ open' = [open EXCEPT ![p] = {}]
    /\ fd' = [fd EXCEPT ![p] = None]
    /\ self_fd' = [self_fd EXCEPT ![p] = None]
    /\ Goto(p, "dead")
    /\ UNCHANGED lockFile

Acquire(p) ==
    \/ Open(p) \/ FlockGranted(p) \/ Truncate(p) \/ WritePid(p) \/ Acquired(p)
    \/ FlockRefused(p) \/ AcquireRaises(p) \/ StampRaises(p)

Release(p) == Unlock(p) \/ Close(p) \/ UnlockRaises(p) \/ CloseRaises(p)

Next == \E p \in Process : Acquire(p) \/ Release(p) \/ Start(p) \/ Die(p)

Spec == Init /\ [][Next]_vars

-----------------------------------------------------------------------------
(* Properties *)

(* p is between a completed acquire and the LOCK_UN of its release. *)
Holds(p) == self_fd[p] # None /\ phase[p] \notin {"unlocked", "broken"}

(* Two processes never both believe they own the data directory, whatever    *)
(* the interleaving of their system calls and whoever is killed when.        *)
Exclusive == \A p, q \in Process : Holds(p) /\ Holds(q) => p = q

(* The belief is backed by the kernel: the description a holder remembers    *)
(* has the flock, also after the holder called acquire again and that call   *)
(* closed the descriptor it had opened.                                      *)
HolderOwnsFlock == \A p \in Process : Holds(p) => flock = <<p, self_fd[p]>>

(* While a process holds the directory .lock contains its pid: a contender   *)
(* that opens the file and is refused leaves the contents alone.             *)
FileNamesHolder == \A p \in Process : Holds(p) => lockFile = p
=============================================================================
