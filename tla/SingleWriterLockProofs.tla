------------------------ MODULE SingleWriterLockProofs ------------------------
(***************************************************************************)
(* Exclusion by SingleWriterLock, for every set of processes and           *)
(* descriptors.  The argument: a completed acquire remembers a descriptor  *)
(* that has the kernel's flock, and the flock is on one open description   *)
(* at a time.                                                              *)
(***************************************************************************)
EXTENDS SingleWriterLock, TLAPS

InAcquire == {"opened", "locked", "truncated", "written"}
HasLocked == {"locked", "truncated", "written"}

(* The descriptors a process knows of are open, and distinct. *)
DescriptorsOpen ==
    \A p \in Process :
        /\ phase[p] \in InAcquire => fd[p] \in open[p] /\ fd[p] # self_fd[p]
        /\ self_fd[p] # None /\ phase[p] # "broken" => self_fd[p] \in open[p]

(* The flock is on an open description, the one that asked for it. *)
FlockHeldOpen ==
    \A p \in Process :
        /\ \A n \in Fd : flock = <<p, n>> => n \in open[p]
        /\ phase[p] = "opened" => flock # <<p, fd[p]>>
        /\ phase[p] \in HasLocked => flock = <<p, fd[p]>>
        /\ phase[p] = "unlocked" => self_fd[p] # None /\ flock # <<p, self_fd[p]>>

IInv ==
    /\ TypeOK
    /\ DescriptorsOpen
    /\ FlockHeldOpen
    /\ HolderOwnsFlock
    /\ FileNamesHolder
    /\ \A p \in Process : phase[p] = "written" => lockFile = p

-----------------------------------------------------------------------------
(* No descriptor of a process is the value that says nobody has the lock.    *)
LEMMA FreeIsNotHeld == \A p \in Process, n \in Fd : <<p, n>> # Free
  BY LockConstants

(* No process has started: nothing is open and nobody holds.                 *)
LEMMA InitIInv == Init => IInv
<1> SUFFICES ASSUME Init PROVE IInv
  OBVIOUS
<1> USE DEF Init
<1>1. TypeOK
  BY DEF TypeOK, Phase
<1>2. DescriptorsOpen /\ HolderOwnsFlock /\ FileNamesHolder
  BY DEF DescriptorsOpen, HolderOwnsFlock, FileNamesHolder, Holds, InAcquire
<1>3. FlockHeldOpen
  BY FreeIsNotHeld DEF FlockHeldOpen, HasLocked
<1> QED
  BY <1>1, <1>2, <1>3 DEF IInv

(* acquire's steps keep the invariant.  Another process's knowledge of the   *)
(* flock survives because only a free flock is granted, and its name in      *)
(* .lock because only the process with the flock stamps the file.            *)
LEMMA AcquireKeepsIInv == ASSUME IInv, NEW p \in Process, Acquire(p) PROVE IInv'
<1> USE DEF IInv, TypeOK, Phase, DescriptorsOpen, FlockHeldOpen, HolderOwnsFlock,
            FileNamesHolder, Holds, InAcquire, HasLocked, Goto
<1>1. CASE Open(p)
  <2>1. PICK n \in Fd \ open[p] :
           /\ fd' = [fd EXCEPT ![p] = n]
           /\ open' = [open EXCEPT ![p] = @ \cup {n}]
    BY <1>1 DEF Open
  <2>2. /\ phase' = [phase EXCEPT ![p] = "opened"] /\ phase[p] = "idle"
        /\ lockFile' = IF lockFile = Absent THEN Empty ELSE lockFile
        /\ self_fd' = self_fd /\ flock' = flock
    BY <1>1 DEF Open, Created
  <2>3. TypeOK'
    BY <2>1, <2>2
  <2>4. DescriptorsOpen'
    BY <2>1, <2>2, LockConstants
  <2>5. FlockHeldOpen'
    BY <2>1, <2>2
  <2>6. HolderOwnsFlock' /\ FileNamesHolder'
    BY <2>2, LockConstants
  <2> QED
    BY <2>2, <2>3, <2>4, <2>5, <2>6, LockConstants
<1>2. CASE FlockGranted(p)
  <2>1. TypeOK' /\ DescriptorsOpen'
    BY <1>2 DEF FlockGranted
  <2>2. \A q \in Process : ~ Holds(q) /\ phase[q] \notin HasLocked
    BY <1>2, FreeIsNotHeld DEF FlockGranted, Contended
  <2>3. FlockHeldOpen'
    BY <1>2, <2>2 DEF FlockGranted
  <2> QED
    BY <1>2, <2>1, <2>2, <2>3 DEF FlockGranted
<1>3. CASE FlockRefused(p) \/ AcquireRaises(p)
  BY <1>3 DEF FlockRefused, AcquireRaises, CloseAndRaise, AfterClose, vars
<1>4. CASE Truncate(p) \/ WritePid(p)
  BY <1>4 DEF Truncate, WritePid
<1>5. CASE Acquired(p) \/ StampRaises(p)
  BY <1>5 DEF Acquired, StampRaises
<1> QED
  BY <1>1, <1>2, <1>3, <1>4, <1>5 DEF Acquire

(* release, the start and the end of a process keep the invariant.           *)
LEMMA OthersKeepIInv ==
    ASSUME IInv, NEW p \in Process, Release(p) \/ Start(p) \/ Die(p) PROVE IInv'
<1> USE DEF IInv, TypeOK, Phase, DescriptorsOpen, FlockHeldOpen, HolderOwnsFlock,
            FileNamesHolder, Holds, InAcquire, HasLocked, Goto
<1>1. CASE Unlock(p)
  BY <1>1, FreeIsNotHeld DEF Unlock
<1>2. CASE Close(p)
  BY <1>2 DEF Close, AfterClose
<1>3. CASE UnlockRaises(p)
  BY <1>3 DEF UnlockRaises, vars
<1>4. CASE CloseRaises(p)
  BY <1>4 DEF CloseRaises, AfterClose
<1>5. CASE Start(p)
  BY <1>5 DEF Start
<1>6. CASE Die(p)
  <2>1. \A n \in Fd : flock' # <<p, n>>
    <3>1. flock' = IF flock \in {p} \X open[p] THEN Free ELSE flock
      BY <1>6 DEF Die
    <3>2. \A n \in Fd : flock = <<p, n>> => n \in open[p]
      OBVIOUS
    <3> HIDE DEF IInv
    <3> QED
      BY <3>1, <3>2, FreeIsNotHeld
  <2>2. \A q \in Process \ {p}, n \in Fd : flock = <<q, n>> => flock' = flock
    BY <1>6 DEF Die
  <2>3. TypeOK' /\ DescriptorsOpen'
    BY <1>6 DEF Die
  <2>4. FlockHeldOpen'
    <3>1. flock' \in {flock, Free}
      BY <1>6 DEF Die
    <3> SUFFICES ASSUME NEW q \in Process PROVE FlockHeldOpen!(q)'
      OBVIOUS
    <3>2. CASE q = p
      BY <1>6, <2>1, <3>2 DEF Die
    <3>3. CASE q # p
      <4>1. /\ phase'[q] = phase[q] /\ open'[q] = open[q]
            /\ fd'[q] = fd[q] /\ self_fd'[q] = self_fd[q]
        BY <1>6, <3>3 DEF Die
      <4>2. \A n \in Fd : flock' = <<q, n>> <=> flock = <<q, n>>
        BY <2>2, <3>1, <3>3, FreeIsNotHeld
      <4> QED
        BY <4>1, <4>2, LockConstants
    <3> QED
      BY <3>2, <3>3
  <2>5. HolderOwnsFlock' /\ FileNamesHolder'
    BY <1>6, <2>2 DEF Die
  <2> QED
    BY <1>6, <2>3, <2>4, <2>5 DEF Die
<1> QED
  BY <1>1, <1>2, <1>3, <1>4, <1>5, <1>6 DEF Release

LEMMA NextKeepsIInv == IInv /\ [Next]_vars => IInv'
<1> SUFFICES ASSUME IInv, [Next]_vars PROVE IInv'
  OBVIOUS
<1>1. CASE Next
  BY <1>1, AcquireKeepsIInv, OthersKeepIInv DEF Next
<1>2. CASE UNCHANGED vars
  BY <1>2 DEF vars, IInv, TypeOK, DescriptorsOpen, FlockHeldOpen, HolderOwnsFlock,
              FileNamesHolder, Holds
<1> QED
  BY <1>1, <1>2

(* The strengthened invariant holds in every reachable state.                *)
THEOREM Invariance == Spec => []IInv
  BY InitIInv, NextKeepsIInv, PTL DEF Spec

(* Two holders would both have the one flock.                                *)
LEMMA OneFlockOneHolder == IInv => Exclusive
<1> SUFFICES ASSUME IInv, NEW p \in Process, NEW q \in Process, Holds(p), Holds(q)
             PROVE p = q
  BY DEF Exclusive
<1>1. flock = <<p, self_fd[p]>> /\ flock = <<q, self_fd[q]>>
  BY DEF IInv, HolderOwnsFlock
<1> QED
  BY <1>1

(* Type correctness of the lock objects, the descriptors and the lock file.  *)
THEOREM TypeCorrect == Spec => []TypeOK
<1>1. IInv => TypeOK
  BY DEF IInv
<1> QED
  BY <1>1, Invariance, PTL

(* acquire and release exclude: no two processes both completed acquire on   *)
(* one data directory, for any number of processes, crashes and retries.     *)
THEOREM MutualExclusion == Spec => []Exclusive
  BY Invariance, OneFlockOneHolder, PTL

(* A process that believes it holds the lock has the kernel's flock.         *)
THEOREM BeliefIsBacked == Spec => []HolderOwnsFlock
<1>1. IInv => HolderOwnsFlock
  BY DEF IInv
<1> QED
  BY <1>1, Invariance, PTL

(* While the lock is held, the pid in .lock is the holder's.                 *)
THEOREM PidIsTheHolders == Spec => []FileNamesHolder
<1>1. IInv => FileNamesHolder
  BY DEF IInv
<1> QED
  BY <1>1, Invariance, PTL
=============================================================================
