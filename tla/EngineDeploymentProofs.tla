------------------------- MODULE EngineDeploymentProofs -------------------------
(***************************************************************************)
(* One engine in the venue, for every number of nodes and replicas.  The   *)
(* argument joins two layers of the defence: the access mode keeps all     *)
(* pods that mounted the shared volume on one node, and on one node the    *)
(* flock tells them apart.                                                 *)
(***************************************************************************)
EXTENDS SingleEngineCheck, TLAPS

(* A pod whose container may start has the volume, and an engine's has it.    *)
EnginesMount ==
    \A o \in Ordinal :
        /\ alive[o] => mounted[o] /\ stage[o] \in {"running", "terminating"}
        /\ mounted[o] => stage[o] \in {"waiting", "running", "terminating"}
        /\ stage[o] \in {"waiting", "running"} => mounted[o]

(* The volume is on one node. *)
OneNode == \A o, q \in Ordinal : mounted[o] /\ mounted[q] => node[o] = node[q]

IInv == TypeOK /\ EnginesMount /\ OneNode /\ OneEngineInVenue

LEMMA InitIInv == Init => IInv
<1> SUFFICES ASSUME Init PROVE IInv
  OBVIOUS
<1>1. TypeOK
  BY DeploymentConstants DEF Init, TypeOK
<1>2. EnginesMount /\ OneNode /\ OneEngineInVenue
  BY DEF Init, EnginesMount, OneNode, OneEngineInVenue
<1> QED
  BY <1>1, <1>2 DEF IInv

(* Steps that touch neither processes, mounts nor nodes keep IInv if a pod    *)
(* that has the volume keeps a stage in which it may have it.                *)
LEMMA QuietSteps ==
    ASSUME IInv, TypeOK', EnginesMount', UNCHANGED <<node, mounted, alive>>
    PROVE  IInv'
  BY DEF IInv, OneNode, OneEngineInVenue

LEMMA NextKeepsIInv == IInv /\ [Next]_vars => IInv'
<1> SUFFICES ASSUME IInv, [Next]_vars PROVE IInv'
  OBVIOUS
<1>1. TypeOK /\ EnginesMount /\ OneNode /\ OneEngineInVenue
  BY DEF IInv
<1>2. ASSUME NEW o \in Ordinal, CreatePod(o) \/ DeletePod(o) PROVE IInv'
  <2>1. TypeOK'
    BY <1>1, <1>2 DEF TypeOK, CreatePod, DeletePod, Goto
  <2>2. EnginesMount'
    BY <1>1, <1>2 DEF TypeOK, EnginesMount, CreatePod, DeletePod, Goto, Exists
  <2> QED
    BY <1>2, <2>1, <2>2, QuietSteps DEF CreatePod, DeletePod
<1>3. ASSUME NEW o \in Ordinal, NEW n \in Node, Schedule(o, n) PROVE IInv'
  <2>1. TypeOK'
    BY <1>1, <1>3 DEF TypeOK, Schedule, Goto
  <2>2. EnginesMount'
    BY <1>1, <1>3 DEF TypeOK, EnginesMount, Schedule, Goto
  <2>3. ~ mounted[o]
    BY <1>1, <1>3 DEF EnginesMount, Schedule
  <2>4. OneNode'
    BY <1>1, <1>3, <2>3 DEF TypeOK, OneNode, Schedule
  <2>5. OneEngineInVenue'
    BY <1>1, <1>3 DEF OneEngineInVenue, Schedule
  <2> QED
    BY <2>1, <2>2, <2>4, <2>5 DEF IInv
<1>4. ASSUME NEW o \in Ordinal, Mount(o) PROVE IInv'
  <2>1. TypeOK'
    BY <1>1, <1>4 DEF TypeOK, Mount, Goto
  <2>2. EnginesMount'
    BY <1>1, <1>4 DEF TypeOK, EnginesMount, Mount, Goto
  <2>3. \A q \in Ordinal : q # o /\ mounted[q] => node[q] = node[o]
    BY <1>4 DEF Mount, SameVolume, Claim
  <2>4. OneNode'
    BY <1>1, <1>4, <2>3 DEF TypeOK, OneNode, Mount
  <2>5. OneEngineInVenue'
    BY <1>1, <1>4 DEF OneEngineInVenue, Mount
  <2> QED
    BY <2>1, <2>2, <2>4, <2>5 DEF IInv
<1>5. ASSUME NEW o \in Ordinal, ContainerStarts(o) PROVE IInv'
  <2>1. TypeOK'
    BY <1>1, <1>5 DEF TypeOK, ContainerStarts, Goto
  <2>2. mounted[o]
    BY <1>1, <1>5 DEF ContainerStarts, EnginesMount
  <2>3. EnginesMount'
    BY <1>1, <1>5, <2>2 DEF TypeOK, EnginesMount, ContainerStarts, Goto
  <2>4. \A q \in Ordinal : q # o => ~ alive[q]
    BY <1>1, <1>5, <2>2 DEF ContainerStarts, Locked, SameVolume, Claim, EnginesMount, OneNode
  <2>5. OneEngineInVenue'
    BY <1>1, <1>5, <2>4 DEF TypeOK, OneEngineInVenue, ContainerStarts
  <2>6. OneNode'
    BY <1>1, <1>5 DEF OneNode, ContainerStarts
  <2> QED
    BY <2>1, <2>3, <2>5, <2>6 DEF IInv
<1>6. ASSUME NEW o \in Ordinal, ContainerRefused(o) \/ ContainerFails(o) \/ BecomesReady(o)
      PROVE  IInv'
  <2>1. TypeOK'
    BY <1>1, <1>6 DEF TypeOK, ContainerRefused, ContainerFails, BecomesReady
  <2>2. EnginesMount'
    BY <1>1, <1>6 DEF EnginesMount, ContainerRefused, ContainerFails, BecomesReady
  <2> QED
    BY <1>6, <2>1, <2>2, QuietSteps DEF ContainerRefused, ContainerFails, BecomesReady
<1>7. ASSUME NEW o \in Ordinal, ContainerDies(o) PROVE IInv'
  <2>1. TypeOK'
    BY <1>1, <1>7 DEF TypeOK, ContainerDies, Goto
  <2>2. EnginesMount'
    BY <1>1, <1>7 DEF TypeOK, EnginesMount, ContainerDies, Goto
  <2>3. OneNode' /\ OneEngineInVenue'
    BY <1>1, <1>7 DEF TypeOK, OneNode, OneEngineInVenue, ContainerDies
  <2> QED
    BY <2>1, <2>2, <2>3 DEF IInv
<1>8. ASSUME NEW o \in Ordinal, PodGone(o) PROVE IInv'
  <2>1. TypeOK'
    BY <1>1, <1>8 DEF TypeOK, PodGone, Goto
  <2>2. EnginesMount'
    BY <1>1, <1>8 DEF TypeOK, EnginesMount, PodGone, Goto
  <2>3. OneNode' /\ OneEngineInVenue'
    BY <1>1, <1>8 DEF TypeOK, OneNode, OneEngineInVenue, PodGone
  <2> QED
    BY <2>1, <2>2, <2>3 DEF IInv
<1>9. ASSUME NEW n \in 0..MaxReplicas, Scale(n) PROVE IInv'
  <2>1. TypeOK'
    BY <1>1, <1>9 DEF TypeOK, Scale, podVars
  <2>2. EnginesMount'
    BY <1>1, <1>9 DEF EnginesMount, Scale, podVars
  <2> QED
    BY <1>9, <2>1, <2>2, QuietSteps DEF Scale, podVars
<1>10. CASE UNCHANGED vars
  BY <1>1, <1>10 DEF vars, podVars, IInv, TypeOK, EnginesMount, OneNode, OneEngineInVenue
<1>11. ASSUME NEW o \in Ordinal, Reconcile(o) PROVE IInv'
  BY <1>11, <1>2, <1>3, <1>4, <1>5, <1>6, <1>8 DEF Reconcile, ScaleDown
<1>12. ASSUME NEW o \in Ordinal, Disturb(o) PROVE IInv'
  BY <1>12, <1>2, <1>6, <1>7 DEF Disturb
<1> QED
  BY <1>9, <1>10, <1>11, <1>12 DEF Next

LEMMA Invariance == Spec => []IInv
  BY InitIInv, NextKeepsIInv, PTL DEF Spec

(* Type correctness of the deployment.                                       *)
THEOREM TypeCorrect == Spec => []TypeOK
<1>1. IInv => TypeOK
  BY DEF IInv
<1> QED
  BY <1>1, Invariance, PTL

(* At most one engine runs in the whole venue, for any number of nodes and   *)
(* replicas, whatever is scaled, evicted, killed or refused.                 *)
THEOREM OneEngineAnywhere == Spec => []OneEngineInVenue
<1>1. IInv => OneEngineInVenue
  BY DEF IInv
<1> QED
  BY <1>1, Invariance, PTL

-----------------------------------------------------------------------------
(* Refinement of EngineOwnership: the owner is the one pod whose process is   *)
(* past lock.acquire().                                                      *)
Owner == IF \E o \in Ordinal : alive[o] THEN CHOOSE o \in Ordinal : alive[o] ELSE NoPod

(* A step leaves the processes alone, ends one, or starts one where none is. *)
LEMMA ProcessesChange ==
    ASSUME IInv, [Next]_vars
    PROVE  \/ alive' = alive
           \/ \E o \in Ordinal : alive' = [alive EXCEPT ![o] = FALSE]
           \/ /\ \A q \in Ordinal : ~ alive[q]
              /\ \E o \in Ordinal : alive' = [alive EXCEPT ![o] = TRUE]
<1> DEFINE Goal ==
             \/ alive' = alive
             \/ \E o \in Ordinal : alive' = [alive EXCEPT ![o] = FALSE]
             \/ /\ \A q \in Ordinal : ~ alive[q]
                /\ \E o \in Ordinal : alive' = [alive EXCEPT ![o] = TRUE]
<1>1. ASSUME NEW o \in Ordinal, ContainerStarts(o) PROVE Goal
  <2>1. mounted[o] /\ ~ alive[o]
    BY <1>1 DEF IInv, EnginesMount, ContainerStarts
  <2>2. \A q \in Ordinal : q # o => ~ alive[q]
    BY <1>1, <2>1 DEF ContainerStarts, Locked, SameVolume, Claim, IInv, EnginesMount, OneNode
  <2> QED
    BY <1>1, <2>1, <2>2 DEF ContainerStarts
<1>2. ASSUME NEW o \in Ordinal, ContainerDies(o) \/ PodGone(o) PROVE Goal
  BY <1>2 DEF ContainerDies, PodGone
<1>3. ASSUME NEW o \in Ordinal, Reconcile(o) \/ Disturb(o) PROVE Goal
  BY <1>1, <1>2, <1>3 DEF Reconcile, Disturb, CreatePod, ScaleDown, DeletePod, Schedule, Mount,
     ContainerRefused, ContainerFails, BecomesReady
<1>4. ASSUME NEW n \in 0..MaxReplicas, Scale(n) PROVE Goal
  BY <1>4 DEF Scale, podVars
<1>5. CASE UNCHANGED vars
  BY <1>5 DEF vars, podVars
<1> QED
  BY <1>3, <1>4, <1>5 DEF Next

(* Each of these is a step of EngineOwnership, or none.                      *)
LEMMA StepMaps == IInv /\ IInv' /\ [Next]_vars => [Ownership!Next]_Ownership!vars
<1> SUFFICES ASSUME IInv, IInv', [Next]_vars PROVE [Ownership!Next]_Ownership!vars
  OBVIOUS
<1>1. /\ OneEngineInVenue /\ OneEngineInVenue'
      /\ alive \in [Ordinal -> BOOLEAN] /\ NoPod \notin Ordinal
  BY DEF IInv, TypeOK, Ordinal, NoPod
<1>2. CASE alive' = alive
  BY <1>2 DEF Ownership!vars
<1>3. ASSUME NEW o \in Ordinal, alive' = [alive EXCEPT ![o] = FALSE]
      PROVE  [Ownership!Next]_Ownership!vars
  <2>1. CASE alive[o]
    <3>1. \A q \in Ordinal : ~ alive'[q]
      BY <1>1, <1>3, <2>1 DEF OneEngineInVenue
    <3>2. Owner = o /\ Owner' = NoPod
      BY <1>1, <2>1, <3>1 DEF OneEngineInVenue, Owner
    <3>3. Ownership!Yield
      BY <1>1, <3>2 DEF Ownership!Yield, Owner
    <3> QED
      BY <3>3 DEF Ownership!Next
  <2>2. CASE ~ alive[o]
    <3>1. alive' = alive
      BY <1>1, <1>3, <2>2
    <3> QED
      BY <3>1 DEF Ownership!vars
  <2> QED
    BY <2>1, <2>2
<1>4. ASSUME NEW o \in Ordinal, \A q \in Ordinal : ~ alive[q],
             alive' = [alive EXCEPT ![o] = TRUE]
      PROVE  [Ownership!Next]_Ownership!vars
  <2>1. alive'[o]
    BY <1>1, <1>4
  <2>2. Owner = NoPod /\ Owner' = o
    BY <1>1, <1>4, <2>1 DEF OneEngineInVenue, Owner
  <2>3. Ownership!Claim(o)
    BY <2>2 DEF Ownership!Claim, Owner
  <2> QED
    BY <2>3 DEF Ownership!Next
<1> QED
  BY <1>2, <1>3, <1>4, ProcessesChange

(* The cluster implements the promise its engines implement on one node: the *)
(* venue changes hands only through nobody, for every number of nodes and    *)
(* replicas.                                                                 *)
THEOREM VenueIsOwned == Spec => ImplementsOwnership
<1>1. Init => Ownership!Init
  BY DEF Init, Ownership!Init
<1>2. Spec => [][Ownership!Next]_Ownership!vars
  BY StepMaps, Invariance, PTL DEF Spec
<1> QED
  BY <1>1, <1>2, PTL DEF Spec, ImplementsOwnership, Ownership!Spec

-----------------------------------------------------------------------------
(* The script only does to the cluster what anybody may do to it.            *)
LEMMA ScriptStepIsClusterStep == [CheckNext]_allVars => [Next]_vars
<1> SUFFICES ASSUME [CheckNext]_allVars PROVE [Next]_vars
  OBVIOUS
<1>1. 0 \in Ordinal /\ 1 \in Ordinal /\ {1, 2} \subseteq 0..MaxReplicas
  BY DeploymentConstants, CheckScalesToTwo DEF Ordinal
<1>2. CASE Script
  <2>1. CASE ScaleToTwo \/ Restore
    BY <1>1, <2>1 DEF ScaleToTwo, Restore, Next
  <2>2. CASE DeleteSecond
    BY <1>1, <2>2 DEF DeleteSecond, Disturb, Next
  <2>3. CASE PollExit \/ JudgeFirst \/ PollReady \/ TimesOut
    BY <2>3 DEF PollExit, JudgeFirst, PollReady, TimesOut, Says
  <2> QED
    BY <1>2, <2>1, <2>2, <2>3 DEF Script
<1>3. CASE Cluster
  BY <1>3 DEF Cluster, Next
<1>4. CASE UNCHANGED allVars
  BY <1>4 DEF allVars
<1> QED
  BY <1>2, <1>3, <1>4 DEF CheckNext

(* So a check, whenever it runs and however it ends, never makes two engines. *)
THEOREM CheckIsHarmless == CheckSpec => []OneEngineInVenue
<1>1. ScriptInit => Init
  BY DEF ScriptInit
<1>2. CheckSpec => Spec
  BY <1>1, ScriptStepIsClusterStep, PTL DEF CheckSpec, Spec
<1> QED
  BY <1>2, OneEngineAnywhere, PTL

-----------------------------------------------------------------------------
(* Who is shown ready is an engine, and so is who runs.                      *)
ReadyAlive ==
    /\ ready \in [Ordinal -> BOOLEAN] /\ alive \in [Ordinal -> BOOLEAN]
    /\ \A o \in Ordinal : (ready[o] => alive[o]) /\ (stage[o] = "running" => alive[o])

LEMMA NextKeepsReadyAlive == TypeOK /\ ReadyAlive /\ [Next]_vars => ReadyAlive'
<1> SUFFICES ASSUME TypeOK, ReadyAlive, [Next]_vars PROVE ReadyAlive'
  OBVIOUS
<1> USE DEF TypeOK, ReadyAlive
<1>1. ASSUME NEW o \in Ordinal, CreatePod(o) \/ DeletePod(o) PROVE ReadyAlive'
  BY <1>1 DEF CreatePod, DeletePod, Goto
<1>2. ASSUME NEW o \in Ordinal, NEW n \in Node, Schedule(o, n) PROVE ReadyAlive'
  BY <1>2 DEF Schedule, Goto
<1>3. ASSUME NEW o \in Ordinal, Mount(o) PROVE ReadyAlive'
  BY <1>3 DEF Mount, Goto
<1>4. ASSUME NEW o \in Ordinal, ContainerStarts(o) PROVE ReadyAlive'
  BY <1>4 DEF ContainerStarts, Goto
<1>5. ASSUME NEW o \in Ordinal, ContainerRefused(o) \/ ContainerFails(o) PROVE ReadyAlive'
  BY <1>5 DEF ContainerRefused, ContainerFails
<1>6. ASSUME NEW o \in Ordinal, BecomesReady(o) PROVE ReadyAlive'
  BY <1>6 DEF BecomesReady
<1>7. ASSUME NEW o \in Ordinal, ContainerDies(o) PROVE ReadyAlive'
  BY <1>7 DEF ContainerDies, Goto
<1>8. ASSUME NEW o \in Ordinal, PodGone(o) PROVE ReadyAlive'
  BY <1>8 DEF PodGone, Goto
<1>9. ASSUME NEW n \in 0..MaxReplicas, Scale(n) PROVE ReadyAlive'
  BY <1>9 DEF Scale, podVars
<1>10. CASE UNCHANGED vars
  BY <1>10 DEF vars, podVars
<1>11. ASSUME NEW o \in Ordinal, Reconcile(o) PROVE ReadyAlive'
  BY <1>11, <1>1, <1>2, <1>3, <1>4, <1>5, <1>6, <1>8 DEF Reconcile, ScaleDown
<1>12. ASSUME NEW o \in Ordinal, Disturb(o) PROVE ReadyAlive'
  BY <1>12, <1>1, <1>5, <1>7 DEF Disturb
<1> QED
  BY <1>9, <1>10, <1>11, <1>12 DEF Next

(* While it polls, the script has said nothing; and until it speaks, an       *)
(* engine-0 that counts as steady is ready.                                  *)
Watch ==
    /\ script \in {"polling exit", "polling ready", "judging"} => verdict = "none"
    /\ verdict = "none" /\ first = "steady" => ready[0]

CheckInv == IInv /\ ReadyAlive /\ Watch /\ AlarmMeansLoss

LEMMA CheckNextKeepsInv == CheckInv /\ [CheckNext]_allVars => CheckInv'
<1> SUFFICES ASSUME CheckInv, [CheckNext]_allVars PROVE CheckInv'
  OBVIOUS
<1>1. IInv /\ TypeOK /\ ReadyAlive /\ OneEngineInVenue /\ Watch /\ AlarmMeansLoss
  BY DEF CheckInv, IInv
<1>2. IInv' /\ ReadyAlive'
  BY <1>1, ScriptStepIsClusterStep, NextKeepsIInv, NextKeepsReadyAlive
<1>3. 0 \in Ordinal /\ 1 \in Ordinal
  BY DeploymentConstants, CheckScalesToTwo DEF Ordinal
<1>4. 0 # 1
  OBVIOUS
<1>5. Watch' /\ AlarmMeansLoss'
  <2> USE <1>1 DEF Watch, AlarmMeansLoss
  <2>1. CASE ScaleToTwo
    BY <2>1 DEF ScaleToTwo, Scale, podVars
  <2>2. CASE PollExit
    BY <2>2 DEF PollExit, vars, podVars
  <2>3. CASE JudgeFirst
    BY <2>3 DEF JudgeFirst, Says, vars, podVars
  <2>4. CASE PollReady
    <3>1. CASE ready[1] /\ Says("second engine")
      <4>1. ready[0] => FALSE
        <5>1. ready[0] => alive[0]
          BY <1>3 DEF ReadyAlive
        <5>2. alive[1]
          BY <1>3, <3>1 DEF ReadyAlive
        <5>3. alive[0] /\ alive[1] => 0 = 1
          BY <1>3 DEF OneEngineInVenue
        <5> QED
          BY <5>1, <5>2, <5>3, <1>4
      <4> QED
        BY <2>4, <3>1, <4>1 DEF PollReady, Says
    <3>2. CASE ~ ready[1]
      BY <2>4, <3>2 DEF PollReady, vars, podVars
    <3> QED
      BY <2>4, <3>1, <3>2 DEF PollReady
  <2>5. CASE TimesOut
    BY <2>5 DEF TimesOut, Says, vars, podVars
  <2>6. CASE Restore
    BY <2>6 DEF Restore, Scale, podVars
  <2>7. CASE DeleteSecond
    BY <2>7 DEF DeleteSecond, DeletePod, vars, podVars
  <2>8. CASE Cluster
    BY <2>8 DEF Cluster
  <2>9. CASE UNCHANGED allVars
    BY <2>9 DEF allVars, vars, podVars
  <2> QED
    BY <2>1, <2>2, <2>3, <2>4, <2>5, <2>6, <2>7, <2>8, <2>9 DEF CheckNext, Script
<1> QED
  BY <1>2, <1>5 DEF CheckInv

(* When the script says that a second engine is ready, engine-0 was not ready *)
(* all along.                                                                *)
THEOREM AlarmHasCause == CheckSpec => []AlarmMeansLoss
<1>1. ScriptInit => CheckInv
  <2> SUFFICES ASSUME ScriptInit PROVE CheckInv
    OBVIOUS
  <2>1. IInv
    BY InitIInv DEF ScriptInit
  <2>2. ReadyAlive /\ Watch /\ AlarmMeansLoss
    BY DEF ScriptInit, Init, ReadyAlive, Watch, AlarmMeansLoss
  <2> QED
    BY <2>1, <2>2 DEF CheckInv
<1>2. CheckInv => AlarmMeansLoss
  BY DEF CheckInv
<1> QED
  BY <1>1, <1>2, CheckNextKeepsInv, PTL DEF CheckSpec
=============================================================================
