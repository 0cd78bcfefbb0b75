---------------------------- MODULE EngineDeployment ----------------------------
(***************************************************************************)
(* deploy/k8s/base/engine.yaml: the engine's StatefulSet with OrderedReady *)
(* pod management, its pods on the nodes of a cluster, and the volume they *)
(* claim, which is ReadWriteOnce.  Kubernetes is external.  A process past *)
(* lock.acquire() has the flock until it ends (EngineService), so it takes *)
(* one step here.  Suffixed names, like Claim_Template, are wrong variants *)
(* that a property must tell apart.                                        *)
(***************************************************************************)
EXTENDS Integers

CONSTANTS
    Node,           \* nodes a pod may be scheduled to
    MaxReplicas,    \* the most pods anybody scales the StatefulSet to
    None

ASSUME DeploymentConstants == MaxReplicas \in Nat \ {0} /\ None \notin Node

VARIABLES
    replicas,   \* the StatefulSet's desired replicas
    stage,      \* a pod's life; "waiting" for its container to start (again)
    node,       \* where the pod is scheduled
    mounted,    \* its node has mounted the pod's volume for it
    alive,      \* its process is past lock.acquire()
    ready,      \* the container's readiness as the pod's status shows it
    lastExit    \* lastState.terminated of the container

podVars == <<stage, node, mounted, alive, ready, lastExit>>
vars == <<replicas, podVars>>

Ordinal == 0..(MaxReplicas - 1)

TypeOK ==
    /\ replicas \in 0..MaxReplicas
    /\ stage \in [Ordinal -> {"absent", "pending", "scheduled", "waiting", "running",
                              "terminating"}]
    /\ node \in [Ordinal -> Node \cup {None}]
    /\ mounted \in [Ordinal -> BOOLEAN]
    /\ alive \in [Ordinal -> BOOLEAN]
    /\ ready \in [Ordinal -> BOOLEAN]
    /\ lastExit \in [Ordinal -> {"none", "one", "killed"}]

Init ==
    /\ replicas = 1
    /\ stage = [o \in Ordinal |-> "absent"]
    /\ node = [o \in Ordinal |-> None]
    /\ mounted = [o \in Ordinal |-> FALSE]
    /\ alive = [o \in Ordinal |-> FALSE]
    /\ ready = [o \in Ordinal |-> FALSE]
    /\ lastExit = [o \in Ordinal |-> "none"]

Goto(o, new) == stage' = [stage EXCEPT ![o] = new]

(* One static claim for all pods, not one of a volumeClaimTemplate for each. *)
Claim_Template(o) == o
Claim(o) == "engine-data"

-----------------------------------------------------------------------------
(* The StatefulSet controller takes one pod at a time: a pod is created, and *)
(* a surplus one deleted, only when every wanted pod before it is healthy.   *)

Healthy(o) == stage[o] = "running" /\ ready[o]

Exists(o) == stage[o] \notin {"absent", "terminating"}

CreatePod(o) ==
    /\ stage[o] = "absent" /\ o < replicas
    /\ \A q \in Ordinal : q < o => Healthy(q)
    /\ Goto(o, "pending")
    /\ UNCHANGED <<replicas, node, mounted, alive, ready, lastExit>>

DeletePod(o) ==
    /\ Exists(o)
    /\ Goto(o, "terminating")
    /\ UNCHANGED <<replicas, node, mounted, alive, ready, lastExit>>

ScaleDown(o) ==
    /\ o >= replicas
    /\ \A q \in Ordinal : (q < replicas => Healthy(q)) /\ (q > o => stage[q] = "absent")
    /\ DeletePod(o)

(* somebody scales the StatefulSet with kubectl *)
Scale(n) ==
    /\ n # replicas
    /\ replicas' = n
    /\ UNCHANGED podVars

-----------------------------------------------------------------------------
(* The scheduler and the kubelets *)

Schedule(o, n) ==
    /\ stage[o] = "pending"
    /\ Goto(o, "scheduled")
    /\ node' = [node EXCEPT ![o] = n]
    /\ UNCHANGED <<replicas, mounted, alive, ready, lastExit>>

SameVolume(o, q) == q # o /\ mounted[q] /\ Claim(q) = Claim(o)

Mount_Anywhere(o) ==
    /\ stage[o] = "scheduled"
    /\ Goto(o, "waiting")
    /\ mounted' = [mounted EXCEPT ![o] = TRUE]
    /\ UNCHANGED <<replicas, node, alive, ready, lastExit>>

(* ReadWriteOnce: one node at a time, any number of its pods *)
Mount(o) ==
    /\ stage[o] = "scheduled"
    /\ \A q \in Ordinal : SameVolume(o, q) => node[q] = node[o]
    /\ Goto(o, "waiting")
    /\ mounted' = [mounted EXCEPT ![o] = TRUE]
    /\ UNCHANGED <<replicas, node, alive, ready, lastExit>>

(* a flock is known to the kernel of one node only, and ends with its process *)
Locked_UntilReady(o) ==
    \E q \in Ordinal : SameVolume(o, q) /\ node[q] = node[o] /\ alive[q] /\ ready[q]
Locked_ByFile(o) == \E q \in Ordinal : SameVolume(o, q) /\ node[q] = node[o]
Locked(o) == \E q \in Ordinal : SameVolume(o, q) /\ node[q] = node[o] /\ alive[q]

ContainerStarts(o) ==
    /\ stage[o] = "waiting" /\ ~ Locked(o)
    /\ Goto(o, "running")
    /\ alive' = [alive EXCEPT ![o] = TRUE]
    /\ UNCHANGED <<replicas, node, mounted, ready, lastExit>>

(* exit 1, and the kubelet starts the container again *)
ContainerRefused(o) ==
    /\ stage[o] = "waiting" /\ Locked(o)
    /\ lastExit' = [lastExit EXCEPT ![o] = "one"]
    /\ UNCHANGED <<replicas, stage, node, mounted, alive, ready>>

(* an OSError of acquire ends the interpreter with 1 as well *)
ContainerFails(o) ==
    /\ stage[o] = "waiting"
    /\ lastExit' = [lastExit EXCEPT ![o] = "one"]
    /\ UNCHANGED <<replicas, stage, node, mounted, alive, ready>>

(* the engine's readiness check always says yes *)
BecomesReady(o) ==
    /\ stage[o] = "running" /\ ~ ready[o]
    /\ ready' = [ready EXCEPT ![o] = TRUE]
    /\ UNCHANGED <<replicas, stage, node, mounted, alive, lastExit>>

ContainerDies(o) ==
    /\ stage[o] = "running"
    /\ Goto(o, "waiting")
    /\ alive' = [alive EXCEPT ![o] = FALSE]
    /\ ready' = [ready EXCEPT ![o] = FALSE]
    /\ lastExit' = [lastExit EXCEPT ![o] = "killed"]
    /\ UNCHANGED <<replicas, node, mounted>>

(* the end of the grace period: no process, no mount, no pod *)
PodGone(o) ==
    /\ stage[o] = "terminating"
    /\ Goto(o, "absent")
    /\ node' = [node EXCEPT ![o] = None]
    /\ mounted' = [mounted EXCEPT ![o] = FALSE]
    /\ alive' = [alive EXCEPT ![o] = FALSE]
    /\ ready' = [ready EXCEPT ![o] = FALSE]
    /\ lastExit' = [lastExit EXCEPT ![o] = "none"]
    /\ UNCHANGED replicas

-----------------------------------------------------------------------------
Reconcile(o) ==
    \/ CreatePod(o) \/ ScaleDown(o) \/ (\E n \in Node : Schedule(o, n)) \/ Mount(o)
    \/ ContainerStarts(o) \/ ContainerRefused(o) \/ BecomesReady(o) \/ PodGone(o)

(* DeletePod is an eviction, a drain or the rolling update here *)
Disturb(o) == ContainerFails(o) \/ ContainerDies(o) \/ DeletePod(o)

Next ==
    \/ \E o \in Ordinal : Reconcile(o) \/ Disturb(o)
    \/ \E n \in 0..MaxReplicas : Scale(n)

Spec == Init /\ [][Next]_vars

(* Controllers and kubelets retry for ever. *)
Fairness ==
    \A o \in Ordinal :
        /\ WF_vars(CreatePod(o)) /\ WF_vars(ScaleDown(o)) /\ WF_vars(PodGone(o))
        /\ WF_vars(\E n \in Node : Schedule(o, n)) /\ WF_vars(BecomesReady(o))
        /\ WF_vars(Mount(o)) /\ WF_vars(ContainerStarts(o))

FairSpec == Spec /\ Fairness

-----------------------------------------------------------------------------
(* Properties *)

(* The whole venue has at most one engine, whatever is scaled, evicted or     *)
(* killed and wherever the pods land: on one node the flock decides, between *)
(* nodes the volume's access mode, and both only because the claim is shared. *)
OneEngineInVenue == \A o, q \in Ordinal : alive[o] /\ alive[q] => o = q

NoPod == 0 - 1      \* none of the ordinals

Ownership ==
    INSTANCE EngineOwnership WITH
        Process <- Ordinal, Nobody <- NoPod, Absent <- "absent", Empty <- "empty",
        owner <- IF \E o \in Ordinal : alive[o] THEN CHOOSE o \in Ordinal : alive[o] ELSE NoPod,
        beat <- "absent"

(* The cluster keeps the promise that the engines of one node keep            *)
(* (EngineService): the venue passes from one pod to another only through     *)
(* nobody, across nodes, evictions and scalings.  Heartbeats are not seen     *)
(* from here.                                                                 *)
ImplementsOwnership == Ownership!Spec

(* A pod that was refused or cannot mount never takes the venue down: once    *)
(* the disturbances and the scaling end, some engine is ready for good.       *)
SomeEngineReady ==
    \/ []<><<\E o \in Ordinal : Disturb(o)>>_vars
    \/ []<><<\E n \in 0..MaxReplicas : Scale(n)>>_vars
    \/ <>[](replicas = 0)
    \/ <>[](\E o \in Ordinal : Healthy(o))
=============================================================================
