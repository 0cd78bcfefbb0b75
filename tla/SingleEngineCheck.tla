---------------------------- MODULE SingleEngineCheck ----------------------------
(***************************************************************************)
(* scripts/check-single-engine.sh against the cluster of EngineDeployment: *)
(* scale to two, poll engine-1 until it exited with 1 or is ready, look at *)
(* engine-0, and restore one replica on the way out.  Every kubectl call   *)
(* is a step, because the cluster moves between them.                      *)
(***************************************************************************)
EXTENDS EngineDeployment

VARIABLES
    script,     \* where the script is
    verdict,    \* what it last said
    first       \* history of engine-0 up to the verdict: "unready" or "steady"
                \* since the scaling, or "lost" its readiness after it

allVars == <<vars, script, verdict, first>>

ASSUME CheckScalesToTwo == MaxReplicas >= 2

ScriptInit ==
    /\ Init
    /\ script = "idle"
    /\ verdict = "none"
    /\ first = "unready"

-----------------------------------------------------------------------------
ScaleToTwo ==
    /\ script = "idle"
    /\ Scale(2)
    /\ script' = "polling exit"
    /\ verdict' = "none"
    /\ first' = IF ready[0] THEN "steady" ELSE "unready"

(* an absent pod has no exit code and is not ready *)
PollExit ==
    /\ script = "polling exit"
    /\ script' = IF lastExit[1] = "one" THEN "judging" ELSE "polling ready"
    /\ UNCHANGED <<vars, verdict, first>>

Says(v) ==
    /\ verdict' = v
    /\ script' = "restoring"
    /\ UNCHANGED <<vars, first>>

JudgeFirst == script = "judging" /\ Says(IF ready[0] THEN "holds" ELSE "disturbed")

PollReady ==
    /\ script = "polling ready"
    /\ \/ ready[1] /\ Says("second engine")
       \/ /\ ~ ready[1]
          /\ script' = "polling exit"
          /\ UNCHANGED <<vars, verdict, first>>

TimesOut == script = "polling exit" /\ Says("timeout")

(* the trap: scale to one, then delete engine-1 if it is there *)
Restore ==
    /\ script = "restoring"
    /\ Scale(1)
    /\ script' = "deleting"
    /\ UNCHANGED <<verdict, first>>

DeleteSecond_No ==
    /\ script = "deleting"
    /\ script' = "idle"
    /\ UNCHANGED <<vars, verdict, first>>

DeleteSecond ==
    /\ script = "deleting"
    /\ DeletePod(1) \/ (~ Exists(1) /\ UNCHANGED vars)
    /\ script' = "idle"
    /\ UNCHANGED <<verdict, first>>

Script ==
    ScaleToTwo \/ PollExit \/ JudgeFirst \/ PollReady \/ TimesOut \/ Restore \/ DeleteSecond

-----------------------------------------------------------------------------
Cluster ==
    /\ \E o \in Ordinal : Reconcile(o) \/ Disturb(o)
    /\ first' = IF verdict = "none" /\ ready[0] /\ ~ ready'[0] THEN "lost" ELSE first
    /\ UNCHANGED <<script, verdict>>

CheckNext == Script \/ Cluster

(* The script runs to its end; strong fairness of TimesOut is its deadline,   *)
(* which it looks at only between two polls.                                 *)
CheckFairness ==
    /\ Fairness
    /\ SF_allVars(TimesOut) /\ WF_allVars(Restore) /\ WF_allVars(DeleteSecond)
    /\ WF_allVars(PollExit \/ PollReady \/ JudgeFirst)

CheckSpec == ScriptInit /\ [][CheckNext]_allVars /\ CheckFairness

-----------------------------------------------------------------------------
(* Properties *)

(* "a second engine pod is running and ready" is never said of a venue whose  *)
(* engine-0 was ready all along: the alarm means that engine-1 was not kept   *)
(* from the book, or that engine-0 lost it first.                             *)
AlarmMeansLoss == verdict = "second engine" => first # "steady"

(* The script gives the cluster back as it should be, whatever it met: once   *)
(* nothing is disturbed and no check runs, engine-0 is ready for good and     *)
(* alone.  An OrderedReady StatefulSet does not do that by itself: with       *)
(* engine-1 in the possession of the lock, engine-0 is refused for ever, and  *)
(* the controller waits for engine-0 before it removes engine-1.              *)
EngineZeroReturns ==
    \/ []<><<\E o \in Ordinal : Disturb(o)>>_vars
    \/ []<><<ScaleToTwo>>_allVars
    \/ <>[](Healthy(0) /\ \A o \in Ordinal \ {0} : stage[o] = "absent")

(* Claims of the repository *)

(* When the check passes, engine-0 stayed ready throughout. *)
StayedReadyThroughout == verdict = "holds" => first # "lost"
=============================================================================
