---------------------------- MODULE GatewayReadiness ----------------------------
(***************************************************************************)
(* gateway/main.py's readiness check behind the /readyz of                 *)
(* service_common/app.py, the peers it asks, and the kubelet that probes   *)
(* it and takes the pod in and out of rotation.  Peers and kubelet are     *)
(* external.  A request keeps no state for the next one.  httpx allows the *)
(* peer PEER_TIMEOUT_SECONDS to connect and again to answer, so a request  *)
(* ends (within four seconds) before the kubelet starts another (five).    *)
(* Suffixed names, like Verdict_Any, are wrong variants that a property    *)
(* must tell apart.                                                        *)
(***************************************************************************)
EXTENDS Integers

CONSTANTS
    Peer,       \* the services /readyz asks: engine and ledger
    Threshold   \* the probe's failureThreshold

ASSUME GatewayConstants == Threshold \in Nat \ {0}

VARIABLES
    peer,       \* how a peer treats a request for /healthz at this moment
    malformed,  \* peers whose configured URL httpx cannot parse
    request,    \* the request for /readyz in progress
    result,     \* what _peer_healthy has returned for each peer
    answer,     \* the last answer of /readyz, "none" while it is awaited
    failures,   \* consecutive probes the kubelet counts as failed
    rotation,   \* the pod is an endpoint of its Service
    witnessed   \* history: healthy and unhealthy peers this request

vars == <<peer, malformed, request, result, answer, failures, rotation, witnessed>>

(* "slow" answers after the kubelet's timeout (1 s by default) and before    *)
(* PEER_TIMEOUT_SECONDS; "hung" answers after both                           *)
PeerState == {"up", "slow", "erroring", "down", "hung"}
Healthy(x) == peer[x] \in {"up", "slow"}

TypeOK ==
    /\ peer \in [Peer -> PeerState]
    /\ malformed \subseteq Peer
    /\ request \in {"none", "checking", "abandoned"}
    /\ result \in [Peer -> {"pending", "healthy", "problem", "raised"}]
    /\ answer \in {"none", "ready", "not ready", "error"}
    /\ failures \in 0..Threshold
    /\ rotation \in BOOLEAN
    /\ witnessed \in [{"healthy", "unhealthy"} -> SUBSET Peer]

(* a pod is out of rotation until its first successful probe *)
Init ==
    /\ peer \in [Peer -> PeerState]
    /\ malformed \in SUBSET Peer
    /\ request = "none"
    /\ result = [x \in Peer |-> "pending"]
    /\ answer = "none"
    /\ failures = 0
    /\ rotation = FALSE
    /\ witnessed = [v \in {"healthy", "unhealthy"} |-> {}]

Seen(state) ==
    [v \in {"healthy", "unhealthy"} |->
        {x \in Peer : (v = "healthy") <=> (state[x] \in {"up", "slow"})}]

-----------------------------------------------------------------------------
(* The peers *)

PeerChanges(x) ==
    /\ \E state \in PeerState \ {peer[x]} : peer' = [peer EXCEPT ![x] = state]
    /\ witnessed' = [v \in DOMAIN witnessed |-> witnessed[v] \cup Seen(peer')[v]]
    /\ UNCHANGED <<malformed, request, result, answer, failures, rotation>>

-----------------------------------------------------------------------------
(* GET /readyz *)

(* the kubelet probes; check_peers gathers one _peer_healthy for each peer *)
Check_KeepsResults ==
    /\ request = "none"
    /\ request' = "checking"
    /\ answer' = "none"
    /\ witnessed' = Seen(peer)
    /\ UNCHANGED <<peer, malformed, result, failures, rotation>>

Check ==
    /\ request = "none"
    /\ request' = "checking"
    /\ result' = [x \in Peer |-> "pending"]
    /\ answer' = "none"
    /\ witnessed' = Seen(peer)
    /\ UNCHANGED <<peer, malformed, failures, rotation>>

(* _peer_healthy returns None, or a reason after an answer that is not 200 or *)
(* an httpx.HTTPError, a timeout among them; InvalidURL is not an HTTPError.  *)
PeerHealthy_AnyStatus(x) ==
    /\ request # "none" /\ result[x] = "pending"
    /\ result' = [result EXCEPT ![x] =
         IF Healthy(x) \/ peer[x] = "erroring" THEN "healthy" ELSE "problem"]
    /\ UNCHANGED <<peer, malformed, request, answer, failures, rotation, witnessed>>

PeerHealthy_NoTimeout(x) ==
    /\ request # "none" /\ result[x] = "pending" /\ peer[x] # "hung"
    /\ result' = [result EXCEPT ![x] = IF Healthy(x) THEN "healthy" ELSE "problem"]
    /\ UNCHANGED <<peer, malformed, request, answer, failures, rotation, witnessed>>

PeerHealthy(x) ==
    /\ request # "none" /\ result[x] = "pending"
    /\ result' = [result EXCEPT ![x] =
         IF x \in malformed THEN "raised" ELSE IF Healthy(x) THEN "healthy" ELSE "problem"]
    /\ UNCHANGED <<peer, malformed, request, answer, failures, rotation, witnessed>>

(* gather raises with the first that raises, else waits for all *)
Gathered == (\E x \in Peer : result[x] = "raised") \/ (\A x \in Peer : result[x] # "pending")

Verdict_Any == IF \E x \in Peer : result[x] = "healthy" THEN "ready" ELSE "not ready"

Verdict ==
    IF \E x \in Peer : result[x] = "raised" THEN "error"                  \* status 500
    ELSE IF \E x \in Peer : result[x] = "problem" THEN "not ready"        \* status 503
    ELSE "ready"                                                          \* status 200

-----------------------------------------------------------------------------
(* The kubelet: one success puts the pod in rotation, Threshold failures in  *)
(* a row take it out.  Counting stops at Threshold, a bound of the model:    *)
(* more failures change nothing.                                             *)

ProbeSucceeds == failures' = 0 /\ rotation' = TRUE

ProbeFails ==
    /\ failures' = IF failures < Threshold THEN failures + 1 ELSE failures
    /\ rotation' = IF failures' < Threshold THEN rotation ELSE FALSE

(* the answer arrives in time, or after the kubelet gave up *)
Answer ==
    /\ request # "none" /\ Gathered
    /\ answer' = Verdict
    /\ request' = "none"
    /\ \/ request = "checking" /\ Verdict = "ready" /\ ProbeSucceeds
       \/ request = "checking" /\ Verdict # "ready" /\ ProbeFails
       \/ request = "abandoned" /\ UNCHANGED <<failures, rotation>>
    /\ UNCHANGED <<peer, malformed, result, witnessed>>

(* The kubelet's timeout; the handler goes on.  Only a peer makes it late: a *)
(* gateway or a network that is slow of its own is left out.                 *)
GivesUp ==
    /\ request = "checking"
    /\ \E x \in Peer : result[x] = "pending" /\ peer[x] \in {"slow", "hung"}
    /\ request' = "abandoned"
    /\ ProbeFails
    /\ UNCHANGED <<peer, malformed, result, answer, witnessed>>

Next ==
    \/ Check \/ Answer \/ GivesUp
    \/ \E x \in Peer : PeerHealthy(x) \/ PeerChanges(x)

(* The kubelet probes for ever and the gateway's event loop runs; a silent    *)
(* peer's request ends with httpx's timeouts.  Nothing is assumed of the      *)
(* peers, except that none drips its answer, which would restart the timeout  *)
(* with every piece: they are the market's own services and answer at once.   *)
Fairness ==
    /\ WF_vars(Check) /\ WF_vars(Answer)
    /\ \A x \in Peer : WF_vars(PeerHealthy(x))

Spec == Init /\ [][Next]_vars /\ Fairness

-----------------------------------------------------------------------------
(* Properties *)

(* Every answer rests on what the peers did during its own request: "ready"  *)
(* only if each of them was healthy at some moment of it, "not ready" only   *)
(* if one was not.  The peers need not have been healthy together.           *)
AnswersAreWitnessed ==
    /\ answer = "ready" => witnessed["healthy"] = Peer
    /\ answer = "not ready" => witnessed["unhealthy"] # {}

(* The kubelet moves the pod for what the peers did during the probe it       *)
(* counts, and for nothing older: into rotation only if each was healthy at   *)
(* some moment of it, and a failure is counted only if one was not, is slower *)
(* than the kubelet waits, or cannot be asked at all.                         *)
RotationHasCause ==
    [][/\ rotation' /\ ~ rotation => witnessed["healthy"] = Peer
       /\ failures' > failures =>
            malformed # {} \/ witnessed["unhealthy"] # {} \/ \E x \in Peer : peer[x] = "slow"]_vars

(* A peer that is lost for good takes the pod out of rotation for good.      *)
LostPeerLeavesRotation ==
    \A x \in Peer : <>[](~ Healthy(x)) => <>[](~ rotation)

(* Peers that answer promptly for good bring the pod into rotation for good. *)
PromptPeersEnterRotation ==
    malformed = {} /\ <>[](\A x \in Peer : peer[x] = "up") => <>[]rotation

(* Every request for /readyz ends, also while peers hang or change for ever. *)
EveryCheckEnds == request # "none" ~> request = "none"
=============================================================================
