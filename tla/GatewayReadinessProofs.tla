------------------------- MODULE GatewayReadinessProofs -------------------------
(***************************************************************************)
(* What an answer of /readyz says about the peers, for every set of peers  *)
(* and however they change while the request runs.                         *)
(***************************************************************************)
EXTENDS GatewayReadiness, TLAPS

(* During a request the history covers the peers' present states and every   *)
(* result that has come in.                                                  *)
ResultsAreWitnessed ==
    request # "none" => \A x \in Peer :
        /\ x \in witnessed[IF Healthy(x) THEN "healthy" ELSE "unhealthy"]
        /\ result[x] = "healthy" => x \in witnessed["healthy"]
        /\ result[x] = "problem" => x \in witnessed["unhealthy"]
        /\ result[x] = "raised" => x \in malformed

IInv == TypeOK /\ ResultsAreWitnessed /\ AnswersAreWitnessed

LEMMA InitIInv == Init => IInv
<1> SUFFICES ASSUME Init PROVE IInv
  OBVIOUS
<1>1. TypeOK
  <2>1. 0 \in 0..Threshold
    BY GatewayConstants
  <2>2. malformed \subseteq Peer
    BY DEF Init
  <2>3. witnessed \in [{"healthy", "unhealthy"} -> SUBSET Peer]
    BY DEF Init
  <2> QED
    BY <2>1, <2>2, <2>3 DEF Init, TypeOK
<1>2. ResultsAreWitnessed /\ AnswersAreWitnessed
  BY DEF Init, ResultsAreWitnessed, AnswersAreWitnessed
<1> QED
  BY <1>1, <1>2 DEF IInv

(* What the kubelet does with a failed or a successful probe is well typed.  *)
LEMMA ProbesAreTyped ==
  ASSUME TypeOK, ProbeSucceeds \/ ProbeFails \/ UNCHANGED <<failures, rotation>>
  PROVE  failures' \in 0..Threshold /\ rotation' \in BOOLEAN
<1>1. failures' \in 0..Threshold
  <2>1. failures \in 0..Threshold
    BY DEF TypeOK
  <2>2. CASE ProbeFails
    <3>1. failures' = IF failures < Threshold THEN failures + 1 ELSE failures
      BY <2>2, Zenon DEF ProbeFails
    <3> QED
      BY <2>1, <3>1, GatewayConstants
  <2>3. CASE ProbeSucceeds
    <3>1. failures' = 0
      BY <2>3, Zenon DEF ProbeSucceeds
    <3> QED
      BY <3>1, GatewayConstants
  <2>4. CASE UNCHANGED <<failures, rotation>>
    BY <2>1, <2>4
  <2> QED
    BY <2>2, <2>3, <2>4
<1>2. rotation' \in {rotation, TRUE, FALSE}
  <2>1. CASE ProbeFails
    <3>1. CASE failures' < Threshold
      BY <2>1, <3>1, Zenon DEF ProbeFails
    <3>2. CASE ~ (failures' < Threshold)
      BY <2>1, <3>2, Zenon DEF ProbeFails
    <3> QED
      BY <3>1, <3>2
  <2>2. CASE ProbeSucceeds
    BY <2>2, Zenon DEF ProbeSucceeds
  <2>3. CASE UNCHANGED <<failures, rotation>>
    <3>1. rotation' = rotation
      BY <2>3
    <3> QED
      BY <3>1, Zenon
  <2> QED
    BY <2>1, <2>2, <2>3
<1>3. rotation \in {TRUE, FALSE}
  BY Zenon DEF TypeOK
<1>4. rotation' \in {TRUE, FALSE}
  BY <1>2, <1>3, Zenon
<1> QED
  BY <1>1, <1>4, Zenon

(* The states of the peers show up in the history that begins or goes on.    *)
LEMMA SeenCovers ==
  ASSUME NEW state, NEW x \in Peer
  PROVE  /\ Seen(state) \in [{"healthy", "unhealthy"} -> SUBSET Peer]
         /\ x \in Seen(state)[IF state[x] \in {"up", "slow"} THEN "healthy" ELSE "unhealthy"]
  BY DEF Seen

(* Each of the gateway's, the kubelet's and the peers' steps keeps IInv.     *)
LEMMA NextKeepsIInv == IInv /\ [Next]_vars => IInv'
<1> SUFFICES ASSUME IInv, [Next]_vars PROVE IInv'
  OBVIOUS
<1>1. TypeOK /\ ResultsAreWitnessed /\ AnswersAreWitnessed
  BY DEF IInv
<1>2. CASE Check
  <2>1. TypeOK'
    BY <1>1, <1>2 DEF TypeOK, Check, Seen
  <2>2. ResultsAreWitnessed'
    BY <1>2, SeenCovers DEF ResultsAreWitnessed, Check, Healthy
  <2>3. AnswersAreWitnessed'
    BY <1>2 DEF AnswersAreWitnessed, Check
  <2> QED
    BY <2>1, <2>2, <2>3 DEF IInv
<1>3. CASE Answer
  <2>1. /\ answer' = Verdict /\ request' = "none"
        /\ UNCHANGED <<peer, malformed, result, witnessed>>
    BY <1>3 DEF Answer
  <2>2. failures' \in 0..Threshold /\ rotation' \in BOOLEAN
    BY <1>1, <1>3, ProbesAreTyped DEF Answer
  <2>3. Verdict \in {"ready", "not ready", "error"}
    BY DEF Verdict
  <2>4. TypeOK'
    BY <1>1, <2>1, <2>2, <2>3 DEF TypeOK
  <2>5. Verdict = "ready" => witnessed["healthy"] = Peer
    <3> SUFFICES ASSUME Verdict = "ready" PROVE witnessed["healthy"] = Peer
      OBVIOUS
    <3>1. \A x \in Peer : result[x] = "healthy"
      BY <1>1, <1>3 DEF Answer, Gathered, Verdict, TypeOK
    <3>2. \A x \in Peer : x \in witnessed["healthy"]
      BY <1>1, <1>3, <3>1 DEF Answer, ResultsAreWitnessed
    <3> QED
      BY <1>1, <3>2 DEF TypeOK
  <2>6. Verdict = "not ready" => witnessed["unhealthy"] # {}
    BY <1>1, <1>3 DEF Answer, Verdict, ResultsAreWitnessed
  <2>7. AnswersAreWitnessed'
    BY <2>1, <2>5, <2>6 DEF AnswersAreWitnessed
  <2>8. ResultsAreWitnessed'
    BY <2>1 DEF ResultsAreWitnessed
  <2> QED
    BY <2>4, <2>7, <2>8 DEF IInv
<1>4. CASE GivesUp
  <2>1. failures' \in 0..Threshold /\ rotation' \in BOOLEAN
    BY <1>1, <1>4, ProbesAreTyped DEF GivesUp
  <2>2. TypeOK'
    BY <1>1, <1>4, <2>1 DEF TypeOK, GivesUp
  <2>3. ResultsAreWitnessed'
    BY <1>1, <1>4 DEF ResultsAreWitnessed, GivesUp, Healthy
  <2>4. AnswersAreWitnessed'
    BY <1>1, <1>4 DEF AnswersAreWitnessed, GivesUp
  <2> QED
    BY <2>2, <2>3, <2>4 DEF IInv
<1>5. ASSUME NEW x \in Peer, PeerHealthy(x) PROVE IInv'
  <2>1. TypeOK'
    BY <1>1, <1>5 DEF TypeOK, PeerHealthy
  <2>2. ResultsAreWitnessed'
    BY <1>1, <1>5 DEF ResultsAreWitnessed, PeerHealthy, Healthy, TypeOK
  <2>3. AnswersAreWitnessed'
    BY <1>1, <1>5 DEF AnswersAreWitnessed, PeerHealthy
  <2> QED
    BY <2>1, <2>2, <2>3 DEF IInv
<1>6. ASSUME NEW x \in Peer, PeerChanges(x) PROVE IInv'
  <2>1. /\ \A v \in {"healthy", "unhealthy"} :
              witnessed'[v] = witnessed[v] \cup Seen(peer')[v]
        /\ witnessed' \in [{"healthy", "unhealthy"} -> SUBSET Peer]
    BY <1>1, <1>6 DEF TypeOK, PeerChanges, Seen
  <2>2. /\ peer' \in [Peer -> PeerState]
        /\ UNCHANGED <<malformed, request, result, answer, failures, rotation>>
    BY <1>1, <1>6 DEF TypeOK, PeerChanges
  <2>3. TypeOK'
    BY <1>1, <2>1, <2>2 DEF TypeOK
  <2>4. ResultsAreWitnessed'
    BY <1>1, <2>1, <2>2, SeenCovers DEF ResultsAreWitnessed, Healthy
  <2>5. AnswersAreWitnessed'
    <3>1. /\ answer = "ready" => witnessed'["healthy"] = Peer
          /\ answer = "not ready" => witnessed'["unhealthy"] # {}
      BY <1>1, <2>1 DEF AnswersAreWitnessed
    <3> QED
      BY <2>2, <3>1 DEF AnswersAreWitnessed
  <2> QED
    BY <2>3, <2>4, <2>5 DEF IInv
<1>7. CASE UNCHANGED vars
  BY <1>1, <1>7 DEF vars, IInv, TypeOK, ResultsAreWitnessed, AnswersAreWitnessed, Healthy
<1> QED
  BY <1>2, <1>3, <1>4, <1>5, <1>6, <1>7 DEF Next

LEMMA Invariance == Spec => []IInv
  BY InitIInv, NextKeepsIInv, PTL DEF Spec

(* Type correctness of the gateway, its peers and its kubelet.               *)
THEOREM TypeCorrect == Spec => []TypeOK
<1>1. IInv => TypeOK
  BY DEF IInv
<1> QED
  BY <1>1, Invariance, PTL

(* No answer without evidence from its own request.                          *)
THEOREM NoAnswerWithoutEvidence == Spec => []AnswersAreWitnessed
<1>1. IInv => AnswersAreWitnessed
  BY DEF IInv
<1> QED
  BY <1>1, Invariance, PTL

(* A probe counts as failed for a peer that was not healthy in its course, is *)
(* slower than the kubelet waits, or cannot be asked.                        *)
LEMMA FailureHasCause ==
    ASSUME IInv, Next, failures' > failures
    PROVE  malformed # {} \/ witnessed["unhealthy"] # {} \/ \E x \in Peer : peer[x] = "slow"
<1>1. TypeOK /\ ResultsAreWitnessed /\ failures \in Nat
  <2>1. failures \in 0..Threshold
    BY DEF IInv, TypeOK
  <2> QED
    BY <2>1, GatewayConstants DEF IInv
<1>2. CASE Answer
  <2>1. request # "none" /\ (failures' = 0 \/ Verdict # "ready" \/ failures' = failures)
    BY <1>2, Zenon DEF Answer, ProbeSucceeds
  <2>2. Verdict # "ready"
    BY <1>1, <2>1
  <2>3. PICK x \in Peer : result[x] \in {"raised", "problem"}
    BY <2>2 DEF Verdict
  <2> QED
    BY <1>1, <2>1, <2>3 DEF ResultsAreWitnessed
<1>3. CASE GivesUp
  <2>1. PICK x \in Peer : result[x] = "pending" /\ peer[x] \in {"slow", "hung"}
    BY <1>3, Zenon DEF GivesUp
  <2>2. request # "none"
    BY <1>3, Zenon DEF GivesUp
  <2>3. CASE peer[x] = "hung"
    BY <1>1, <2>2, <2>3 DEF ResultsAreWitnessed, Healthy
  <2> QED
    BY <2>1, <2>3
<1>4. CASE Check \/ \E x \in Peer : PeerHealthy(x) \/ PeerChanges(x)
  <2>1. failures' = failures
    BY <1>4, Zenon DEF Check, PeerHealthy, PeerChanges
  <2> QED
    BY <1>1, <2>1
<1> QED
  BY <1>2, <1>3, <1>4, Zenon DEF Next

(* Only an answer "ready" in time brings the pod into rotation.              *)
LEMMA EntryHasCause ==
    ASSUME IInv, Next, rotation', ~ rotation
    PROVE  witnessed["healthy"] = Peer
<1>1. CASE Answer
  <2>1. Verdict = "ready"
    BY <1>1, Zenon DEF Answer, ProbeFails
  <2>2. IInv' /\ answer' = "ready" /\ witnessed' = witnessed
    BY <1>1, <2>1, NextKeepsIInv, Zenon DEF Answer
  <2> QED
    BY <2>2 DEF IInv, AnswersAreWitnessed
<1>2. CASE GivesUp
  BY <1>2, Zenon DEF GivesUp, ProbeFails
<1>3. CASE Check \/ \E x \in Peer : PeerHealthy(x) \/ PeerChanges(x)
  BY <1>3, Zenon DEF Check, PeerHealthy, PeerChanges
<1> QED
  BY <1>1, <1>2, <1>3, Zenon DEF Next

(* The pod is moved for what its peers did during the probe that counts.     *)
THEOREM RotationFollowsThePeers == Spec => RotationHasCause
<1> DEFINE Cause ==
      /\ rotation' /\ ~ rotation => witnessed["healthy"] = Peer
      /\ failures' > failures =>
           malformed # {} \/ witnessed["unhealthy"] # {} \/ \E x \in Peer : peer[x] = "slow"
<1>1. IInv /\ [Next]_vars => [Cause]_vars
  BY FailureHasCause, EntryHasCause, Zenon DEF vars
<1> QED
  BY <1>1, Invariance, PTL DEF Spec, RotationHasCause
=============================================================================
