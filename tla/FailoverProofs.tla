-------------------------- MODULE FailoverProofs ---------------------------
(***************************************************************************)
(* Proofs, for any number of replicas, components and faults and for all   *)
(* deadlines that NewLeaderElector accepts, that the replica that leads is *)
(* the one in the Lease and that no reconcile begins on a replica that the *)
(* election has told to stop.                                              *)
(***************************************************************************)
EXTENDS Failover, TLAPS

Bools    == [Replicas -> BOOLEAN]
Sessions == [Replicas -> [runCancel : BOOLEAN, leader : BOOLEAN,
                          startedLeading : BOOLEAN]]

(* The end of a process leaves its variables at their initial values.      *)
LEMMA ExitType ==
    ASSUME TypeOK, NEW r \in Replicas, Exit(r)
    PROVE  /\ proc' \in [Replicas -> {"down", "starting", "up", "stopping"}]
           /\ left' \in [Replicas -> 0 .. Len(Components)]
           /\ healthy' \in Bools /\ ctxDone' \in Bools /\ runDone' \in Bools
           /\ elector' \in [Replicas -> {"off", "campaign", "lead", "release",
                                         "cancel", "callback", "ended"}]
           /\ session' \in Sessions
           /\ run' \in [Replicas -> {"none", "spawned", "elected",
                                     "coordinate", "drain", "returned"}]
           /\ busy' \in Bools
  <1>1. Len(Components) \in Nat
    BY FailoverAssumption
  <1>2. NoSession \in [runCancel : BOOLEAN, leader : BOOLEAN,
                       startedLeading : BOOLEAN]
    BY DEF NoSession
  <1> QED
    BY <1>1, <1>2 DEF TypeOK, Exit, Bools, Sessions

(* A fault is counted against its bound.                                   *)
LEMMA FaultType ==
    ASSUME TypeOK, Fault
    PROVE  faults' \in 0 .. MaxFaults
  BY FailoverAssumption DEF TypeOK, Fault

(* Every step keeps the types.                                             *)
THEOREM TypeCorrect == Spec => []TypeOK
<1>0. Len(Components) \in Nat \ {0} /\ MaxFaults \in Nat
      /\ LeaseDuration \in Nat
  BY FailoverAssumption
<1>1. Init => TypeOK
  BY <1>0 DEF Init, TypeOK, NoSession
<1>2. ASSUME TypeOK, [Next]_vars
      PROVE  TypeOK'
  <2> USE <1>0, <1>2
  <2> USE DEF TypeOK, lease, manage, elect, callbk
  <2>1. CASE Tick
    BY <2>1 DEF Tick
  <2>2. ASSUME NEW r \in Replicas, Boot(r) PROVE TypeOK'
    BY <2>2 DEF Boot
  <2>3. ASSUME NEW r \in Replicas, StartFails(r) PROVE TypeOK'
    BY <2>3, ExitType, FaultType DEF StartFails, Bools, Sessions
  <2>4. ASSUME NEW r \in Replicas, StartElection(r) PROVE TypeOK'
    BY <2>4 DEF StartElection
  <2>5. ASSUME NEW r \in Replicas, StartComponent(r) PROVE TypeOK'
    <3>1. healthy' \in Bools
      BY <2>5, Zenon DEF StartComponent, Bools
    <3> QED
      BY <2>5, <3>1 DEF StartComponent, Bools
  <2>6. ASSUME NEW r \in Replicas, AllStarted(r) PROVE TypeOK'
    BY <2>6 DEF AllStarted
  <2>7. ASSUME NEW r \in Replicas, StopComponent(r) PROVE TypeOK'
    <3>1. healthy' \in Bools
      BY <2>7, Zenon DEF StopComponent, Bools
    <3> QED
      BY <2>7, <3>1 DEF StopComponent, Bools
  <2>8. ASSUME NEW r \in Replicas, AllStopped(r) PROVE TypeOK'
    BY <2>8, ExitType DEF AllStopped, Bools, Sessions
  <2>9. ASSUME NEW r \in Replicas, Signal(r), UNCHANGED <<lease, reach>>,
               faults' \in 0 .. MaxFaults
        PROVE  TypeOK'
    <3>1. CASE Exit(r)
      BY <2>9, <3>1, ExitType DEF Bools, Sessions
    <3>2. CASE ~Exit(r)
      BY <2>9, <3>2 DEF Signal
    <3> QED
      BY <3>1, <3>2
  <2>10. ASSUME NEW r \in Replicas, ProbeFails(r) PROVE TypeOK'
    BY <2>9, <2>10 DEF ProbeFails
  <2>11. ASSUME NEW r \in Replicas, Evict(r) PROVE TypeOK'
    BY <2>9, <2>11, FaultType DEF Evict
  <2>12. ASSUME NEW r \in Replicas, DeadlinePassed(r) PROVE TypeOK'
    BY <2>12, ExitType DEF DeadlinePassed, Bools, Sessions
  <2>13. ASSUME NEW r \in Replicas, Crash(r) PROVE TypeOK'
    BY <2>13, ExitType, FaultType DEF Crash, Bools, Sessions
  <2>14. ASSUME NEW r \in Replicas, ElectorStep(r) PROVE TypeOK'
    <3>1. CASE Acquire(r)
      BY <3>1 DEF Acquire
    <3>2. CASE GiveUp(r)
      BY <3>2 DEF GiveUp
    <3>3. CASE Renew(r)
      BY <3>3 DEF Renew
    <3>4. CASE RenewEnds(r)
      BY <3>4 DEF RenewEnds
    <3>5. CASE Release(r)
      BY <3>5 DEF Release
    <3>6. CASE CancelRun(r)
      BY <3>6 DEF CancelRun
    <3>7. CASE OnStoppedLeading(r)
      <4>0. session' = session \/ session' = [session EXCEPT ![r] = NoSession]
        BY <3>7 DEF OnStoppedLeading
      <4>3. NoSession \in [runCancel : BOOLEAN, leader : BOOLEAN,
                           startedLeading : BOOLEAN]
        BY DEF NoSession
      <4>1. session' \in Sessions
        BY <4>0, <4>3 DEF Sessions
      <4>2. runDone' \in Bools
        BY <3>7, Zenon DEF OnStoppedLeading, Bools
      <4> QED
        BY <3>7, <4>1, <4>2 DEF OnStoppedLeading, Sessions, Bools
    <3> QED
      BY <2>14, <3>1, <3>2, <3>3, <3>4, <3>5, <3>6, <3>7 DEF ElectorStep
  <2>15. ASSUME NEW r \in Replicas, RunStep(r) PROVE TypeOK'
    <3>1. CASE OnStartedLeading(r)
      <4>1. session' = [session EXCEPT ![r] = [@ EXCEPT !.runCancel = TRUE,
                                                        !.leader = TRUE]]
        BY <3>1 DEF OnStartedLeading
      <4>2. session' \in Sessions
        BY <4>1 DEF Sessions
      <4> QED
        BY <3>1, <4>2 DEF OnStartedLeading, Sessions
    <3>2. CASE Coordinate(r)
      BY <3>2 DEF Coordinate
    <3>3. CASE LeadershipLost(r)
      BY <3>3 DEF LeadershipLost
    <3>4. CASE Drained(r)
      BY <3>4 DEF Drained
    <3> QED
      BY <2>15, <3>1, <3>2, <3>3, <3>4 DEF RunStep
  <2>16. ASSUME NEW r \in Replicas, BeginReconcile(r) PROVE TypeOK'
    BY <2>16 DEF BeginReconcile
  <2>20. ASSUME NEW r \in Replicas, EndReconcile(r) PROVE TypeOK'
    BY <2>20 DEF EndReconcile
  <2>17. ASSUME NEW r \in Replicas, CutOff(r) PROVE TypeOK'
    BY <2>17, FaultType DEF CutOff
  <2>18. ASSUME NEW r \in Replicas, Reconnect(r) PROVE TypeOK'
    BY <2>18 DEF Reconnect
  <2>19. CASE UNCHANGED vars
    BY <2>19 DEF vars
  <2> QED
    BY <2>1, <2>2, <2>3, <2>4, <2>5, <2>6, <2>7, <2>8, <2>10, <2>11, <2>12,
       <2>13, <2>14, <2>15, <2>16, <2>17, <2>18, <2>19, <2>20
       DEF Next, ManagerStep
<1> QED
  BY <1>1, <1>2, PTL DEF Spec

-----------------------------------------------------------------------------
(* The leader is the one in the Lease and, because it stops renewing at    *)
(* its own deadline, the Lease is never old enough for anybody else.       *)
LeaderInTime ==
    \A r \in Replicas :
        elector[r] = "lead" => holder = r /\ age <= RenewDeadline

(* A replica whose process ends, stops leading or never led disturbs       *)
(* nobody's Lease.                                                         *)
LEMMA NoNewLeader ==
    ASSUME TypeOK, LeaderInTime, UNCHANGED lease,
           \A r \in Replicas : elector'[r] = "lead" => elector[r] = "lead"
    PROVE  LeaderInTime'
  BY DEF LeaderInTime, lease

(* The end of a process makes nobody the leader.                           *)
LEMMA ExitLeadsNot ==
    ASSUME TypeOK, NEW r \in Replicas, Exit(r)
    PROVE  \A q \in Replicas : elector'[q] = "lead" => elector[q] = "lead"
  BY DEF TypeOK, Exit

(* Two replicas never lead at once, whatever the deadlines are: renew      *)
(* gives up after RenewDeadline, others wait for LeaseDuration.            *)
THEOREM LeaseHeld == Spec => []LeaderHoldsLease
<1>1. Init => LeaderInTime
  BY DEF Init, LeaderInTime
<1>2. ASSUME TypeOK, LeaderInTime, [Next]_vars
      PROVE  LeaderInTime'
  <2> USE <1>2
  <2>1. CASE Tick
    BY <2>1, FailoverAssumption
       DEF Tick, OnTime, Overdue, LeaderInTime, elect, TypeOK
  <2>2. ASSUME NEW r \in Replicas,
               \/ Boot(r) \/ StartComponent(r) \/ AllStarted(r)
               \/ StopComponent(r) \/ RunStep(r) \/ BeginReconcile(r)
               \/ EndReconcile(r) \/ CutOff(r) \/ Reconnect(r)
        PROVE  LeaderInTime'
    <3>1. UNCHANGED <<lease, elector>>
      BY <2>2 DEF Boot, StartComponent, AllStarted, StopComponent, RunStep,
                  OnStartedLeading, Coordinate, LeadershipLost, Drained,
                  BeginReconcile, EndReconcile, CutOff, Reconnect, elect
    <3> QED
      BY <3>1, NoNewLeader
  <2>3. ASSUME NEW r \in Replicas,
               \/ StartFails(r) \/ AllStopped(r) \/ DeadlinePassed(r)
               \/ Crash(r) \/ ProbeFails(r) \/ Evict(r)
        PROVE  LeaderInTime'
    <3>1. UNCHANGED lease /\ (Exit(r) \/ UNCHANGED elector)
      BY <2>3 DEF StartFails, AllStopped, DeadlinePassed, Crash, ProbeFails,
                  Evict, Signal, elect, lease
    <3> QED
      BY <3>1, ExitLeadsNot, NoNewLeader
  <2>4. ASSUME NEW r \in Replicas,
               \/ StartElection(r) \/ GiveUp(r) \/ RenewEnds(r)
               \/ CancelRun(r) \/ OnStoppedLeading(r)
        PROVE  LeaderInTime'
    <3>1. /\ UNCHANGED lease
          /\ \A q \in Replicas : elector'[q] = "lead" => elector[q] = "lead"
      BY <2>4 DEF StartElection, GiveUp, RenewEnds, CancelRun,
                  OnStoppedLeading, TypeOK, lease
    <3> QED
      BY <3>1, NoNewLeader
  <2>5. ASSUME NEW r \in Replicas, Acquire(r) PROVE LeaderInTime'
    <3>1. \A q \in Replicas \ {r} : elector[q] # "lead"
      BY <2>5, FailoverAssumption DEF Acquire, LeaderInTime, TypeOK
    <3> QED
      BY <2>5, <3>1, FailoverAssumption DEF Acquire, LeaderInTime, TypeOK
  <2>6. ASSUME NEW r \in Replicas, Renew(r) PROVE LeaderInTime'
    BY <2>6, FailoverAssumption DEF Renew, LeaderInTime, elect
  <2>7. ASSUME NEW r \in Replicas, Release(r) PROVE LeaderInTime'
    BY <2>7 DEF Release, LeaderInTime, TypeOK, lease
  <2>8. CASE UNCHANGED vars
    BY <2>8, NoNewLeader DEF vars, elect
  <2> QED
    BY <2>1, <2>2, <2>3, <2>4, <2>5, <2>6, <2>7, <2>8
       DEF Next, ManagerStep, ElectorStep
<1>3. LeaderInTime => LeaderHoldsLease
  BY DEF LeaderInTime, LeaderHoldsLease
<1> QED
  BY <1>1, <1>2, <1>3, TypeCorrect, PTL DEF Spec

-----------------------------------------------------------------------------
(* The goroutine of OnStartedLeading exists only in the session it was     *)
(* spawned in, and once that session is over its context is cancelled,     *)
(* whether it has run by then or not.                                      *)
SessionBound ==
    \A r \in Replicas : run[r] # "none" =>
        \/ elector[r] \in {"lead", "release", "cancel"}
        \/ elector[r] \in {"callback", "ended"} /\ ctxDone[r]

(* A process that has ended has no such goroutine.                         *)
LEMMA ExitBound ==
    ASSUME TypeOK, SessionBound, NEW r \in Replicas, Exit(r)
    PROVE  SessionBound'
  BY DEF TypeOK, SessionBound, Exit

(* No reconcile begins after the election has told the replica to stop:    *)
(* not even when OnStoppedLeading runs first and finds nothing to cancel.  *)
THEOREM WorkEndsWithTheLease == Spec => NoWorkAfterLoss
<1>1. Init => SessionBound
  BY DEF Init, SessionBound
<1>2. ASSUME TypeOK, SessionBound, [Next]_vars
      PROVE  SessionBound'
  <2> USE <1>2
  <2>1. CASE Tick \/ UNCHANGED vars
    BY <2>1 DEF Tick, vars, elect, callbk, SessionBound
  <2>2. ASSUME NEW r \in Replicas,
               \/ Boot(r) \/ StartComponent(r) \/ AllStarted(r)
               \/ StopComponent(r) \/ BeginReconcile(r) \/ EndReconcile(r)
               \/ CutOff(r) \/ Reconnect(r) \/ Renew(r)
        PROVE  SessionBound'
    <3>1. UNCHANGED <<elector, ctxDone, run>>
      BY <2>2 DEF Boot, StartComponent, AllStarted, StopComponent,
                  BeginReconcile, EndReconcile, CutOff, Reconnect, Renew,
                  elect, callbk
    <3> QED
      BY <3>1 DEF SessionBound
  <2>3. ASSUME NEW r \in Replicas,
               \/ StartFails(r) \/ AllStopped(r) \/ DeadlinePassed(r)
               \/ Crash(r) \/ ProbeFails(r) \/ Evict(r)
        PROVE  SessionBound'
    <3>1. Exit(r) \/ UNCHANGED <<elector, ctxDone, run>>
      BY <2>3 DEF StartFails, AllStopped, DeadlinePassed, Crash, ProbeFails,
                  Evict, Signal, elect, callbk
    <3> QED
      BY <3>1, ExitBound DEF SessionBound
  <2>4. ASSUME NEW r \in Replicas, StartElection(r) \/ GiveUp(r)
        PROVE  SessionBound'
    <3>1. run[r] = "none" /\ UNCHANGED <<run, ctxDone>>
      BY <2>4 DEF StartElection, GiveUp, SessionBound, callbk
    <3>2. \A q \in Replicas \ {r} : elector'[q] = elector[q]
      BY <2>4 DEF StartElection, GiveUp, TypeOK
    <3> QED
      BY <3>1, <3>2 DEF SessionBound
  <2>5. ASSUME NEW r \in Replicas, Acquire(r) PROVE SessionBound'
    BY <2>5 DEF Acquire, TypeOK, SessionBound
  <2>6. ASSUME NEW r \in Replicas, RenewEnds(r) \/ Release(r)
        PROVE  SessionBound'
    <3>1. /\ elector[r] \in {"lead", "release"}
          /\ UNCHANGED <<run, ctxDone>>
      BY <2>6 DEF RenewEnds, Release, callbk
    <3>2. /\ elector'[r] \in {"release", "cancel"}
          /\ \A q \in Replicas \ {r} : elector'[q] = elector[q]
      BY <2>6 DEF RenewEnds, Release, TypeOK
    <3> QED
      BY <3>1, <3>2 DEF SessionBound
  <2>7. ASSUME NEW r \in Replicas, CancelRun(r) PROVE SessionBound'
    BY <2>7 DEF CancelRun, TypeOK, SessionBound, callbk
  <2>8. ASSUME NEW r \in Replicas, OnStoppedLeading(r) PROVE SessionBound'
    BY <2>8 DEF OnStoppedLeading, TypeOK, SessionBound
  <2>9. ASSUME NEW r \in Replicas, RunStep(r) PROVE SessionBound'
    <3>1. /\ UNCHANGED elect
          /\ \A q \in Replicas : run'[q] # "none" => run[q] # "none"
      BY <2>9 DEF RunStep, OnStartedLeading, Coordinate, LeadershipLost,
                  Drained, TypeOK
    <3> QED
      BY <3>1 DEF SessionBound, elect
  <2> QED
    BY <2>1, <2>2, <2>3, <2>4, <2>5, <2>6, <2>7, <2>8, <2>9
       DEF Next, ManagerStep, ElectorStep
<1>3. ASSUME TypeOK, SessionBound, [Next]_vars, NEW r \in Replicas,
             ~busy[r], busy'[r]
      PROVE  elector[r] \in {"lead", "release", "cancel"}
  <2> USE <1>3
  <2>1. BeginReconcile(r)
    <3>1. ASSUME NEW q \in Replicas, Exit(q) PROVE FALSE
      BY <3>1 DEF Exit, TypeOK
    <3>2. ASSUME NEW q \in Replicas, BeginReconcile(q) PROVE q = r
      BY <3>2 DEF BeginReconcile, TypeOK
    <3>3. ASSUME NEW q \in Replicas, EndReconcile(q) PROVE FALSE
      BY <3>3 DEF EndReconcile, TypeOK
    <3>4. busy' # busy
      OBVIOUS
    <3> QED
      BY <3>1, <3>2, <3>3, <3>4
         DEF Next, vars, Tick, Boot, StartFails, StartElection, ManagerStep,
             StartComponent, AllStarted, StopComponent, AllStopped,
             ProbeFails, Evict, Signal, DeadlinePassed, Crash, ElectorStep,
             Acquire, GiveUp, Renew, RenewEnds, Release, CancelRun,
             OnStoppedLeading, RunStep, OnStartedLeading, Coordinate,
             LeadershipLost, Drained, CutOff, Reconnect
  <2> QED
    BY <2>1 DEF BeginReconcile, Cancelled, SessionBound
<1>4. ASSUME TypeOK, SessionBound, [Next]_vars
      PROVE  [\A r \in Replicas :
                 ~busy[r] /\ busy'[r] =>
                     elector[r] \in {"lead", "release", "cancel"}]_vars
  BY <1>3, <1>4
<1> QED
  BY <1>1, <1>2, <1>4, TypeCorrect, PTL DEF Spec, NoWorkAfterLoss
=============================================================================
