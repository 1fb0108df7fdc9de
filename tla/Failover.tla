------------------------------ MODULE Failover ------------------------------
(***************************************************************************)
(* The replicas of the runtime: the process manager that starts and stops  *)
(* the components of each (pkg/process), the leader election that lets one *)
(* of them coordinate (pkg/runtime/leader, cmd/internal/runtime.go), and   *)
(* the health the kubelet probes (pkg/health).                             *)
(*                                                                         *)
(* A replica that loses the lease does not campaign again: RunOrDie        *)
(* returns.  It rejoins because Coordinate reports it unhealthy and the    *)
(* kubelet restarts it.  The election itself is client-go's; its order of  *)
(* release, cancel and callback is external here.                          *)
(***************************************************************************)
EXTENDS Naturals, Sequences

CONSTANTS
    Replicas,
    Components,     \* the names of the components, in start order
    HealthServer,   \* the name of the one that answers the probes
    LeaseDuration, RenewDeadline, RetryPeriod,
    MaxFaults       \* bound: crashes, evictions, failed starts, and
                    \* times a replica is cut off the API server

NoOne == "no one"

\* The last conjunct of times is what NewLeaderElector insists on.
ASSUME FailoverAssumption ==
    /\ NoOne \notin Replicas
    /\ Components \in Seq(STRING) \ {<<>>}
    /\ {LeaseDuration, RenewDeadline, RetryPeriod, MaxFaults} \subseteq Nat
    /\ 0 < RetryPeriod /\ RetryPeriod < RenewDeadline
    /\ RenewDeadline < LeaseDuration

VARIABLES
    holder,     \* the identity in the Lease object
    age,        \* the time since it was last renewed
    reach,      \* the replicas that reach the API server
    proc,       \* proc[r]: the process, and the manager's phase in it
    left,       \* left[r]: the components still to start, or to stop
    healthy,    \* healthy[r]: the answer of the liveness probe
    elector,    \* elector[r]: the goroutine in RunOrDie
    ctxDone,    \* ctxDone[r]: the context of OnStartedLeading is cancelled
    runDone,    \* runDone[r]: runCancel was called
    session,    \* session[r]: what the callbacks keep in LeaderElection
    run,        \* run[r]: the goroutine of OnStartedLeading
    busy,       \* busy[r]: some worker is inside a reconcile
    faults

lease  == <<holder, age>>
manage == <<proc, left, healthy>>
elect  == <<elector, ctxDone>>
callbk == <<runDone, session, run>>
vars   == <<lease, reach, manage, elect, callbk, busy, faults>>

NoSession == [runCancel |-> FALSE, leader |-> FALSE, startedLeading |-> FALSE]

\* Every variable keeps the type of the field or local it stands for.
TypeOK ==
    /\ holder \in Replicas \cup {NoOne}
    /\ age \in 0 .. LeaseDuration
    /\ reach \subseteq Replicas
    /\ proc \in [Replicas -> {"down", "starting", "up", "stopping"}]
    /\ left \in [Replicas -> 0 .. Len(Components)]
    /\ healthy \in [Replicas -> BOOLEAN]
    /\ elector \in [Replicas -> {"off", "campaign", "lead", "release",
                                 "cancel", "callback", "ended"}]
    /\ {ctxDone, runDone} \subseteq [Replicas -> BOOLEAN]
    /\ session \in [Replicas -> [runCancel : BOOLEAN, leader : BOOLEAN,
                                 startedLeading : BOOLEAN]]
    /\ run \in [Replicas -> {"none", "spawned", "elected", "coordinate",
                             "drain", "returned"}]
    /\ busy \in [Replicas -> BOOLEAN]
    /\ faults \in 0 .. MaxFaults

Init ==
    /\ holder = NoOne /\ age = 0 /\ reach = Replicas
    /\ proc = [r \in Replicas |-> "down"]
    /\ left = [r \in Replicas |-> 0]
    /\ healthy = [r \in Replicas |-> FALSE]
    /\ elector = [r \in Replicas |-> "off"]
    /\ ctxDone = [r \in Replicas |-> FALSE]
    /\ runDone = ctxDone /\ busy = ctxDone
    /\ session = [r \in Replicas |-> NoSession]
    /\ run = [r \in Replicas |-> "none"]
    /\ faults = 0

Fault == faults < MaxFaults /\ faults' = faults + 1

\* mCtx, the parent of every context of the process, is cancelled.
Stopping(r) == proc[r] = "stopping"

\* Mutant of Cancelled: run gets a context of its own.
CancelledByHandOnly(r) == runDone[r]

\* runCtx, which OnStartedLeading derives from the context it is given.
Cancelled(r) == Stopping(r) \/ ctxDone[r] \/ runDone[r]

\* The process ends, and with it its goroutines; the Lease stays.
Exit(r) ==
    /\ proc' = [proc EXCEPT ![r] = "down"]
    /\ left' = [left EXCEPT ![r] = 0]
    /\ healthy' = [healthy EXCEPT ![r] = FALSE]
    /\ elector' = [elector EXCEPT ![r] = "off"]
    /\ ctxDone' = [ctxDone EXCEPT ![r] = FALSE]
    /\ runDone' = [runDone EXCEPT ![r] = FALSE]
    /\ session' = [session EXCEPT ![r] = NoSession]
    /\ run' = [run EXCEPT ![r] = "none"]
    /\ busy' = [busy EXCEPT ![r] = FALSE]

-----------------------------------------------------------------------------
(* The process manager: Start, then gracefulShutdown.                      *)

\* The kubelet starts the container.
Boot(r) ==
    /\ proc[r] = "down"
    /\ proc' = [proc EXCEPT ![r] = "starting"]
    /\ left' = [left EXCEPT ![r] = Len(Components)]
    /\ UNCHANGED <<lease, reach, healthy, elect, callbk, busy, faults>>

\* Components start in order; the health server answers from its Start on.
StartComponent(r) ==
    /\ proc[r] = "starting" /\ left[r] > 0
    /\ LET c == Components[Len(Components) - left[r] + 1] IN
           healthy' = [healthy EXCEPT ![r] = @ \/ c = HealthServer]
    /\ left' = [left EXCEPT ![r] = @ - 1]
    /\ UNCHANGED <<lease, reach, proc, elect, callbk, busy, faults>>

\* An error of Start ends the process.
StartFails(r) ==
    /\ proc[r] = "starting" /\ left[r] > 0
    /\ Fault /\ Exit(r)
    /\ UNCHANGED <<lease, reach>>

\* All have started: the hooks run as goroutines and the manager waits for a
\* signal, with the components to stop when it comes.
AllStarted(r) ==
    /\ proc[r] = "starting" /\ left[r] = 0
    /\ proc' = [proc EXCEPT ![r] = "up"]
    /\ left' = [left EXCEPT ![r] = Len(Components)]
    /\ UNCHANGED <<lease, reach, healthy, elect, callbk, busy, faults>>

\* LeaderElection.Start in the post-start hook; after a signal it refuses.
StartElection(r) ==
    /\ proc[r] = "up" /\ elector[r] = "off"
    /\ elector' = [elector EXCEPT ![r] = "campaign"]
    /\ UNCHANGED <<lease, reach, manage, ctxDone, callbk, busy, faults>>

\* SIGTERM or SIGINT: the first one cancels mCtx.  Before gracefulShutdown
\* asks for signals the runtime of the language ends the process.
Signal(r) ==
    \/ /\ proc[r] = "starting" /\ Exit(r)
    \/ /\ proc[r] = "up"
       /\ proc' = [proc EXCEPT ![r] = "stopping"]
       /\ UNCHANGED <<left, healthy, elect, callbk, busy>>

\* The liveness probe fails: the kubelet sends the signal.
ProbeFails(r) ==
    /\ proc[r] = "up" /\ ~healthy[r]
    /\ Signal(r)
    /\ UNCHANGED <<lease, reach, faults>>

\* Somebody else stops the replica, a rolling update for one.
Evict(r) == Signal(r) /\ Fault /\ UNCHANGED <<lease, reach>>

\* The components stop in reverse order; the Shutdown of the health server
\* makes it unhealthy, the others change nothing here.  The coordinator's
\* does nothing: what drains is the goroutine of OnStartedLeading.
StopComponent(r) ==
    /\ Stopping(r) /\ left[r] > 0
    /\ healthy' = [healthy EXCEPT
                      ![r] = @ /\ Components[left[r]] # HealthServer]
    /\ left' = [left EXCEPT ![r] = @ - 1]
    /\ UNCHANGED <<lease, reach, proc, elect, callbk, busy, faults>>

\* The deadline all of them share is found to have passed after one of them.
DeadlinePassed(r) ==
    /\ Stopping(r) /\ left[r] \in 1 .. Len(Components) - 1
    /\ Exit(r)
    /\ UNCHANGED <<lease, reach, faults>>

\* Mutant of AllStopped: gracefulShutdown returns and done is not closed.
AllStoppedSilently(r) ==
    /\ Stopping(r) /\ left[r] = 0
    /\ UNCHANGED vars

\* The event handler is stopped last; done is closed and Wait returns.
AllStopped(r) ==
    /\ Stopping(r) /\ left[r] = 0
    /\ Exit(r)
    /\ UNCHANGED <<lease, reach, faults>>

\* SIGKILL, a panic, a lost node.
Crash(r) ==
    /\ proc[r] # "down"
    /\ Fault /\ Exit(r)
    /\ UNCHANGED <<lease, reach>>

ManagerStep(r) ==
    StartComponent(r) \/ AllStarted(r) \/ StopComponent(r) \/ AllStopped(r)

-----------------------------------------------------------------------------
(* The election: client-go's RunOrDie.                                     *)

\* The Lease is free, expired, or still in the name of this pod: the
\* identity is the host name, which outlives a restart of the container.
Acquire(r) ==
    /\ elector[r] = "campaign" /\ ~Stopping(r) /\ r \in reach
    /\ holder \in {NoOne, r} \/ age = LeaseDuration
    /\ holder' = r /\ age' = 0
    /\ elector' = [elector EXCEPT ![r] = "lead"]
    /\ run' = [run EXCEPT ![r] = "spawned"]
    /\ UNCHANGED <<reach, manage, ctxDone, runDone, session, busy, faults>>

\* acquire gives up when its context ends; OnStoppedLeading is deferred.
GiveUp(r) ==
    /\ elector[r] = "campaign" /\ Stopping(r)
    /\ elector' = [elector EXCEPT ![r] = "callback"]
    /\ UNCHANGED <<lease, reach, manage, ctxDone, callbk, busy, faults>>

Renew(r) ==
    /\ elector[r] = "lead" /\ ~Stopping(r) /\ r \in reach
    /\ holder = r /\ age > 0
    /\ age' = 0
    /\ UNCHANGED <<holder, reach, manage, elect, callbk, busy, faults>>

\* Mutants of Overdue: the leader waits as long as its followers do, or
\* gives up at the first renewal that is due.
OverdueWithTheLease == age >= LeaseDuration
OverdueAtFirstRetry == age >= RetryPeriod

\* renew ends at the renew deadline of leaseConfig ...
Overdue == age >= RenewDeadline

\* ... or with the context.
RenewEnds(r) ==
    /\ elector[r] = "lead" /\ (Overdue \/ Stopping(r))
    /\ elector' = [elector EXCEPT ![r] = "release"]
    /\ UNCHANGED <<lease, reach, manage, ctxDone, callbk, busy, faults>>

\* ReleaseOnCancel: the Lease is given back before anybody is told.
Release(r) ==
    /\ elector[r] = "release"
    /\ IF r \in reach /\ holder = r THEN holder' = NoOne /\ age' = 0
                                    ELSE UNCHANGED lease
    /\ elector' = [elector EXCEPT ![r] = "cancel"]
    /\ UNCHANGED <<reach, manage, ctxDone, callbk, busy, faults>>

\* The deferred cancel of Run.
CancelRun(r) ==
    /\ elector[r] = "cancel"
    /\ ctxDone' = [ctxDone EXCEPT ![r] = TRUE]
    /\ elector' = [elector EXCEPT ![r] = "callback"]
    /\ UNCHANGED <<lease, reach, manage, callbk, busy, faults>>

\* OnStoppedLeading cleans up only what OnStartedLeading is known to have
\* set up; RunOrDie then returns.
OnStoppedLeading(r) ==
    /\ elector[r] = "callback"
    /\ IF session[r].startedLeading
       THEN /\ runDone' = [runDone EXCEPT ![r] = @ \/ session[r].runCancel]
            /\ session' = [session EXCEPT ![r] = NoSession]
       ELSE UNCHANGED <<runDone, session>>
    /\ elector' = [elector EXCEPT ![r] = "ended"]
    /\ UNCHANGED <<lease, reach, manage, ctxDone, run, busy, faults>>

ElectorStep(r) ==
    \/ Acquire(r) \/ GiveUp(r) \/ Renew(r) \/ RenewEnds(r) \/ Release(r)
    \/ CancelRun(r) \/ OnStoppedLeading(r)

-----------------------------------------------------------------------------
(* The goroutine of OnStartedLeading and the workers it coordinates.       *)

\* It may run late, after the lease is lost.
OnStartedLeading(r) ==
    /\ run[r] = "spawned"
    /\ session' = [session EXCEPT ![r].runCancel = TRUE, ![r].leader = TRUE]
    /\ run' = [run EXCEPT ![r] = "elected"]
    /\ UNCHANGED <<lease, reach, manage, elect, runDone, busy, faults>>

\* startedLeading is stored and Coordinate starts the workers.
Coordinate(r) ==
    /\ run[r] = "elected"
    /\ session' = [session EXCEPT ![r].startedLeading = TRUE]
    /\ run' = [run EXCEPT ![r] = "coordinate"]
    /\ UNCHANGED <<lease, reach, manage, elect, runDone, busy, faults>>

\* Coordinate sees its context end, turns unhealthy and drains.
LeadershipLost(r) ==
    /\ run[r] = "coordinate" /\ Cancelled(r)
    /\ healthy' = [healthy EXCEPT ![r] = FALSE]
    /\ run' = [run EXCEPT ![r] = "drain"]
    /\ UNCHANGED <<lease, reach, proc, left, elect, runDone, session, busy,
                   faults>>

\* The drain ends with the last reconcile or, before it, with drainTimeout.
Drained(r) ==
    /\ run[r] = "drain"
    /\ run' = [run EXCEPT ![r] = "returned"]
    /\ UNCHANGED <<lease, reach, manage, elect, runDone, session, busy,
                   faults>>

RunStep(r) ==
    \/ OnStartedLeading(r) \/ Coordinate(r) \/ LeadershipLost(r)
    \/ Drained(r)

\* A worker looks at its context before it takes an item and before it
\* reconciles it; a reconcile that has begun is not interrupted.
BeginReconcile(r) ==
    /\ run[r] \in {"coordinate", "drain", "returned"} /\ ~Cancelled(r)
    /\ ~busy[r]
    /\ busy' = [busy EXCEPT ![r] = TRUE]
    /\ UNCHANGED <<lease, reach, manage, elect, callbk, faults>>

EndReconcile(r) ==
    /\ busy[r]
    /\ busy' = [busy EXCEPT ![r] = FALSE]
    /\ UNCHANGED <<lease, reach, manage, elect, callbk, faults>>

-----------------------------------------------------------------------------
(* The environment.                                                        *)

\* A leader renews every RetryPeriod while it reaches the API server, and
\* its clock keeps time: it stops renewing when the deadline is reached.
OnTime(r) ==
    elector[r] = "lead" =>
        /\ ~Overdue
        /\ r \in reach /\ ~Stopping(r) => age < RetryPeriod

Tick ==
    /\ holder # NoOne /\ age < LeaseDuration
    /\ \A r \in Replicas : OnTime(r)
    /\ age' = age + 1
    /\ UNCHANGED <<holder, reach, manage, elect, callbk, busy, faults>>

CutOff(r) ==
    /\ r \in reach /\ Fault
    /\ reach' = reach \ {r}
    /\ UNCHANGED <<lease, manage, elect, callbk, busy>>

Reconnect(r) ==
    /\ r \notin reach
    /\ reach' = reach \cup {r}
    /\ UNCHANGED <<lease, manage, elect, callbk, busy, faults>>

-----------------------------------------------------------------------------
Next ==
    \/ Tick
    \/ \E r \in Replicas :
          \/ Boot(r) \/ StartFails(r) \/ StartElection(r) \/ ManagerStep(r)
          \/ ProbeFails(r) \/ Evict(r) \/ DeadlinePassed(r) \/ Crash(r)
          \/ ElectorStep(r) \/ RunStep(r)
          \/ BeginReconcile(r) \/ EndReconcile(r)
          \/ CutOff(r) \/ Reconnect(r)

Spec == Init /\ [][Next]_vars

(* Goroutines run, time passes, cut connections heal, and the kubelet      *)
(* starts containers and acts on failed probes.  A deadline need not pass. *)
Fairness ==
    /\ WF_vars(Tick)
    /\ \A r \in Replicas :
          /\ WF_vars(Boot(r)) /\ WF_vars(ManagerStep(r))
          /\ WF_vars(StartElection(r)) /\ WF_vars(ProbeFails(r))
          /\ WF_vars(ElectorStep(r)) /\ WF_vars(RunStep(r))
          /\ WF_vars(EndReconcile(r)) /\ WF_vars(Reconnect(r))

FairSpec == Spec /\ Fairness

-----------------------------------------------------------------------------
(***************************************************************************)
(* Properties                                                              *)
(***************************************************************************)
(* The replica that leads is the one in the Lease, so two never renew at   *)
(* the same time: the deadlines of leaseConfig make the old leader stop    *)
(* before a follower may take over.                                        *)
LeaderHoldsLease == \A r \in Replicas : elector[r] = "lead" => holder = r

(* "a pod that loses it stops them": once the election has told a replica  *)
(* that it is over, no reconcile begins there, not even when the goroutine *)
(* of OnStartedLeading runs only after OnStoppedLeading has found nothing  *)
(* to clean up.  Between the release of the lease and the cancellation of  *)
(* the context one may still begin.                                        *)
NoWorkAfterLoss ==
    [][\A r \in Replicas :
          ~busy[r] /\ busy'[r] => elector[r] \in {"lead", "release", "cancel"}
      ]_vars

(* When the faults are over some replica leads and coordinates, for good:  *)
(* a lost lease, a crash or a replica that has lost its part in the        *)
(* election does not leave the system without a coordinator.               *)
SomeoneCoordinates ==
    <>(\E r \in Replicas :
          [](elector[r] = "lead" /\ run[r] = "coordinate" /\ ~Cancelled(r)))

(* A replica that was signalled ends, whatever its components take and     *)
(* whichever branch gracefulShutdown returns from.                         *)
SignalEnds == \A r \in Replicas : Stopping(r) ~> proc[r] = "down"
=============================================================================
