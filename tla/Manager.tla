------------------------------ MODULE Manager ------------------------------
(***************************************************************************)
(* The manager process: its leader election options (Options.Validate,        *)
(* effectiveLeaderElectionTiming and New of internal/manager/manager.go), its  *)
(* leader-gated readiness (startupReadiness), its exit (cmd/main.go) and the  *)
(* rollout of its own Deployment (config/manager/manager.yaml).              *)
(*                                                                           *)
(* Time passes in seconds.  The Lease protocol of client-go, the kubelet and  *)
(* the Deployment controller are outside the repository and modelled as the  *)
(* manager relies on them: a leader tries to renew every RetryPeriod and gives *)
(* up RenewDeadline after its first failed try; a candidate takes a Lease that *)
(* is free or that it has not seen renewed for LeaseDuration.  A process that *)
(* starts again has a new identity.  What a leader does is in ChildEngine.    *)
(***************************************************************************)
EXTENDS Integers, FiniteSets

CONSTANTS
    Pods,         \* the names of Pods
    Sizes,        \* values of the Deployment's replicas
    Settings,     \* the leader election options given; 0 selects the default
    MaxFuel,      \* bound on disturbances
    Disturbances, \* the disturbances of this instance
    Nil

ASSUME ManagerAssumption ==
    /\ Sizes \subseteq Nat \ {0} /\ MaxFuel \in Nat /\ Nil \notin Pods
    /\ Settings \subseteq [lease : Nat, renew : Nat, retry : Nat]

VARIABLES
    fuel,      \* disturbances left
    options,   \* the options of the managers
    size,      \* the Deployment's replicas
    template,  \* the revision of its Pod template
    pod,       \* the Pods
    lease,     \* the holder of the Lease
    up         \* the API server answers the managers

vars == <<fuel, options, size, template, pod, lease, up>>

-----------------------------------------------------------------------------
(* Options *)

effectiveLeaderElectionTiming(o) ==
    [lease |-> IF o.lease = 0 THEN 15 ELSE o.lease,
     renew |-> IF o.renew = 0 THEN 10 ELSE o.renew,
     retry |-> IF o.retry = 0 THEN 2 ELSE o.retry]

ValidatePositive(o) ==
    LET t == effectiveLeaderElectionTiming(o)
    IN  t.lease > 0 /\ t.renew > 0 /\ t.retry > 0

Validate(o) ==
    LET t == effectiveLeaderElectionTiming(o)
    IN  0 < t.retry /\ t.retry < t.renew /\ t.renew < t.lease

Timing == effectiveLeaderElectionTiming(options)

\* A leader gives up this long after its last renewal.
Deadline == Timing.retry + Timing.renew

-----------------------------------------------------------------------------
(* Pods *)

\* A process is starting, runs, or is stopping after SIGTERM; synced says that
\* WaitForCacheSync returned, since counts the seconds of a leader from its last
\* renewal; watched is 0 until a candidate has seen the Lease, then one more than
\* the seconds since it saw the Lease change.
NoPod == [phase |-> "none", rev |-> 0, leads |-> FALSE, synced |-> FALSE,
          since |-> 0, watched |-> 0]

Fresh(r) == [NoPod EXCEPT !.phase = "starting", !.rev = r]

TypeOK ==
    /\ fuel \in Nat /\ options \in Settings /\ size \in Sizes
    /\ template \in {1, 2} /\ up \in BOOLEAN
    /\ pod \in [Pods -> [phase : {"none", "starting", "running", "stopping"},
                         rev : 0..2, leads : BOOLEAN, synced : BOOLEAN,
                         since : 0..Deadline, watched : 0..(Timing.lease + 1)]]
    /\ lease \in Pods \cup {Nil}

Init ==
    /\ fuel = MaxFuel
    /\ options \in {o \in Settings : Validate(o)}
    /\ size \in Sizes /\ template = 1 /\ up = TRUE
    /\ pod = [i \in Pods |-> NoPod]
    /\ lease = Nil

Fault(d) == d \in Disturbances /\ fuel > 0 /\ fuel' = fuel - 1

Set(i, p) == pod' = [pod EXCEPT ![i] = p]

\* startupReadiness.Start runs under leadership only; check.
Ready(i) == pod[i].phase = "running" /\ pod[i].leads /\ pod[i].synced

-----------------------------------------------------------------------------
(* The process *)

StartProcess(i) ==
    /\ pod[i].phase = "starting"
    /\ Set(i, [pod[i] EXCEPT !.phase = "running", !.watched = IF up THEN 1 ELSE 0])
    /\ UNCHANGED <<fuel, options, size, template, lease, up>>

Min2(a, b) == IF a < b THEN a ELSE b

ElectableReleased(i) == lease = Nil

\* The Lease is free, or the candidate has seen nobody renew it.
Electable(i) == lease = Nil \/ pod[i].watched > Timing.lease

Acquire(i) ==
    /\ pod[i].phase = "running" /\ ~pod[i].leads
    /\ up /\ Electable(i)
    /\ lease' = i
    /\ pod' = [j \in Pods |->
                 [pod[j] EXCEPT !.leads = @ \/ j = i,
                                !.watched = IF j = i THEN 0 ELSE Min2(@, 1)]]
    /\ UNCHANGED <<fuel, options, size, template, up>>

SyncCaches(i) ==
    /\ pod[i].phase = "running" /\ pod[i].leads /\ ~pod[i].synced /\ up
    /\ Set(i, [pod[i] EXCEPT !.synced = TRUE])
    /\ UNCHANGED <<fuel, options, size, template, lease, up>>

\* Leadership is lost: Start returns an error, main exits and the kubelet starts
\* the container again.
Lose(i) ==
    /\ pod[i].leads /\ pod[i].since = Deadline
    /\ Set(i, IF pod[i].phase = "running" THEN Fresh(pod[i].rev) ELSE NoPod)
    /\ UNCHANGED <<fuel, options, size, template, lease, up>>

Crash(i) ==
    /\ pod[i].phase = "running" /\ Fault("crash")
    /\ Set(i, Fresh(pod[i].rev))
    /\ UNCHANGED <<options, size, template, lease, up>>

ReleasedUnnamed == ""

\* LeaderElectionReleaseOnCancel: the Lease is given back.
Released == Nil

\* The signal handler's context ends: the runnables stop, then the Lease is
\* released; a kill or an outage prevents that.
Stop(i) ==
    LET holds == pod[i].leads /\ lease = i
    IN  /\ pod[i].phase = "stopping"
        /\ Set(i, NoPod)
        /\ \/ /\ up /\ UNCHANGED fuel
              /\ lease' = IF holds THEN Released ELSE lease
           \/ ~up /\ UNCHANGED <<fuel, lease>>
           \/ holds /\ Fault("crash") /\ UNCHANGED lease
        /\ UNCHANGED <<options, size, template, up>>

-----------------------------------------------------------------------------
(* Time *)

\* A leader tries to renew RetryPeriod after a success and then every RetryPeriod.
Tries(i) == pod[i].leads /\ (pod[i].since + 1) % Timing.retry = 0

\* A candidate first sees the Lease when the API answers it.
Sees(i) == pod[i].watched > 0 \/ (pod[i].phase = "running" /\ up)

\* A second goes by in which the Pods of known learn that they have renewed the
\* Lease; the candidates see at once that somebody did.
After(known, renewed) ==
    [i \in Pods |->
        IF pod[i].leads
        THEN [pod[i] EXCEPT !.since = IF i \in known THEN 0 ELSE pod[i].since + 1]
        ELSE [pod[i] EXCEPT !.watched = IF ~Sees(i) THEN 0 ELSE IF renewed THEN 1
                                        ELSE Min2(pod[i].watched, Timing.lease) + 1]]

\* One second.  A try succeeds when the API answers and the Lease is still the
\* leader's own; the answer may be lost.  Giving up is not put off.
Tick ==
    LET renewed == {i \in Pods : Tries(i) /\ up /\ lease = i}
    IN  /\ \A i \in Pods : pod[i].leads => pod[i].since < Deadline
        /\ \/ pod' = After(renewed, renewed # {}) /\ UNCHANGED fuel
           \/ renewed # {} /\ Fault("lostReply") /\ pod' = After({}, TRUE)
        /\ UNCHANGED <<options, size, template, lease, up>>

ApiFails ==
    /\ up /\ Fault("outage")
    /\ up' = FALSE
    /\ UNCHANGED <<options, size, template, pod, lease>>

ApiRecovers ==
    /\ ~up
    /\ up' = TRUE
    /\ UNCHANGED <<fuel, options, size, template, pod, lease>>

-----------------------------------------------------------------------------
(* The rolling update *)

strategyDefault == [maxSurge |-> 1, maxUnavailable |-> 0]

strategy == [maxSurge |-> 0, maxUnavailable |-> 1]

Counted == {i \in Pods : pod[i].phase \in {"starting", "running"}}
New == {i \in Counted : pod[i].rev = template}
Old == Counted \ New
Unready(S) == {i \in S : ~Ready(i)}

minAvailable == size - strategy.maxUnavailable

\* The new ReplicaSet grows as far as the surge allows.
ScaleUp ==
    /\ Cardinality(Counted) < size + strategy.maxSurge
    /\ Cardinality(New) < size
    /\ \E i \in Pods : pod[i].phase = "none" /\ Set(i, Fresh(template))
    /\ UNCHANGED <<fuel, options, size, template, lease, up>>

\* Pods of the old ReplicaSet that may go: no more than leave minAvailable Pods
\* apart from the new ones that are not ready; unready ones first.
Removable ==
    IF Cardinality(Counted) - minAvailable > Cardinality(Unready(New))
    THEN IF Unready(Old) # {} THEN Unready(Old)
         ELSE IF Cardinality(Counted \ Unready(Counted)) > minAvailable THEN Old
         ELSE {}
    ELSE {}

ScaleDown ==
    /\ \E i \in Removable : Set(i, [pod[i] EXCEPT !.phase = "stopping"])
    /\ UNCHANGED <<fuel, options, size, template, lease, up>>

RollOut ==
    /\ template = 1 /\ Fault("rollout")
    /\ template' = 2
    /\ UNCHANGED <<options, size, pod, lease, up>>

Process(i) == StartProcess(i) \/ Acquire(i) \/ SyncCaches(i) \/ Lose(i) \/ Stop(i)

Next ==
    \/ \E i \in Pods : Process(i) \/ Crash(i)
    \/ Tick \/ ApiFails \/ ApiRecovers \/ ScaleUp \/ ScaleDown \/ RollOut

Spec == Init /\ [][Next]_vars

\* Time passes, outages end, processes run and the Deployment controller works.
Fairness ==
    /\ \A i \in Pods : WF_vars(Process(i))
    /\ WF_vars(Tick) /\ WF_vars(ApiRecovers) /\ WF_vars(ScaleUp) /\ WF_vars(ScaleDown)

FairSpec == Spec /\ Fairness

-----------------------------------------------------------------------------
(* Properties *)

\* docs/availability.md: "Lease leader election permits only the active leader to
\* reconcile": two managers never lead at once, through outages, lost renewals,
\* crashes, graceful stops that end in a kill, and rollouts.
ExclusiveLeader == \A i, j \in Pods : pod[i].leads /\ pod[j].leads => i = j

\* Options that pass Validate give a manager that works: whatever fails, a leader
\* with synchronized caches comes back.
LeaderReturns == []<>(\E i \in Pods : Ready(i))

RolledOut == \A i \in Pods : pod[i].phase # "none" => pod[i].rev = template

\* docs/development.md: maxSurge 0 and maxUnavailable 1 release "the old leader
\* before the replacement must satisfy readiness; the default one-replica
\* Deployment strategy can otherwise deadlock": a single manager is replaced,
\* although the replacement is unready until the old one has gone.
SingletonRolls == <>[](size = 1 => RolledOut)

\* docs/installation.md: "rolling updates remove the old leader before requiring
\* the replacement to become Ready", for any number of replicas.
ManagerRolls == <>[]RolledOut

=============================================================================
