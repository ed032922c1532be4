--------------------------- MODULE ScalingProofs ---------------------------
(***************************************************************************)
(* Proofs about Scaling, for any replica counts, any autoscaling and          *)
(* availability blocks that the CRD admits, any disturbances and any bounds.  *)
(***************************************************************************)
EXTENDS Scaling, TLAPS

\* A reconcile in progress has a spec in hand.
Engaged == work.pc # "idle" => work.spec \in Specs

\* The cached Deployment is not newer than the API server's, and is that object
\* while the revision is the same.
Coherent ==
    dcache # Nil /\ dep # Nil =>
        dcache.rv <= dep.rv /\ (dcache.rv = dep.rv => dcache = dep)

ScaleInv == TypeOK /\ Engaged /\ Coherent

-----------------------------------------------------------------------------
(* The builders and the conditions *)

\* An autoscaler's range is made of counts.
LEMMA RangeCounts ==
    ASSUME NEW a \in Autoscaling
    PROVE  /\ a.min \in Counts /\ a.max \in Counts
           /\ a.min..a.max \subseteq Counts
<1>1. a.min \in 1..MaxCount /\ a.max \in a.min..MaxCount /\ MaxCount \in Nat
  BY BoundsAssumption
<1> QED BY <1>1 DEF Counts

\* The replica rule gives a count.
LEMMA ReplicasType ==
    ASSUME NEW s \in Specs, NEW d \in Deployments \cup {Nil}
    PROVE  mutateReplicas(s, d) \in Counts
<1>1. s.replicas \in Counts
  BY DEF Specs, Counts
<1>2. AutoscalingEnabled(s) => s.autoscaling.min \in Counts
  BY RangeCounts DEF Specs, AutoscalingEnabled
<1>3. d # Nil => d.replicas \in Counts
  BY DEF Deployments
<1> QED BY <1>1, <1>2, <1>3 DEF mutateReplicas

\* The callback's result is a Deployment.
LEMMA RenderedType ==
    ASSUME NEW d \in Deployments \cup {Nil}, work.spec \in Specs
    PROVE  Rendered(d) \in Deployments
<1>1. mutateReplicas(work.spec, d) \in Counts
  BY ReplicasType
<1>2. work.spec.image \in Images
  BY DEF Specs
<1>3. (IF d = Nil THEN 1 ELSE d.rv + 1) \in Nat
  BY DEF Deployments
<1> QED BY <1>1, <1>2, <1>3 DEF Rendered, Deployments

\* A status write keeps the type.
LEMMA PublishType ==
    ASSUME TypeOK, NEW c \in Conditions, Publish(c)
    PROVE  status' \in Conditions
  BY DEF TypeOK, Publish

\* A failure report keeps the types.
LEMMA FailType ==
    ASSUME TypeOK, Fail
    PROVE  status' \in Conditions /\ work' = Idle /\ queued' = TRUE
<1>1. [status EXCEPT !.rollout = "failure"] \in Conditions
  BY DEF TypeOK, Conditions, Assessments
<1> QED BY <1>1, PublishType DEF Fail

\* What is observed is a status.
LEMMA ObservedType ==
    ASSUME NEW s \in Specs, NEW d \in Deployments
    PROVE  [rollout |-> assessDeployment(s, d), autoscaling |-> observeAutoscaling(s),
            availability |-> observeAvailability(s)] \in Conditions
<1>1. assessDeployment(s, d) \in Assessments
  BY DEF assessDeployment, Assessments
<1>2. observeAutoscaling(s) \in {"True", "False", Nil}
  BY DEF observeAutoscaling, Truth
<1>3. observeAvailability(s) \in {"True", "False", Nil}
  BY DEF observeAvailability, Truth
<1> QED BY <1>1, <1>2, <1>3 DEF Conditions

-----------------------------------------------------------------------------
(* The steps *)

WorkRecords == [pc : {"idle", "invalid", "deployment", "hpa", "pdb", "status"},
                spec : Specs \cup {Nil}]

\* A step's effect on the reconcile record: it moves on with a spec in hand, or
\* ends.
Moved == work' \in WorkRecords /\ (work'.pc # "idle" => work'.spec \in Specs)

\* An idle worker needs nothing.
LEMMA IdleMoves ==
    ASSUME work' = Idle PROVE Moved
  BY DEF Idle, Moved, WorkRecords

\* The reconcile goes on with the spec in hand.
LEMMA GotoMoves ==
    ASSUME TypeOK, Engaged, work.pc # "idle", NEW pc \in {"hpa", "pdb", "status"}, Goto(pc)
    PROVE  Moved
<1>1. work \in WorkRecords /\ work.spec \in Specs
  BY DEF TypeOK, Engaged, WorkRecords
<1> QED BY <1>1 DEF Goto, Moved, WorkRecords

\* How a step changes the Deployment and its cached copy: the Deployment gets its
\* first or its next revision, or the copy is renewed.
DeploymentStep ==
    \/ UNCHANGED <<dep, dcache>>
    \/ dcache' = dcache /\ dcache = Nil /\ dep' \in Deployments
    \/ /\ dcache' = dcache /\ dep # Nil
       /\ dep' \in Deployments /\ dep'.rv = dep.rv + 1
    \/ dep' = dep /\ dcache' = dep

\* A write of the Deployment makes no cached copy current.
LEMMA DeploymentStepKeeps ==
    ASSUME TypeOK, Coherent, DeploymentStep
    PROVE  /\ Coherent'
           /\ dep' \in Deployments \cup {Nil} /\ dcache' \in Deployments \cup {Nil}
<1>1. /\ dep # Nil => dep \in Deployments /\ dep.rv \in Nat
      /\ dcache # Nil => dcache \in Deployments /\ dcache.rv \in Nat
  BY DEF TypeOK, Deployments
<1>2. CASE UNCHANGED <<dep, dcache>>
  BY <1>2 DEF TypeOK, Coherent
<1>3. CASE dcache' = dcache /\ dcache = Nil /\ dep' \in Deployments
  BY <1>3 DEF TypeOK, Coherent
<1>4. CASE /\ dcache' = dcache /\ dep # Nil
           /\ dep' \in Deployments /\ dep'.rv = dep.rv + 1
  BY <1>1, <1>4 DEF TypeOK, Coherent
<1>5. CASE dep' = dep /\ dcache' = dep
  BY <1>1, <1>5 DEF TypeOK, Coherent
<1> QED BY <1>2, <1>3, <1>4, <1>5 DEF DeploymentStep

\* The engine's write is a write of the Deployment.
LEMMA ApplyDeploymentStep ==
    ASSUME ScaleInv, ApplyDeployment
    PROVE  DeploymentStep /\ Moved /\ status' \in Conditions /\ queued' \in BOOLEAN
<1>1. /\ TypeOK /\ Engaged /\ work.pc # "idle" /\ work.spec \in Specs
      /\ dcache \in Deployments \cup {Nil} /\ dcache' = dcache
  BY DEF ScaleInv, TypeOK, Engaged, ApplyDeployment, cacheVars
<1>2. CASE Fail /\ UNCHANGED dep
  BY <1>1, <1>2, FailType, IdleMoves DEF DeploymentStep
<1>3. CASE Goto("hpa") /\ UNCHANGED <<queued, status>>
  <2>1. Moved /\ status' \in Conditions /\ queued' \in BOOLEAN
    BY <1>1, <1>3, GotoMoves DEF TypeOK
  <2>2. Rendered(dcache) \in Deployments
    BY <1>1, RenderedType
  <2>3. CASE dcache = Nil /\ dep' = Rendered(dcache)
    BY <1>1, <2>1, <2>2, <2>3 DEF DeploymentStep
  <2>4. CASE dcache # Nil /\ Unmodified /\ dep' = Rendered(dcache)
    <3>1. dep'.rv = dep.rv + 1
      BY <2>4 DEF Rendered, Unmodified
    <3> QED BY <1>1, <2>1, <2>2, <2>4, <3>1 DEF DeploymentStep, Unmodified
  <2>5. CASE UNCHANGED dep
    BY <1>1, <2>1, <2>5 DEF DeploymentStep
  <2>6. \/ dcache = Nil /\ dep' = Rendered(dcache)
        \/ dcache # Nil /\ Unmodified /\ dep' = Rendered(dcache)
        \/ UNCHANGED dep
    BY DEF ApplyDeployment
  <2> QED BY <2>3, <2>4, <2>5, <2>6
<1> QED BY <1>2, <1>3 DEF ApplyDeployment

\* The policies change within their types.
PolicyStep == policy' \in Policies /\ behind' \subseteq {"hpa", "pdb"}

\* The policy that is written for a block of the spec.
Written(p, want) ==
    IF want = Nil THEN Nil ELSE [block |-> want, active |-> p # Nil /\ p.active]

\* It is well-formed: it keeps what was reported of the one it replaces.
LEMMA WrittenType ==
    /\ \A p \in HPAs \cup {Nil}, w \in Autoscaling \cup {Nil} : Written(p, w) \in HPAs \cup {Nil}
    /\ \A p \in PDBs \cup {Nil}, w \in Availability \cup {Nil} : Written(p, w) \in PDBs \cup {Nil}
<1>1. ASSUME NEW p \in HPAs \cup {Nil}, NEW w \in Autoscaling \cup {Nil}
      PROVE  Written(p, w) \in HPAs \cup {Nil}
  <2> DEFINE b == p # Nil /\ p.active
  <2>1. b \in BOOLEAN
    BY Zenon
  <2>2. Written(p, w) = IF w = Nil THEN Nil ELSE [block |-> w, active |-> b]
    BY Zenon DEF Written
  <2> HIDE DEF b
  <2> QED BY <2>1, <2>2 DEF HPAs
<1>2. ASSUME NEW p \in PDBs \cup {Nil}, NEW w \in Availability \cup {Nil}
      PROVE  Written(p, w) \in PDBs \cup {Nil}
  <2> DEFINE b == p # Nil /\ p.active
  <2>1. p = Nil \/ p.active = FALSE
    <3>1. p \in PDBs => p.active \in {FALSE}
      BY Zenon DEF PDBs
    <3> QED BY <3>1, Zenon
  <2>2. b = FALSE
    BY <2>1, Zenon
  <2>3. Written(p, w) = IF w = Nil THEN Nil ELSE [block |-> w, active |-> b]
    BY Zenon DEF Written
  <2>4. b \in {FALSE}
    BY <2>2, Zenon
  <2> HIDE DEF b
  <2>5. w # Nil => [block |-> w, active |-> b] \in PDBs
    BY <2>4, Zenon DEF PDBs
  <2> QED BY <2>3, <2>5, Zenon
<1> QED BY <1>1, <1>2

\* Engine.Apply of an optional child.
LEMMA ApplyPolicyStep ==
    ASSUME ScaleInv, NEW k \in {"hpa", "pdb"}, NEW next \in {"pdb", "status"},
           ApplyPolicy(k, next)
    PROVE  /\ PolicyStep /\ Moved /\ status' \in Conditions /\ queued' \in BOOLEAN
           /\ UNCHANGED <<spec, dep, cacheVars>>
<1>1. /\ TypeOK /\ Engaged /\ work.pc # "idle" /\ work.spec \in Specs
      /\ UNCHANGED <<spec, dep, cacheVars>>
  BY DEF ScaleInv, Engaged, ApplyPolicy
<1>2. policy \in Policies /\ behind \subseteq {"hpa", "pdb"}
  BY <1>1 DEF TypeOK
<1>3. CASE /\ policy' = [policy EXCEPT ![k] =
                            IF Block(k, work.spec) = Nil THEN Nil
                            ELSE [block |-> Block(k, work.spec),
                                  active |-> @ # Nil /\ @.active]]
           /\ behind' = behind \cup {k}
           /\ Goto(next) /\ UNCHANGED <<status, queued>>
  <2>0. policy' = [policy EXCEPT ![k] = Written(policy[k], Block(k, work.spec))]
    BY <1>3, Zenon DEF Written
  <2>3. policy' \in Policies
    <3>1. CASE k = "hpa"
      <4>1. Written(policy[k], Block(k, work.spec)) \in HPAs \cup {Nil}
        BY <1>1, <1>2, <3>1, WrittenType DEF Block, Policies, Specs
      <4> QED BY <1>2, <2>0, <3>1, <4>1 DEF Policies
    <3>2. CASE k = "pdb"
      <4>1. Written(policy[k], Block(k, work.spec)) \in PDBs \cup {Nil}
        BY <1>1, <1>2, <3>2, WrittenType DEF Block, Policies, Specs
      <4> QED BY <1>2, <2>0, <3>2, <4>1 DEF Policies
    <3> QED BY <3>1, <3>2
  <2> QED BY <1>1, <1>2, <1>3, <2>3, GotoMoves DEF PolicyStep, TypeOK
<1>4. CASE Goto(next) /\ UNCHANGED <<policy, behind, status, queued>>
  BY <1>1, <1>2, <1>4, GotoMoves DEF PolicyStep, TypeOK
<1>5. CASE Fail /\ UNCHANGED <<policy, behind>>
  BY <1>1, <1>2, <1>5, FailType, IdleMoves DEF PolicyStep
<1> QED BY <1>3, <1>4, <1>5 DEF ApplyPolicy

\* The steps of a reconcile before and after the Deployment.
LEMMA ReconcileStep ==
    ASSUME ScaleInv, Start \/ Invalid \/ ApplyHPA \/ ApplyPDB \/ ObserveStatus \/ ApiError
    PROVE  /\ PolicyStep /\ Moved /\ status' \in Conditions /\ queued' \in BOOLEAN
           /\ UNCHANGED <<spec, dep, cacheVars>>
<1>1. TypeOK /\ Engaged /\ (work.pc # "idle" => work.spec \in Specs)
  BY DEF ScaleInv, Engaged
<1>2. CASE ApplyHPA \/ ApplyPDB
  BY <1>2, ApplyPolicyStep DEF ApplyHPA, ApplyPDB
<1>3. CASE Start \/ Invalid \/ ObserveStatus \/ ApiError
  <2>1. UNCHANGED <<spec, dep, cacheVars>> /\ PolicyStep
    BY <1>1, <1>3
    DEF Start, Invalid, ObserveStatus, ApiError, childVars, PolicyStep, TypeOK
  <2>2. CASE Start
    <3>1. Moved
      BY <1>1, <2>2 DEF TypeOK, Start, Moved, WorkRecords
    <3> QED BY <1>1, <2>1, <2>2, <3>1 DEF TypeOK, Start
  <2>3. CASE Fail
    BY <1>1, <2>1, <2>3, FailType, IdleMoves
  <2>4. CASE /\ work.pc = "status" /\ dcache # Nil
             /\ Publish([rollout |-> assessDeployment(work.spec, dcache),
                         autoscaling |-> observeAutoscaling(work.spec),
                         availability |-> observeAvailability(work.spec)])
             /\ work' = Idle
             /\ queued' = (queued \/ work.spec.generation # spec.generation)
    <3>1. dcache \in Deployments /\ work.spec \in Specs
      BY <1>1, <2>4 DEF TypeOK
    <3>2. status' \in Conditions
      BY <1>1, <2>4, <3>1, ObservedType, PublishType
    <3> QED BY <1>1, <2>1, <2>4, <3>2, IdleMoves DEF TypeOK
  <2> QED BY <1>3, <2>2, <2>3, <2>4 DEF Invalid, ObserveStatus, ApiError
<1> QED BY <1>2, <1>3

\* So is one through the scale subresource.
LEMMA ScaleStep ==
    ASSUME TypeOK, dep # Nil, NEW n \in Counts, Scale(n)
    PROVE  DeploymentStep
<1>1. dep \in Deployments /\ dep.rv + 1 \in Nat
  BY DEF TypeOK, Deployments
<1>2. dep' \in Deployments /\ dep'.rv = dep.rv + 1
  BY <1>1 DEF Scale, Deployments
<1> QED BY <1>2 DEF Scale, DeploymentStep, cacheVars

\* The cluster's controllers and other clients scale the Deployment, or complete
\* its rollout.
LEMMA ClusterStep ==
    ASSUME ScaleInv, Rollout \/ HPAEnforces \/ HPAScales \/ Drift
    PROVE  DeploymentStep /\ UNCHANGED <<spec, policy, behind, copy, status, queued, work>>
<1>1. TypeOK /\ dep \in Deployments /\ dep # Nil /\ MaxCount \in Nat
  BY BoundsAssumption DEF ScaleInv, TypeOK, Rollout, HPAEnforces, HPAScales, Drift
<1>2. UNCHANGED <<spec, policy, behind, copy, status, queued, work>>
  BY DEF Rollout, HPAEnforces, HPAScales, Drift, Scale, cacheVars
<1>3. hpa # Nil => hpa.block \in Autoscaling
  BY <1>1 DEF TypeOK, HPAs, Policies, hpa
<1>4. CASE Rollout
  <2>1. dep.rv + 1 \in Nat /\ dep.replicas \in Counts
    BY <1>1 DEF Deployments
  <2>2. dep' \in Deployments /\ dep'.rv = dep.rv + 1
    BY <1>1, <1>4, <2>1 DEF Rollout, Deployments
  <2> QED BY <1>1, <1>2, <1>4, <2>2 DEF Rollout, DeploymentStep, cacheVars
<1>5. CASE HPAEnforces
  <2>1. hpa.block.min \in Counts /\ hpa.block.max \in Counts
    BY <1>3, <1>5, RangeCounts DEF HPAEnforces
  <2> QED BY <1>1, <1>2, <1>5, <2>1, ScaleStep DEF HPAEnforces
<1>6. CASE HPAScales
  <2>1. hpa.block.min..hpa.block.max \subseteq Counts
    BY <1>3, <1>6, RangeCounts DEF HPAScales
  <2> QED BY <1>1, <1>2, <1>6, <2>1, ScaleStep DEF HPAScales
<1>7. CASE Drift
  <2>1. 1 \in Counts
    BY BoundsAssumption DEF Counts
  <2> QED BY <1>1, <1>2, <1>7, <2>1, ScaleStep DEF Drift
<1> QED BY <1>4, <1>5, <1>6, <1>7

-----------------------------------------------------------------------------
(* The invariant *)

\* The invariant holds initially.
LEMMA ScaleInit == Init => ScaleInv
<1> SUFFICES ASSUME Init PROVE ScaleInv
  OBVIOUS
<1>1. work \in WorkRecords /\ work.pc = "idle"
  BY DEF Init, Idle, WorkRecords
<1>2. status \in Conditions
  BY DEF Init, Conditions
<1>3. TypeOK
  BY <1>1, <1>2, BoundsAssumption DEF Init, TypeOK, WorkRecords, NoPolicies, Policies
<1> QED BY <1>1, <1>3 DEF Init, ScaleInv, Engaged, Coherent

\* What every step does to the variables besides the fuel.
LEMMA NextStep ==
    ASSUME ScaleInv, Next
    PROVE  /\ DeploymentStep /\ PolicyStep /\ Moved
           /\ spec' \in Specs /\ copy' \in Policies
           /\ status' \in Conditions /\ queued' \in BOOLEAN
<1>1. /\ TypeOK
      /\ work' = work => Moved
      /\ UNCHANGED <<policy, behind>> => PolicyStep
  BY DEF ScaleInv, TypeOK, Engaged, Moved, WorkRecords, PolicyStep
<1>2. CASE ApplyDeployment
  BY <1>1, <1>2, ApplyDeploymentStep DEF ApplyDeployment, TypeOK, cacheVars
<1>3. CASE Start \/ Invalid \/ ApplyHPA \/ ApplyPDB \/ ObserveStatus \/ ApiError
  BY <1>1, <1>3, ReconcileStep DEF TypeOK, DeploymentStep, cacheVars
<1>4. CASE SyncDeployment
  BY <1>1, <1>4 DEF TypeOK, SyncDeployment, DeploymentStep, Wake, childVars
<1>5. CASE SyncPolicies
  <2>1. PICK k \in {"hpa", "pdb"} : SyncPolicy(k)
    BY <1>5 DEF SyncPolicies
  <2>2. copy' \in Policies /\ PolicyStep
    BY <1>1, <2>1 DEF TypeOK, SyncPolicy, Policies, PolicyStep
  <2> QED BY <1>1, <2>1, <2>2 DEF TypeOK, SyncPolicy, DeploymentStep, Wake
<1>6. CASE EditSpec
  BY <1>1, <1>6
  DEF TypeOK, EditSpec, DeploymentStep, childVars, cacheVars
<1>7. CASE Rollout \/ HPAEnforces \/ HPAScales \/ Drift
  BY <1>1, <1>7, ClusterStep DEF TypeOK
<1>8. CASE HPAActive \/ MetricsLost
  <2>1. PICK b \in BOOLEAN : SetActive(b)
    BY <1>8 DEF HPAActive, MetricsLost
  <2>2. policy.hpa \in HPAs /\ policy \in Policies
    BY <1>1, <2>1 DEF TypeOK, SetActive, Policies, hpa
  <2>3. [policy.hpa EXCEPT !.active = b] \in HPAs
    BY <2>2 DEF HPAs
  <2>4. policy' \in Policies
    BY <2>1, <2>2, <2>3 DEF SetActive, Policies
  <2>5. PolicyStep
    BY <1>1, <2>1, <2>4 DEF TypeOK, SetActive, PolicyStep
  <2> QED BY <1>1, <2>1, <2>5 DEF TypeOK, SetActive, DeploymentStep, cacheVars
<1> QED BY <1>2, <1>3, <1>4, <1>5, <1>6, <1>7, <1>8 DEF Next, Reconcile, Cluster

\* Disturbances are paid for.
LEMMA NextFuel ==
    ASSUME ScaleInv, Next
    PROVE  fuel' \in Nat
<1>1. fuel \in Nat
  BY DEF ScaleInv, TypeOK
<1>2. fuel' = fuel \/ (fuel > 0 /\ fuel' = fuel - 1)
  BY DEF Next, Reconcile, Start, Invalid, ApplyDeployment, ApplyHPA, ApplyPDB,
         ApplyPolicy, ObserveStatus, ApiError, SyncDeployment, SyncPolicies, SyncPolicy, EditSpec, Cluster, Rollout,
         HPAEnforces, HPAScales, HPAActive, MetricsLost, Drift, Fault
<1> QED BY <1>1, <1>2

\* Every step preserves the invariant.
LEMMA ScaleNext == ScaleInv /\ [Next]_vars => ScaleInv'
<1> SUFFICES ASSUME ScaleInv, [Next]_vars PROVE ScaleInv'
  OBVIOUS
<1>1. CASE UNCHANGED vars
  BY <1>1 DEF vars, ScaleInv, TypeOK, Engaged, Coherent
<1>2. CASE Next
  <2>1. /\ DeploymentStep /\ Moved
        /\ PolicyStep /\ spec' \in Specs /\ copy' \in Policies
        /\ status' \in Conditions /\ queued' \in BOOLEAN /\ fuel' \in Nat
    BY <1>2, NextStep, NextFuel
  <2>2. /\ Coherent'
        /\ dep' \in Deployments \cup {Nil} /\ dcache' \in Deployments \cup {Nil}
    BY <2>1, DeploymentStepKeeps DEF ScaleInv
  <2>3. TypeOK'
    BY <2>1, <2>2 DEF TypeOK, Moved, WorkRecords, PolicyStep
  <2>4. Engaged'
    BY <2>1 DEF Engaged, Moved
  <2> QED BY <2>2, <2>3, <2>4 DEF ScaleInv
<1> QED BY <1>1, <1>2

\* Every reachable state is well typed; in particular the Deployment always has a
\* replica count, whoever set it.
THEOREM TypeCorrect == Spec => []TypeOK
<1>1. ScaleInv => TypeOK
  BY DEF ScaleInv
<1> QED BY ScaleInit, ScaleNext, <1>1, PTL DEF Spec

-----------------------------------------------------------------------------
(* Who scales *)

\* Only Engine.Apply of the Deployment intent changes the Deployment and the
\* reconcile in one step, and it writes what it rendered from the live object.
LEMMA WriterRenders ==
    ASSUME ScaleInv, Next, Writes, dep # Nil
    PROVE  work.spec \in Specs /\ dep' = Rendered(dep)
<1>1. ApplyDeployment
  <2>1. work' # work /\ dep' # dep
    BY DEF Writes
  <2> QED BY <2>1
          DEF Next, Reconcile, Start, Invalid, ApplyHPA, ApplyPDB, ApplyPolicy,
              ObserveStatus, ApiError, SyncDeployment, SyncPolicies, SyncPolicy, EditSpec, Cluster, Rollout, HPAEnforces,
              HPAScales, HPAActive, MetricsLost, SetActive, Drift, Scale, childVars
<1>2. dep' # dep
  BY DEF Writes
<1>3. dcache # Nil /\ Unmodified /\ dep' = Rendered(dcache)
  BY <1>1, <1>2 DEF ApplyDeployment
<1>4. dcache = dep
  BY <1>3 DEF ScaleInv, Coherent, Unmodified
<1> QED BY <1>1, <1>3, <1>4 DEF ScaleInv, Engaged, ApplyDeployment

\* While the spec in hand enables autoscaling, no write of the controller moves
\* the replica count, although it is computed from a cached Deployment.
THEOREM AutoscalerOwnsScale == Spec => ScaleKept
<1>1. ScaleInv /\ [Next]_vars =>
        [Writes /\ dep # Nil /\ AutoscalingEnabled(work.spec) =>
             dep'.replicas = dep.replicas]_vars
  <2> SUFFICES ASSUME ScaleInv, Next, Writes, dep # Nil, AutoscalingEnabled(work.spec)
               PROVE  dep'.replicas = dep.replicas
    OBVIOUS
  <2>1. dep' = Rendered(dep)
    BY WriterRenders
  <2> QED BY <2>1 DEF Rendered, mutateReplicas
<1> QED BY <1>1, ScaleInit, ScaleNext, PTL DEF Spec, ScaleKept
=============================================================================
