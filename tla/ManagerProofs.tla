--------------------------- MODULE ManagerProofs ---------------------------
(***************************************************************************)
(* Theorems about Manager, for every set of Pods, every size and every       *)
(* number of disturbances: the state keeps its type, and two managers never  *)
(* lead at once if the election times keep a distance that Validate does not *)
(* ask for.                                                                  *)
(***************************************************************************)
EXTENDS Manager, TLAPS

\* A leader has given up before its Lease, last renewed when it last knew, expires.
Spaced(o) ==
    LET t == effectiveLeaderElectionTiming(o)
    IN  t.retry + t.renew < t.lease

\* The defaults replace zeros, so the times in force are naturals.
LEMMA TimingType ==
    ASSUME options \in Settings
    PROVE  /\ Timing.lease \in Nat /\ Timing.renew \in Nat /\ Timing.retry \in Nat
           /\ Deadline \in Nat
<1>1. options \in [lease : Nat, renew : Nat, retry : Nat]
  BY ManagerAssumption
<1> QED BY <1>1 DEF Timing, Deadline, effectiveLeaderElectionTiming

PodType == [phase : {"none", "starting", "running", "stopping"}, rev : 0..2,
            leads : BOOLEAN, synced : BOOLEAN, since : 0..Deadline,
            watched : 0..(Timing.lease + 1)]

\* The two values a Pod is reset to.
LEMMA FreshType ==
    ASSUME options \in Settings
    PROVE  NoPod \in PodType /\ \A r \in 0..2 : Fresh(r) \in PodType
<1>1. Deadline \in Nat /\ Timing.lease \in Nat BY TimingType
<1>2. 0 \in 0..Deadline /\ 0 \in 0..(Timing.lease + 1) BY <1>1
<1>3. NoPod \in PodType BY <1>2 DEF NoPod, PodType
<1>4. ASSUME NEW r \in 0..2 PROVE Fresh(r) \in PodType
  BY <1>2 DEF NoPod, Fresh, PodType
<1> QED BY <1>3, <1>4

\* Initial states are well-typed.
LEMMA TypeInit == Init => TypeOK
<1> SUFFICES ASSUME Init PROVE TypeOK OBVIOUS
<1>1. options \in Settings BY DEF Init
<1>2. lease \in Pods \cup {Nil} BY DEF Init
<1>3. fuel \in Nat /\ size \in Sizes /\ template \in {1, 2} /\ up \in BOOLEAN
  BY ManagerAssumption DEF Init
<1>4. pod \in [Pods -> PodType] BY <1>1, FreshType DEF Init
<1> QED BY <1>1, <1>2, <1>3, <1>4 DEF Init, TypeOK, PodType

\* A disturbance leaves a natural amount of fuel.
LEMMA FaultType == ASSUME fuel \in Nat, NEW d, Fault(d) PROVE fuel' \in Nat
BY DEF Fault

\* Replacing one Pod by a well-typed one.
LEMMA SetType ==
    ASSUME pod \in [Pods -> PodType], NEW i \in Pods, NEW p \in PodType, Set(i, p)
    PROVE  pod' \in [Pods -> PodType]
BY DEF Set

\* Every step keeps the type.
LEMMA TypeStep == TypeOK /\ [Next]_vars => TypeOK'
<1> SUFFICES ASSUME TypeOK, [Next]_vars PROVE TypeOK' OBVIOUS
<1>0. /\ pod \in [Pods -> PodType] /\ options \in Settings /\ fuel \in Nat
      /\ size \in Sizes /\ template \in {1, 2} /\ up \in BOOLEAN
      /\ lease \in Pods \cup {Nil}
  BY DEF TypeOK, PodType
<1>t. Timing.lease \in Nat /\ Deadline \in Nat BY <1>0, TimingType
<1>f. NoPod \in PodType /\ \A r \in 0..2 : Fresh(r) \in PodType BY <1>0, FreshType
<1>p. \A i \in Pods : pod[i] \in PodType BY <1>0
<1>r. \A i \in Pods : pod[i].rev \in 0..2 BY <1>p DEF PodType
<1>u. ASSUME NEW i \in Pods
      PROVE  /\ \A n \in 0..1 :
                    [pod[i] EXCEPT !.phase = "running", !.watched = n] \in PodType
             /\ [pod[i] EXCEPT !.phase = "stopping"] \in PodType
             /\ [pod[i] EXCEPT !.synced = TRUE] \in PodType
             /\ \A b \in BOOLEAN, n \in 0..1 :
                    [pod[i] EXCEPT !.leads = b, !.watched = n] \in PodType
             /\ \A n \in 0..Deadline : [pod[i] EXCEPT !.since = n] \in PodType
             /\ \A n \in 0..(Timing.lease + 1) : [pod[i] EXCEPT !.watched = n] \in PodType
  <2>1. 0..1 \subseteq 0..(Timing.lease + 1) BY <1>t
  <2>2. pod[i] \in PodType BY <1>p
  <2> QED BY <2>1, <2>2 DEF PodType
<1>s. SUFFICES /\ options' = options
               /\ pod' \in [Pods -> PodType] /\ fuel' \in Nat
               /\ size' \in Sizes /\ template' \in {1, 2} /\ up' \in BOOLEAN
               /\ lease' \in Pods \cup {Nil}
  BY <1>0 DEF TypeOK, PodType, Timing, Deadline
<1>1. ASSUME NEW i \in Pods, StartProcess(i) PROVE <1>s!1
  <2> DEFINE n == IF up THEN 1 ELSE 0
  <2>1. n \in 0..1 /\ Set(i, [pod[i] EXCEPT !.phase = "running", !.watched = n])
    BY <1>1 DEF StartProcess
  <2> HIDE DEF n
  <2> QED BY <1>0, <1>1, <1>u, <2>1, SetType DEF StartProcess
<1>2. ASSUME NEW i \in Pods, Acquire(i) PROVE <1>s!1
  <2> DEFINE b(j) == pod[j].leads \/ j = i
             n(j) == IF j = i THEN 0 ELSE Min2(pod[j].watched, 1)
  <2>1. pod' = [j \in Pods |-> [pod[j] EXCEPT !.leads = b(j), !.watched = n(j)]]
    BY <1>0, <1>2 DEF Acquire
  <2>2. ASSUME NEW j \in Pods
        PROVE  [pod[j] EXCEPT !.leads = b(j), !.watched = n(j)] \in PodType
    <3>1. b(j) \in BOOLEAN BY Zenon
    <3>2. n(j) \in 0..1 BY <1>p, <1>t DEF PodType, Min2
    <3> HIDE DEF b, n
    <3> QED BY <1>u, <3>1, <3>2
  <2> HIDE DEF b, n
  <2>3. pod' \in [Pods -> PodType] BY <2>1, <2>2, Zenon
  <2> QED BY <1>0, <1>2, <2>3 DEF Acquire
<1>3. ASSUME NEW i \in Pods, SyncCaches(i) PROVE <1>s!1
  <2>1. Set(i, [pod[i] EXCEPT !.synced = TRUE]) BY <1>3 DEF SyncCaches
  <2> QED BY <1>0, <1>3, <1>u, <2>1, SetType DEF SyncCaches
<1>4. ASSUME NEW i \in Pods, Lose(i) PROVE <1>s!1
  <2>1. PICK p \in PodType : Set(i, p) BY <1>4, <1>f, <1>r DEF Lose
  <2> QED BY <1>0, <1>4, <2>1, SetType DEF Lose
<1>5. ASSUME NEW i \in Pods, Crash(i) PROVE <1>s!1
  <2>1. Set(i, Fresh(pod[i].rev)) BY <1>5 DEF Crash
  <2>2. fuel' \in Nat BY <1>0, <1>5, FaultType DEF Crash
  <2> QED BY <1>0, <1>5, <1>f, <1>r, <2>1, <2>2, SetType DEF Crash
<1>6. ASSUME NEW i \in Pods, Stop(i) PROVE <1>s!1
  <2>1. Set(i, NoPod) BY <1>6 DEF Stop
  <2>2. Released \in Pods \cup {Nil} BY DEF Released
  <2>3. fuel' \in Nat BY <1>0, <1>6, FaultType DEF Stop
  <2>4. lease' \in {lease, Released} BY <1>6 DEF Stop
  <2> QED BY <1>0, <1>6, <1>f, <2>1, <2>2, <2>3, <2>4, SetType DEF Stop
<1>7. CASE Tick
  <2>1. ASSUME NEW K, NEW r PROVE After(K, r) \in [Pods -> PodType]
    <3> SUFFICES ASSUME NEW i \in Pods PROVE After(K, r)[i] \in PodType
      BY DEF After
    <3>1. CASE pod[i].leads
      <4>1. pod[i].since < Deadline /\ pod[i].since \in 0..Deadline
        BY <1>7, <1>p, <3>1 DEF Tick, PodType
      <4>2. \E n \in 0..Deadline : After(K, r)[i] = [pod[i] EXCEPT !.since = n]
        <5>1. 0 \in 0..Deadline /\ pod[i].since + 1 \in 0..Deadline BY <1>t, <4>1
        <5> QED BY <3>1, <5>1 DEF After
      <4> QED BY <1>u, <4>2
    <3>2. CASE ~pod[i].leads
      <4>1. /\ 0 \in 0..(Timing.lease + 1) /\ 1 \in 0..(Timing.lease + 1)
            /\ Min2(pod[i].watched, Timing.lease) + 1 \in 0..(Timing.lease + 1)
        BY <1>t, <1>p DEF PodType, Min2
      <4>2. \E n \in 0..(Timing.lease + 1) : After(K, r)[i] = [pod[i] EXCEPT !.watched = n]
        BY <3>2, <4>1 DEF After
      <4> QED BY <1>u, <4>2
    <3> QED BY <3>1, <3>2
  <2>2. \E K, r : pod' = After(K, r) BY <1>7 DEF Tick
  <2>3. pod' \in [Pods -> PodType] BY <2>1, <2>2
  <2>4. fuel' \in Nat BY <1>0, <1>7, FaultType DEF Tick
  <2> QED BY <1>0, <1>7, <2>3, <2>4 DEF Tick
<1>8. CASE ApiFails BY <1>0, <1>8, FaultType DEF ApiFails
<1>9. CASE ApiRecovers BY <1>0, <1>9 DEF ApiRecovers
<1>10. CASE ScaleUp
  <2>1. PICK i \in Pods : Set(i, Fresh(template)) BY <1>10 DEF ScaleUp
  <2>2. template \in 0..2 BY <1>0
  <2> QED BY <1>0, <1>10, <1>f, <2>1, <2>2, SetType DEF ScaleUp
<1>11. CASE ScaleDown
  <2>1. PICK i \in Removable : Set(i, [pod[i] EXCEPT !.phase = "stopping"])
    BY <1>11 DEF ScaleDown
  <2>2. i \in Pods BY DEF Removable, Unready, Old, New, Counted
  <2> QED BY <1>0, <1>11, <1>u, <2>1, <2>2, SetType DEF ScaleDown
<1>12. CASE RollOut BY <1>0, <1>12, FaultType DEF RollOut
<1>13. CASE UNCHANGED vars BY <1>0, <1>13 DEF vars
<1> QED
  BY <1>1, <1>2, <1>3, <1>4, <1>5, <1>6, <1>7, <1>8, <1>9, <1>10, <1>11, <1>12, <1>13
     DEF Next, Process

-----------------------------------------------------------------------------
\* The state of Manager keeps its type: among other things, no leader goes on past
\* its deadline and the Lease names a Pod or nobody.
THEOREM TypeCorrect == Spec => []TypeOK
BY TypeInit, TypeStep, PTL DEF Spec

-----------------------------------------------------------------------------
(* Exclusive leadership *)

\* Why there is one leader: it holds the Lease, which was renewed no earlier than the
\* leader knows, so nobody finds the Lease expired before the leader gives up.
LeaderHolds ==
    \A i \in Pods : pod[i].leads =>
        /\ lease = i /\ pod[i].phase # "starting" /\ pod[i].watched = 0
        /\ \A j \in Pods : pod[j].watched <= pod[i].since + 1

LeaseInv == TypeOK /\ Spaced(options) /\ LeaderHolds

\* At first nobody leads, and the options in force are accepted, hence spaced.
LEMMA LeaseInit ==
    ASSUME \A o \in Settings : Validate(o) => Spaced(o)
    PROVE  Init => LeaseInv
<1> SUFFICES ASSUME Init PROVE LeaseInv OBVIOUS
<1>1. TypeOK BY TypeInit
<1>2. Spaced(options) BY DEF Init
<1>3. LeaderHolds BY DEF Init, LeaderHolds, NoPod
<1> QED BY <1>1, <1>2, <1>3 DEF LeaseInv

\* While somebody leads, nobody else finds the Lease expired or free.
LEMMA NotElectable ==
    ASSUME LeaseInv, NEW i \in Pods, pod[i].leads, NEW j \in Pods
    PROVE  ~Electable(j)
<1>1. lease = i /\ pod[j].watched <= pod[i].since + 1 BY DEF LeaseInv, LeaderHolds
<1>2. /\ pod[i].since \in 0..Deadline /\ pod[j].watched \in 0..(Timing.lease + 1)
      /\ options \in Settings
  BY DEF LeaseInv, TypeOK
<1>3. Timing.lease \in Nat /\ Deadline \in Nat BY <1>2, TimingType
<1>4. Deadline < Timing.lease BY DEF LeaseInv, Spaced, Deadline, Timing
<1>5. Nil \notin Pods BY ManagerAssumption
<1> QED BY <1>1, <1>2, <1>3, <1>4, <1>5 DEF Electable

\* Every step keeps the invariant.
LEMMA LeaseStep == LeaseInv /\ [Next]_vars => LeaseInv'
<1> SUFFICES ASSUME LeaseInv, [Next]_vars PROVE LeaseInv' OBVIOUS
<1>0. TypeOK /\ LeaderHolds /\ Spaced(options) BY DEF LeaseInv
<1>1. TypeOK' BY <1>0, TypeStep
<1>2. pod \in [Pods -> PodType] /\ options \in Settings BY <1>0 DEF TypeOK, PodType
<1>3. options' = options
  BY DEF Next, Process, StartProcess, Acquire, SyncCaches, Lose, Stop, Crash, Tick,
         ApiFails, ApiRecovers, ScaleUp, ScaleDown, RollOut, vars
<1>4. Spaced(options)' BY <1>0, <1>3 DEF Spaced, effectiveLeaderElectionTiming
<1>s. SUFFICES LeaderHolds' BY <1>1, <1>4 DEF LeaseInv
<1>w. \A j \in Pods : pod[j].since \in Nat /\ pod[j].watched \in Nat
  BY <1>2, TimingType DEF PodType
<1>5. ASSUME NEW i \in Pods, NEW p, Set(i, p), ~p.leads, p.watched \in 0..1,
             UNCHANGED lease
      PROVE  LeaderHolds'
  BY <1>0, <1>2, <1>w, <1>5 DEF LeaderHolds, Set
<1>6. ASSUME NEW i \in Pods, NEW p, Set(i, p), p.leads = pod[i].leads,
             p.since = pod[i].since, p.watched = pod[i].watched,
             p.phase # "starting", UNCHANGED lease
      PROVE  LeaderHolds'
  BY <1>0, <1>2, <1>6 DEF LeaderHolds, Set
<1>n. /\ ~NoPod.leads /\ NoPod.watched = 0
      /\ \A r : ~Fresh(r).leads /\ Fresh(r).watched = 0
  BY DEF NoPod, Fresh
<1>7. ASSUME NEW i \in Pods, Acquire(i) PROVE LeaderHolds'
  <2>1. \A j \in Pods : ~pod[j].leads BY <1>7, NotElectable DEF Acquire
  <2> DEFINE n(j) == IF j = i THEN 0 ELSE Min2(pod[j].watched, 1)
  <2>2. pod' = [j \in Pods |-> [pod[j] EXCEPT !.leads = pod[j].leads \/ j = i,
                                              !.watched = n(j)]]
    BY <1>2, <1>7 DEF Acquire
  <2>n. n(i) = 0 /\ \A j \in Pods : n(j) \in 0..1
    BY <1>w DEF Min2
  <2> HIDE DEF n
  <2>3. \A j \in Pods : j # i => ~pod'[j].leads BY <1>2, <2>1, <2>2, Zenon DEF PodType
  <2>4. \A j \in Pods : /\ pod'[j].watched = n(j) /\ pod'[j].since = pod[j].since
                        /\ pod'[j].phase = pod[j].phase
    BY <1>2, <2>2 DEF PodType
  <2>5. lease' = i /\ pod[i].phase = "running" BY <1>7 DEF Acquire
  <2> QED BY <1>w, <2>n, <2>3, <2>4, <2>5 DEF LeaderHolds
<1>8. ASSUME NEW i \in Pods, Stop(i) PROVE LeaderHolds'
  <2>1. Set(i, NoPod) BY <1>8 DEF Stop
  <2>2. CASE UNCHANGED lease BY <1>5, <1>n, <2>1, <2>2
  <2>3. CASE lease' # lease
    <3>1. lease = i BY <1>8, <2>3 DEF Stop
    <3>2. \A j \in Pods : pod[j].leads => j = i BY <1>0, <3>1 DEF LeaderHolds
    <3>3. \A j \in Pods : ~pod'[j].leads BY <1>2, <1>n, <2>1, <3>2 DEF Set
    <3> QED BY <3>3 DEF LeaderHolds
  <2> QED BY <2>2, <2>3
<1>9. CASE Tick
  <2> DEFINE renewed == {i \in Pods : Tries(i) /\ up /\ lease = i}
  <2> SUFFICES ASSUME NEW i \in Pods, pod'[i].leads, NEW j \in Pods
               PROVE  /\ lease' = i /\ pod'[i].phase # "starting"
                      /\ pod'[i].watched = 0
                      /\ pod'[j].watched <= pod'[i].since + 1
    BY DEF LeaderHolds
  <2>1. PICK K, r : pod' = After(K, r) /\ (~r => K = {})
    <3>1. \/ pod' = After(renewed, renewed # {})
          \/ pod' = After({}, TRUE)
      BY <1>9 DEF Tick
    <3>2. ~(renewed # {}) => renewed = {}
      OBVIOUS
    <3> HIDE DEF renewed
    <3> QED BY <3>1, <3>2, Zenon
  <2>2. pod[i].leads
    BY <1>2, <2>1 DEF After, PodType
  <2>3. /\ lease = i /\ pod[i].phase # "starting"
        /\ pod[i].watched = 0 /\ pod[j].watched <= pod[i].since + 1
    BY <1>0, <2>2 DEF LeaderHolds
  <2>4. /\ pod'[i].watched = 0 /\ pod'[i].phase # "starting"
        /\ pod'[i].since = IF i \in K THEN 0 ELSE pod[i].since + 1
    BY <1>2, <2>1, <2>2, <2>3 DEF After, PodType
  <2>5. pod'[j].watched <= pod'[i].since + 1
    <3>1. CASE j = i
      BY <1>w, <2>4, <3>1
    <3>2. CASE j # i
      <4>1. ~pod[j].leads
        BY <1>0, <2>3, <3>2 DEF LeaderHolds
      <4>2. pod'[j].watched = IF ~Sees(j) THEN 0 ELSE IF r THEN 1
                              ELSE Min2(pod[j].watched, Timing.lease) + 1
        BY <1>2, <2>1, <4>1 DEF After, PodType
      <4>3. CASE pod'[j].watched \in {0, 1}
        BY <1>w, <2>4, <4>3
      <4>4. CASE pod'[j].watched \notin {0, 1}
        <5>1. ~r /\ pod'[j].watched = Min2(pod[j].watched, Timing.lease) + 1
          BY <4>2, <4>4
        <5>2. pod'[i].since = pod[i].since + 1
          BY <2>1, <2>4, <5>1
        <5>3. Timing.lease \in Nat
          BY <1>2, TimingType
        <5> QED BY <1>w, <2>3, <5>1, <5>2, <5>3 DEF Min2
      <4> QED BY <4>3, <4>4
    <3> QED BY <3>1, <3>2
  <2>6. lease' = lease
    BY <1>9 DEF Tick
  <2> QED BY <2>3, <2>4, <2>5, <2>6
<1>10. ASSUME NEW i \in Pods,
              StartProcess(i) \/ SyncCaches(i) \/ Lose(i) \/ Crash(i)
       PROVE  LeaderHolds'
  <2>1. CASE StartProcess(i)
    <3> DEFINE n == IF up THEN 1 ELSE 0
    <3>1. n \in 0..1 /\ Set(i, [pod[i] EXCEPT !.phase = "running", !.watched = n])
      BY <2>1 DEF StartProcess
    <3> HIDE DEF n
    <3>2. ~pod[i].leads
      BY <1>0, <2>1 DEF LeaderHolds, StartProcess
    <3> DEFINE p == [pod[i] EXCEPT !.phase = "running", !.watched = n]
    <3>3. ~p.leads /\ p.watched \in 0..1
      BY <1>2, <3>1, <3>2 DEF PodType
    <3>4. Set(i, p) /\ UNCHANGED lease
      BY <2>1, <3>1 DEF StartProcess
    <3> HIDE DEF p
    <3> QED BY <1>5, <3>3, <3>4
  <2>2. CASE SyncCaches(i)
    BY <1>2, <1>6, <2>2 DEF SyncCaches, PodType
  <2>3. CASE Lose(i) BY <1>5, <1>n, <2>3 DEF Lose
  <2>4. CASE Crash(i) BY <1>5, <1>n, <2>4 DEF Crash
  <2> QED BY <1>10, <2>1, <2>2, <2>3, <2>4
<1>11. CASE ScaleUp BY <1>5, <1>n, <1>11 DEF ScaleUp
<1>12. CASE ScaleDown
  <2>1. PICK i \in Removable : Set(i, [pod[i] EXCEPT !.phase = "stopping"])
    BY <1>12 DEF ScaleDown
  <2>2. i \in Pods BY DEF Removable, Unready, Old, New, Counted
  <2> QED BY <1>2, <1>6, <1>12, <2>1, <2>2 DEF ScaleDown, PodType
<1>13. CASE ApiFails \/ ApiRecovers \/ RollOut \/ UNCHANGED vars
  BY <1>0, <1>13 DEF LeaderHolds, ApiFails, ApiRecovers, RollOut, vars
<1> QED
  BY <1>7, <1>8, <1>9, <1>10, <1>11, <1>12, <1>13 DEF Next, Process

\* Two managers never lead at once, whatever crashes, outages, lost renewals, kills
\* and rollouts happen, provided that RetryPeriod and RenewDeadline together stay
\* below LeaseDuration.  The defaults do; Options.Validate asks for less.
THEOREM LeaderExclusive ==
    ASSUME \A o \in Settings : Validate(o) => Spaced(o)
    PROVE  Spec => []ExclusiveLeader
<1>1. Init => LeaseInv BY LeaseInit
<1>2. LeaseInv => ExclusiveLeader BY DEF LeaseInv, LeaderHolds, ExclusiveLeader
<1> QED BY <1>1, <1>2, LeaseStep, PTL DEF Spec

\* The hypothesis above holds of the defaults.
LEMMA DefaultsSpaced == Spaced([lease |-> 0, renew |-> 0, retry |-> 0])
BY DEF Spaced, effectiveLeaderElectionTiming

=============================================================================
