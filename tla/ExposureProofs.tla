--------------------------- MODULE ExposureProofs ---------------------------
(***************************************************************************)
(* Proofs about Exposure, for any routing fields, any disturbances and any    *)
(* bounds.                                                                    *)
(***************************************************************************)
EXTENDS Exposure, StatusPatchProofs

Steps == {"validate", "apply", "observe", "report"}

Busy == work.pc # "idle"
Off(p) == ~HTTPRouteEnabled(p)
Forgot(p) == ~Previous(p)

\* o is the workload as it is or as it once was, up to its conditions.
Snapshot(o) ==
    /\ o.gen <= parent.gen /\ o.rv <= parent.rv
    /\ o.gen = parent.gen => o.spec = parent.spec
    /\ o.rv = parent.rv => o.gen = parent.gen

\* The cache is not behind the reconcile that was started from it, and a retry
\* is of the generation in hand.
Snapshots ==
    /\ Snapshot(pcache)
    /\ Busy => Snapshot(work.obj) /\ work.obj.gen <= pcache.gen
    /\ work.pc = "repatch" => /\ work.fresh \in Parents(Specs) /\ Snapshot(work.fresh)
                              /\ work.fresh.gen = work.obj.gen

\* Routes live only while their API is served, which comes and goes whole unless
\* CRDs are removed one by one.
Whole ==
    /\ route # Nil => "httproutes" \in served
    /\ "crd" \notin Disturbances => served \in {{}, Needs("GatewayAPI")}

\* Past the apply, or in a patch that goes on there, a route that is not asked for
\* is gone: nobody else makes routes.
Deleted == Busy /\ Position(work) = "observe" /\ Off(work.obj) => route = Nil

\* Once the condition is gone from the stored workload, or from a copy of its
\* generation in the cache or in hand, so is the route, and no copy that could
\* still bring it back is left.
Remembered ==
    "crd" \notin Disturbances /\ owed =>
        /\ Off(parent)
        /\ Forgot(parent) => route = Nil /\ Off(pcache) /\ (Busy => Off(work.obj))
        /\ pcache.gen = parent.gen /\ Forgot(pcache) =>
               route = Nil /\ (Busy => Off(work.obj))
        /\ Busy /\ work.obj.gen = parent.gen /\ Forgot(work.obj) => route = Nil

ExposureInv ==
    TypeOK /\ Engaged(Specs) /\ Snapshots /\ Whole /\ Deleted /\ Remembered

-----------------------------------------------------------------------------
(* Discovery *)

\* Discovery reports the feature absent only if a resource of it is missing.
LEMMA DetectUnavailable ==
    ASSUME NEW lost, Detect(served, lost, "GatewayAPI") = "Unavailable"
    PROVE  served # Needs("GatewayAPI")
<1> DEFINE need == RequirementFor("GatewayAPI")
           has(i) == HasResource(served, lost, need[i])
           bad == {i \in DOMAIN need : has(i) # "found"}
           first == CHOOSE i \in bad : \A j \in bad : i <= j
<1>1. DOMAIN need = {1, 2}
  BY DEF RequirementFor, requirements
<1>2. bad # {} /\ has(first) # "error"
  BY DEF Detect
<1>3. \E i \in bad : \A j \in bad : i <= j
  <2>1. bad \subseteq {1, 2} /\ bad # {}
    BY <1>1, <1>2
  <2> HIDE DEF bad
  <2>2. CASE 1 \in bad
    BY <2>1, <2>2
  <2>3. CASE 1 \notin bad
    <3>1. bad = {2}
      BY <2>1, <2>3
    <3> QED BY <3>1
  <2> QED BY <2>2, <2>3
<1>4. first \in bad
  <2> HIDE DEF bad
  <2> QED BY <1>3
<1>5. first \in DOMAIN need /\ has(first) # "found"
  BY <1>4
<1> HIDE DEF first
<1>6. need[first] \notin served
  BY <1>2, <1>5 DEF HasResource
<1>7. need[first] \in Needs("GatewayAPI")
  BY <1>5 DEF Needs
<1> QED BY <1>6, <1>7

-----------------------------------------------------------------------------
(* The workload in hand *)

\* The steps have names of their own.
LEMMA StepsProper == Proper(Steps)
  BY DEF Proper, Steps, Waiting

\* The invariant in the terms of StatusPatchProofs.
LEMMA ExposureFrame ==
    ASSUME ExposureInv
    PROVE  /\ StatusInv(Specs, Steps) /\ parent \in Parents(Specs)
           /\ pcache \in Parents(Specs) /\ work \in Works(Specs, Steps) /\ fuel \in Nat
           /\ queued \in BOOLEAN
           /\ Busy => work.obj \in Parents(Specs)
  BY DEF ExposureInv, TypeOK, StatusInv, StatusOK, Steps, Engaged, Busy

\* What is in hand after a step, if anything: revision rv, with the condition of a
\* route or without it, and no retry under way.
Handed(rv, remembers) ==
    work'.pc # "idle" =>
        /\ work'.obj.rv = rv /\ Previous(work'.obj) = remembers
        /\ work'.pc # "repatch"

\* The reconcile goes on with the object that it is given.
LEMMA ContinueHands ==
    ASSUME ExposureInv, NEW o \in Parents(Specs), NEW cont \in Steps \cup Ends,
           NEW failing \in BOOLEAN, Continue(o, cont, failing)
    PROVE  Handed(o.rv, Previous(o))
<1>1. CASE work' = Idle
  BY <1>1, IdleType DEF Handed
<1>2. CASE cont \notin Ends /\ work' = [Idle EXCEPT !.pc = cont, !.obj = o]
  <2>1. work'.pc = cont /\ work'.obj = o
    BY <1>2 DEF Idle
  <2>2. cont # "repatch"
    BY <1>2 DEF Steps, Ends
  <2> QED BY <2>1, <2>2 DEF Handed
<1> QED BY <1>1, <1>2 DEF Continue, Finish, Ends

\* The object handed to patchStatus has the new conditions.
LEMMA SubmitHands ==
    ASSUME ExposureInv, Busy, NEW conds \in Conditions, NEW cont \in Steps \cup Ends,
           NEW failing \in BOOLEAN, Submit(conds, cont, failing)
    PROVE  Handed(work.obj.rv, conds["ExposureReady"].s # "none")
<1>1. work.obj \in Parents(Specs)
  BY ExposureFrame
<1>2. CASE conds = work.obj.conds /\ Continue(work.obj, cont, failing)
  BY <1>1, <1>2, ContinueHands DEF Previous
<1>3. CASE work' = [pc |-> "patch", obj |-> [work.obj EXCEPT !.conds = conds],
                    fresh |-> Nil, cont |-> cont, failing |-> failing]
  <2> DEFINE o == [work.obj EXCEPT !.conds = conds]
  <2>1. o.rv = work.obj.rv /\ o.conds = conds
    BY <1>1 DEF Parents
  <2> HIDE DEF o
  <2>2. work'.pc = "patch" /\ work'.obj = o
    BY <1>3 DEF o
  <2> QED BY <2>1, <2>2 DEF Handed, Previous
<1> QED BY <1>2, <1>3 DEF Submit

\* A failure changes nothing about the memory of the route.
LEMMA FailureHands ==
    ASSUME ExposureInv, Busy, reportFailure
    PROVE  Handed(work.obj.rv, Previous(work.obj))
<1> DEFINE conds == SetCondition(work.obj, "Ready", "Unknown")
<1>1. work.obj \in Parents(Specs)
  BY ExposureFrame
<1>2. conds \in Conditions
  BY <1>1, SetConditionType DEF ConditionTypes
<1>3. conds["ExposureReady"] = work.obj.conds["ExposureReady"]
  BY <1>1 DEF SetCondition, Parents, Conditions, ConditionTypes
<1>4. Submit(conds, "idle", TRUE)
  BY DEF reportFailure
<1> HIDE DEF conds
<1>5. Handed(work.obj.rv, conds["ExposureReady"].s # "none")
  BY <1>2, <1>4, SubmitHands DEF Ends
<1> QED BY <1>3, <1>5 DEF Previous

\* A failed gate stores the condition, and with it the memory.
LEMMA GateErrorHands ==
    ASSUME ExposureInv, Busy, reportGateError("ExposureReady")
    PROVE  Handed(work.obj.rv, TRUE)
<1> DEFINE failed == [s |-> "False", gen |-> work.obj.gen]
           conds == [work.obj.conds EXCEPT !["Ready"] = failed, !["ExposureReady"] = failed]
<1>1. work.obj \in Parents(Specs)
  BY ExposureFrame
<1>2. failed \in Condition /\ work.obj.conds \in Conditions /\ failed.s # "none"
  BY <1>1 DEF Parents, Condition
<1>3. conds \in Conditions /\ conds["ExposureReady"] = failed
  <2> HIDE DEF failed
  <2> QED BY <1>2 DEF Conditions, ConditionTypes
<1>4. Submit(conds, "idle", TRUE)
  BY DEF reportGateError
<1> HIDE DEF conds, failed
<1>5. Handed(work.obj.rv, conds["ExposureReady"].s # "none")
  BY <1>3, <1>4, SubmitHands DEF Ends
<1>6. (conds["ExposureReady"].s # "none") = TRUE
  BY <1>2, <1>3
<1> QED BY <1>5, <1>6

\* A failed patch changes nothing about the memory either.
LEMMA PatchFailsHands ==
    ASSUME ExposureInv, Busy, PatchFails
    PROVE  Handed(work.obj.rv, Previous(work.obj))
<1>1. CASE work' = Idle
  BY <1>1, IdleType DEF Handed
<1> QED BY <1>1, FailureHands DEF PatchFails, Finish

\* Going on without a patch keeps the object.
LEMMA GotoHands ==
    ASSUME ExposureInv, Busy, NEW pc \in Steps, Goto(pc)
    PROVE  Handed(work.obj.rv, Previous(work.obj))
<1>1. work'.pc = pc /\ work'.obj = work.obj /\ pc # "repatch"
  BY ExposureFrame DEF Goto, Works, Steps
<1> QED BY <1>1 DEF Handed
-----------------------------------------------------------------------------
(* Steps of the reconcile that leave the stored workload alone *)

\* Only a reconcile of a workload that asks for a route makes one, and only
\* without a route does it drop the condition.
LEMMA StepKeeps ==
    ASSUME ExposureInv, Busy, NEW cont, NEW remembers \in BOOLEAN,
           Resumed(Specs, Steps, cont), Handed(work.obj.rv, remembers),
           UNCHANGED <<parent, pcache, served, gateway, owed>>, fuel' \in Nat,
           route' \in HTTPRoutes \cup {Nil}, route' # Nil => "httproutes" \in served,
           \/ route' = route \/ route' = Nil
           \/ HTTPRouteEnabled(work.obj),
           Previous(work.obj) /\ ~remembers /\ "crd" \notin Disturbances => route' = Nil,
           cont = "observe" /\ Off(work.obj) => route' = Nil
    PROVE  ExposureInv'
<1>1. /\ StatusInv(Specs, Steps) /\ parent \in Parents(Specs) /\ pcache \in Parents(Specs)
      /\ work.obj \in Parents(Specs)
  BY ExposureFrame
<1>2. StatusInv(Specs, Steps)'
  BY <1>1, ResumedInv
<1>3. TypeOK' /\ Engaged(Specs)'
  BY <1>2 DEF ExposureInv, TypeOK, StatusInv, Steps
<1>4. Busy' => /\ work'.obj.gen = work.obj.gen /\ work'.obj.spec = work.obj.spec
               /\ work'.obj.rv = work.obj.rv /\ Previous(work'.obj) = remembers
               /\ work'.pc # "repatch" /\ Position(work') = cont
  BY IdleType DEF Resumed, Handed, Busy
<1>5. work'.pc = "repatch" => Busy'
  BY DEF Busy
<1>6. Snapshots'
  BY <1>4, <1>5 DEF ExposureInv, Snapshots, Snapshot
<1>7. Whole'
  BY DEF ExposureInv, Whole
<1>8. Deleted'
  BY <1>4 DEF Deleted, Off, HTTPRouteEnabled
<1>9. Remembered'
  <2> SUFFICES ASSUME "crd" \notin Disturbances, owed
               PROVE  /\ Off(parent)
                      /\ Forgot(parent) => /\ route' = Nil /\ Off(pcache)
                                           /\ Busy' => Off(work'.obj)
                      /\ pcache.gen = parent.gen /\ Forgot(pcache) =>
                             route' = Nil /\ (Busy' => Off(work'.obj))
                      /\ Busy' /\ work'.obj.gen = parent.gen /\ Forgot(work'.obj) =>
                             route' = Nil
    BY DEF Remembered, Off, Forgot, HTTPRouteEnabled, Previous
  <2>1. /\ Off(parent)
        /\ Forgot(parent) => route = Nil /\ Off(pcache) /\ Off(work.obj)
        /\ pcache.gen = parent.gen /\ Forgot(pcache) => route = Nil /\ Off(work.obj)
        /\ work.obj.gen = parent.gen /\ Forgot(work.obj) => route = Nil
    BY DEF ExposureInv, Remembered
  <2>2. Busy' /\ Off(work.obj) => Off(work'.obj)
    BY <1>4 DEF Off, HTTPRouteEnabled
  <2>3. route = Nil /\ Off(work.obj) => route' = Nil
    BY DEF Off
  <2>4. work.obj.gen = parent.gen => Off(work.obj)
    BY <2>1 DEF ExposureInv, Snapshots, Snapshot, Off, HTTPRouteEnabled
  <2>5. Busy' /\ work'.obj.gen = parent.gen /\ Forgot(work'.obj) => route' = Nil
    <3> SUFFICES ASSUME Busy', work'.obj.gen = parent.gen, Forgot(work'.obj)
                 PROVE  route' = Nil
      OBVIOUS
    <3>1. work.obj.gen = parent.gen /\ ~remembers
      BY <1>4 DEF Forgot
    <3> QED BY <2>1, <2>3, <2>4, <3>1 DEF Forgot
  <2> QED BY <2>1, <2>2, <2>3, <2>5
<1> QED BY <1>3, <1>6, <1>7, <1>8, <1>9 DEF ExposureInv

\* The same for a step that leaves the cluster alone and keeps or adds the
\* condition.
LEMMA QuietStepKeeps ==
    ASSUME ExposureInv, Busy, NEW cont, cont # "observe", NEW remembers \in BOOLEAN,
           Resumed(Specs, Steps, cont), Handed(work.obj.rv, remembers),
           Previous(work.obj) => remembers,
           UNCHANGED <<parent, pcache, clusterVars>>, fuel' \in Nat
    PROVE  ExposureInv'
<1>1. route' \in HTTPRoutes \cup {Nil} /\ (route' # Nil => "httproutes" \in served)
  BY DEF clusterVars, ExposureInv, TypeOK, Whole
<1>2. UNCHANGED <<parent, pcache, served, gateway, owed>> /\ route' = route
  BY DEF clusterVars
<1> QED BY <1>1, <1>2, StepKeeps

\* A reconcile starts from the cache.
LEMMA StartStep ==
    ASSUME ExposureInv, Start
    PROVE  ExposureInv'
<1>1. StatusInv(Specs, Steps) /\ pcache \in Parents(Specs) /\ Proper(Steps)
  BY ExposureFrame, StepsProper
<1>2. /\ work' \in Works(Specs, Steps) /\ queued' \in BOOLEAN
      /\ work'.pc = "validate" /\ work'.obj = pcache /\ Position(work') = "validate"
      /\ UNCHANGED <<fuel, parent, pcache>>
  BY <1>1, BeginStep DEF Start, Steps
<1>3. UNCHANGED clusterVars
  BY DEF Start
<1>4. TypeOK' /\ Engaged(Specs)'
  BY <1>1, <1>2, <1>3
  DEF ExposureInv, TypeOK, StatusOK, Engaged, Steps, clusterVars
<1>5. Snapshots'
  <2>1. pcache.gen <= pcache.gen
    BY <1>1 DEF Parents
  <2> QED BY <1>2, <2>1 DEF ExposureInv, Snapshots, Snapshot
<1>6. Whole' /\ Deleted'
  BY <1>2, <1>3 DEF clusterVars, ExposureInv, Whole, Deleted
<1>7. Remembered'
  BY <1>2, <1>3
  DEF clusterVars, ExposureInv, Snapshots, Snapshot, Remembered, Busy, Off, Forgot,
      HTTPRouteEnabled, Previous
<1> QED BY <1>4, <1>5, <1>6, <1>7 DEF ExposureInv
\* The memory is dropped here only when discovery finds no Gateway API, and so no
\* route.
LEMMA ValidateStep ==
    ASSUME ExposureInv, validateExposure
    PROVE  ExposureInv'
<1>1. /\ StatusInv(Specs, Steps) /\ Proper(Steps) /\ Busy /\ work.pc # "idle"
      /\ work.obj \in Parents(Specs) /\ fuel \in Nat
  BY ExposureFrame, StepsProper DEF validateExposure, Busy
<1>2. UNCHANGED <<parent, pcache, clusterVars>>
  BY DEF validateExposure
<1>3. fuel' \in Nat
  BY <1>1, FaultType DEF validateExposure, Discovered
<1>4. CASE reportFailure
  <2>1. Resumed(Specs, Steps, "idle") /\ Handed(work.obj.rv, Previous(work.obj))
    BY <1>1, <1>4, FailureResumes, FailureHands
  <2>2. Previous(work.obj) \in BOOLEAN
    BY DEF Previous
  <2> QED BY <1>1, <1>2, <1>3, <2>1, <2>2, QuietStepKeeps
<1>5. CASE reportGateError("ExposureReady")
  <2>1. Resumed(Specs, Steps, "idle") /\ Handed(work.obj.rv, TRUE)
    BY <1>1, <1>5, GateErrorResumes, GateErrorHands DEF ConditionTypes
  <2> QED BY <1>1, <1>2, <1>3, <2>1, QuietStepKeeps
<1>6. ASSUME NEW pc \in {"apply", "report"}, Goto(pc)
      PROVE  ExposureInv'
  <2>1. Resumed(Specs, Steps, pc) /\ Handed(work.obj.rv, Previous(work.obj))
    BY <1>1, <1>6, GotoResumes, GotoHands DEF Steps
  <2>2. Previous(work.obj) \in BOOLEAN
    BY DEF Previous
  <2> QED BY <1>1, <1>2, <1>3, <2>1, <2>2, QuietStepKeeps
<1>7. CASE Discovered("Unavailable") /\ Submit(Forget(work.obj), "report", FALSE)
  <2>1. Forget(work.obj) \in Conditions /\ Forget(work.obj)["ExposureReady"] = NoCondition
    BY <1>1, RemoveConditionType
    DEF Forget, RemoveCondition, ConditionTypes, Parents, Conditions
  <2>2. /\ Resumed(Specs, Steps, "report")
        /\ Handed(work.obj.rv, Forget(work.obj)["ExposureReady"].s # "none")
    BY <1>1, <1>7, <2>1, SubmitResumes, SubmitHands DEF Steps
  <2>3. (Forget(work.obj)["ExposureReady"].s # "none") = FALSE
    BY <2>1 DEF NoCondition
  <2>4. Handed(work.obj.rv, FALSE)
    BY <2>2, <2>3
  <2>5. "crd" \notin Disturbances => route = Nil
    <3>1. served # Needs("GatewayAPI")
      BY <1>7, DetectUnavailable DEF Discovered
    <3> QED BY <3>1 DEF ExposureInv, Whole
  <2>6. /\ route' = route /\ UNCHANGED <<parent, pcache, served, gateway, owed>>
        /\ route' \in HTTPRoutes \cup {Nil} /\ (route' # Nil => "httproutes" \in served)
    BY <1>2 DEF clusterVars, ExposureInv, TypeOK, Whole
  <2> QED BY <1>1, <1>3, <2>2, <2>4, <2>5, <2>6, StepKeeps
<1> QED BY <1>4, <1>5, <1>6, <1>7 DEF validateExposure

\* The engine makes a route only for a workload that asks for it.
LEMMA ApplyStep ==
    ASSUME ExposureInv, ApplyRoute
    PROVE  ExposureInv'
<1>1. /\ StatusInv(Specs, Steps) /\ Proper(Steps) /\ Busy /\ work.pc # "idle"
      /\ work.obj \in Parents(Specs) /\ fuel \in Nat
  BY ExposureFrame, StepsProper DEF ApplyRoute, Busy
<1>2. UNCHANGED <<parent, pcache, served, gateway, owed>> /\ fuel' \in Nat
  BY <1>1, FaultType DEF ApplyRoute
<1>3. Previous(work.obj) \in BOOLEAN
  BY DEF Previous
<1>4. CASE reportFailure /\ UNCHANGED route
  <2>1. Resumed(Specs, Steps, "idle") /\ Handed(work.obj.rv, Previous(work.obj))
    BY <1>1, <1>4, FailureResumes, FailureHands
  <2>2. UNCHANGED clusterVars
    BY <1>2, <1>4 DEF clusterVars
  <2> QED BY <1>1, <1>2, <1>3, <2>1, <2>2, QuietStepKeeps
<1>5. CASE Goto("observe") /\ "httproutes" \in served
           /\ \/ HTTPRouteEnabled(work.obj)
                 /\ route' = [spec |-> work.obj.spec.route,
                              entry |-> IF route = Nil THEN Nil ELSE route.entry]
              \/ ~HTTPRouteEnabled(work.obj) /\ route' = Nil
  <2>1. Resumed(Specs, Steps, "observe") /\ Handed(work.obj.rv, Previous(work.obj))
    BY <1>1, <1>5, GotoResumes, GotoHands DEF Steps
  <2>2. route' \in HTTPRoutes \cup {Nil}
    <3>1. HTTPRouteEnabled(work.obj) => work.obj.spec.route \in Routes
      BY <1>1 DEF Parents, Specs, HTTPRouteEnabled
    <3>2. (IF route = Nil THEN Nil ELSE route.entry) \in Entries \cup {Nil}
      BY DEF ExposureInv, TypeOK, HTTPRoutes
    <3> QED BY <1>5, <3>1, <3>2 DEF HTTPRoutes
  <2>3. /\ route' = Nil \/ HTTPRouteEnabled(work.obj)
        /\ Off(work.obj) => route' = Nil
    BY <1>5 DEF Off
  <2> QED BY <1>1, <1>2, <1>3, <1>5, <2>1, <2>2, <2>3, StepKeeps
<1> QED BY <1>4, <1>5 DEF ApplyRoute

\* The memory is dropped here only after the route.
LEMMA ObserveStep ==
    ASSUME ExposureInv, observeExposure
    PROVE  ExposureInv'
<1>1. /\ StatusInv(Specs, Steps) /\ Proper(Steps) /\ Busy /\ work.pc = "observe"
      /\ work.pc # "idle" /\ work.obj \in Parents(Specs) /\ fuel \in Nat
  BY ExposureFrame, StepsProper DEF observeExposure, Busy
<1>2. UNCHANGED <<parent, pcache, clusterVars>> /\ fuel' \in Nat
  BY <1>1, FaultType DEF observeExposure
<1>3. CASE reportFailure
  <2>1. Resumed(Specs, Steps, "idle") /\ Handed(work.obj.rv, Previous(work.obj))
    BY <1>1, <1>3, FailureResumes, FailureHands
  <2>2. Previous(work.obj) \in BOOLEAN
    BY DEF Previous
  <2> QED BY <1>1, <1>2, <2>1, <2>2, QuietStepKeeps
<1>4. ASSUME NEW verdict \in {"True", "False"},
             Submit(setExposureCondition(work.obj, verdict), "report", FALSE)
      PROVE  ExposureInv'
  <2> DEFINE conds == setExposureCondition(work.obj, verdict)
  <2>1. conds \in Conditions
    BY <1>1, SetConditionType DEF setExposureCondition, ConditionTypes
  <2>2. conds["ExposureReady"].s = verdict
    BY <1>1 DEF setExposureCondition, SetCondition, ConditionTypes, Parents, Conditions
  <2> HIDE DEF conds
  <2>3. /\ Resumed(Specs, Steps, "report")
        /\ Handed(work.obj.rv, conds["ExposureReady"].s # "none")
    BY <1>1, <1>4, <2>1, SubmitResumes, SubmitHands DEF Steps, conds
  <2>4. (conds["ExposureReady"].s # "none") = TRUE
    BY <2>2
  <2> QED BY <1>1, <1>2, <2>3, <2>4, QuietStepKeeps
<1>5. CASE ~HTTPRouteEnabled(work.obj) /\ Submit(Forget(work.obj), "report", FALSE)
  <2>1. Forget(work.obj) \in Conditions /\ Forget(work.obj)["ExposureReady"] = NoCondition
    BY <1>1, RemoveConditionType
    DEF Forget, RemoveCondition, ConditionTypes, Parents, Conditions
  <2>2. /\ Resumed(Specs, Steps, "report")
        /\ Handed(work.obj.rv, Forget(work.obj)["ExposureReady"].s # "none")
    BY <1>1, <1>5, <2>1, SubmitResumes, SubmitHands DEF Steps
  <2>3. (Forget(work.obj)["ExposureReady"].s # "none") = FALSE
    BY <2>1 DEF NoCondition
  <2>4. Handed(work.obj.rv, FALSE)
    BY <2>2, <2>3
  <2>5. route = Nil
    BY <1>1, <1>5 DEF ExposureInv, Deleted, Position, Waiting, Off
  <2>6. /\ route' = route /\ UNCHANGED <<parent, pcache, served, gateway, owed>>
        /\ route' \in HTTPRoutes \cup {Nil}
    BY <1>2, <2>5 DEF clusterVars
  <2> QED BY <1>1, <1>2, <2>2, <2>4, <2>5, <2>6, StepKeeps
<1> QED BY <1>3, <1>4, <1>5 DEF observeExposure

\* The last report leaves the memory alone.
LEMMA ReportKeeps ==
    ASSUME ExposureInv, Report(Requeue(work.obj)), UNCHANGED clusterVars
    PROVE  ExposureInv'
<1> DEFINE conds == SetCondition(work.obj, "Ready", "True")
           cont == Requeue(work.obj)
<1>1. /\ StatusInv(Specs, Steps) /\ Proper(Steps) /\ Busy /\ work.pc # "idle"
      /\ work.obj \in Parents(Specs) /\ fuel \in Nat
  BY ExposureFrame, StepsProper DEF Report, Busy
<1>2. cont \in Ends /\ cont # "observe"
  BY DEF Requeue, Ends
<1>3. Submit(conds, cont, FALSE) /\ UNCHANGED <<fuel, parent, pcache>> /\ Report(cont)
  BY DEF Report
<1>4. conds \in Conditions
  BY <1>1, SetConditionType DEF ConditionTypes
<1>5. conds["ExposureReady"] = work.obj.conds["ExposureReady"]
  BY <1>1 DEF SetCondition, Parents, Conditions, ConditionTypes
<1> HIDE DEF conds, cont
<1>6. /\ Resumed(Specs, Steps, cont)
      /\ Handed(work.obj.rv, conds["ExposureReady"].s # "none")
  BY <1>1, <1>2, <1>3, <1>4, ReportStep, SubmitHands
<1>7. Handed(work.obj.rv, Previous(work.obj)) /\ Previous(work.obj) \in BOOLEAN
  BY <1>5, <1>6 DEF Previous
<1> QED BY <1>1, <1>2, <1>3, <1>6, <1>7, QuietStepKeeps
-----------------------------------------------------------------------------
(* Status writes *)

\* A write is of the stored generation, so that what it drops has been dropped
\* for the spec that is stored.
LEMMA WriteKeeps ==
    ASSUME ExposureInv, Busy, work.obj.gen = parent.gen, NEW cont,
           Resumed(Specs, Steps, cont), cont \in {Position(work), "idle"},
           NEW rv \in Nat, Handed(rv, Previous(work.obj)), rv <= parent.rv + 1,
           parent' = [parent EXCEPT !.rv = parent.rv + 1, !.conds = work.obj.conds],
           UNCHANGED <<pcache, clusterVars>>, fuel' \in Nat
    PROVE  ExposureInv'
<1>1. /\ StatusInv(Specs, Steps) /\ parent \in Parents(Specs) /\ pcache \in Parents(Specs)
      /\ work.obj \in Parents(Specs)
  BY ExposureFrame
<1>2. /\ parent'.gen = parent.gen /\ parent'.spec = parent.spec
      /\ parent'.rv = parent.rv + 1 /\ parent'.conds = work.obj.conds
      /\ parent' \in Parents(Specs)
  <2>1. parent.rv + 1 \in Nat /\ work.obj.conds \in Conditions
    BY <1>1 DEF Parents
  <2> QED BY <1>1, <2>1 DEF Parents
<1>3. StatusInv(Specs, Steps)'
  BY <1>1, <1>2, ResumedInv
<1>4. TypeOK' /\ Engaged(Specs)'
  BY <1>3 DEF ExposureInv, TypeOK, StatusInv, Steps, clusterVars
<1>5. Busy' => /\ work'.obj.gen = work.obj.gen /\ work'.obj.spec = work.obj.spec
               /\ work'.obj.rv = rv /\ Previous(work'.obj) = Previous(work.obj)
               /\ work'.pc # "repatch" /\ Position(work') = cont
  BY IdleType DEF Resumed, Handed, Busy
<1>6. /\ work.obj.spec = parent.spec /\ pcache.gen = parent.gen
      /\ pcache.spec = parent.spec /\ pcache.rv < parent'.rv
  <2>1. /\ pcache.gen \in Nat /\ parent.gen \in Nat /\ pcache.rv \in Nat
        /\ parent.rv \in Nat
    BY <1>1 DEF Parents
  <2>2. /\ pcache.gen <= parent.gen /\ parent.gen <= pcache.gen /\ pcache.rv <= parent.rv
        /\ pcache.gen = parent.gen => pcache.spec = parent.spec
        /\ work.obj.spec = parent.spec
    BY DEF ExposureInv, Snapshots, Snapshot
  <2> QED BY <1>2, <2>1, <2>2
<1>7. Snapshots'
  <2>1. Snapshot(pcache)'
    <3>1. /\ pcache.rv \in Nat /\ parent'.rv \in Nat /\ pcache.gen \in Nat
      BY <1>1, <1>2 DEF Parents
    <3>2. /\ pcache.gen <= parent'.gen /\ pcache.rv <= parent'.rv
          /\ pcache.rv # parent'.rv /\ pcache.spec = parent'.spec
      BY <1>2, <1>6, <3>1
    <3> QED BY <3>2 DEF Snapshot
  <2>2. Busy' => Snapshot(work.obj)' /\ work'.obj.gen <= pcache.gen
    <3>1. parent.gen \in Nat /\ parent.gen <= parent.gen
      BY <1>1 DEF Parents
    <3> QED BY <1>2, <1>5, <1>6, <3>1 DEF Snapshot
  <2>3. work'.pc # "repatch"
    BY <1>5 DEF Busy
  <2> QED BY <2>1, <2>2, <2>3 DEF Snapshots
<1>8. Whole'
  BY DEF clusterVars, ExposureInv, Whole
<1>9. Deleted'
  BY <1>5 DEF clusterVars, ExposureInv, Deleted, Off, HTTPRouteEnabled
<1>10. Remembered'
  <2> SUFFICES ASSUME "crd" \notin Disturbances, owed
               PROVE  /\ Off(parent')
                      /\ Forgot(parent') => /\ route = Nil /\ Off(pcache)
                                            /\ Busy' => Off(work'.obj)
                      /\ Forgot(pcache) => route = Nil /\ (Busy' => Off(work'.obj))
                      /\ Busy' /\ Forgot(work'.obj) => route = Nil
    BY DEF clusterVars, Remembered, Off, Forgot, HTTPRouteEnabled, Previous
  <2>1. /\ Off(parent)
        /\ Forgot(pcache) => route = Nil
        /\ Forgot(work.obj) => route = Nil
    BY <1>6 DEF ExposureInv, Remembered
  <2>2. /\ Off(parent') /\ Off(pcache) /\ Off(work.obj)
        /\ Busy' => Off(work'.obj)
    BY <1>2, <1>5, <1>6, <2>1 DEF Off, HTTPRouteEnabled
  <2>3. /\ Forgot(parent') => Forgot(work.obj)
        /\ Busy' /\ Forgot(work'.obj) => Forgot(work.obj)
    BY <1>2, <1>5 DEF Forgot, Previous
  <2> QED BY <2>1, <2>2, <2>3
<1> QED BY <1>4, <1>7, <1>8, <1>9, <1>10 DEF ExposureInv

\* patchStatus ends without a write: the memory in hand is what it was.
LEMMA NoWriteKeeps ==
    ASSUME ExposureInv, Busy, NEW cont, Resumed(Specs, Steps, cont),
           cont \in {Position(work), "idle"}, Handed(work.obj.rv, Previous(work.obj)),
           UNCHANGED <<parent, pcache, clusterVars>>, fuel' \in Nat
    PROVE  ExposureInv'
<1>1. /\ route' \in HTTPRoutes \cup {Nil} /\ (route' # Nil => "httproutes" \in served)
      /\ route' = route /\ UNCHANGED <<parent, pcache, served, gateway, owed>>
  BY DEF clusterVars, ExposureInv, TypeOK, Whole
<1>2. cont = "observe" /\ Off(work.obj) => route' = Nil
  BY <1>1 DEF ExposureInv, Deleted
<1>3. Previous(work.obj) \in BOOLEAN
  BY DEF Previous
<1> QED BY <1>1, <1>2, <1>3, StepKeeps

\* A status write under the lock of the generation in hand.
LEMMA AttemptKeeps ==
    ASSUME ExposureInv, work.pc \in Waiting, NEW lock \in Parents(Specs), Snapshot(lock),
           lock.gen = work.obj.gen, NEW o \in Parents(Specs), o.spec = work.obj.spec,
           o.gen = work.obj.gen, o.conds = work.obj.conds, o.rv <= parent.rv + 1,
           Attempt(lock, o), UNCHANGED <<pcache, clusterVars>>
    PROVE  ExposureInv'
<1>1. /\ StatusInv(Specs, Steps) /\ Proper(Steps) /\ Busy /\ work.pc # "idle"
      /\ work.obj \in Parents(Specs) /\ parent \in Parents(Specs)
      /\ work \in Works(Specs, Steps) /\ fuel \in Nat
  BY ExposureFrame, StepsProper DEF Busy, Waiting
<1>2. /\ work.cont \in Steps \cup Ends /\ work.failing \in BOOLEAN
      /\ Position(work) = work.cont
  BY <1>1 DEF Works, Ends, Position
<1>3. PatchFails => /\ Resumed(Specs, Steps, "idle")
                    /\ Handed(work.obj.rv, Previous(work.obj))
  BY <1>1, PatchFailsResumes, PatchFailsHands
<1>4. fuel' \in Nat
  BY <1>1, FaultType DEF Attempt
<1>5. CASE PatchFails /\ UNCHANGED parent
  BY <1>1, <1>3, <1>4, <1>5, NoWriteKeeps
<1>6. CASE /\ Lock(lock)
           /\ parent' = [parent EXCEPT !.rv = parent.rv + 1, !.conds = work.obj.conds]
           /\ Continue(o, work.cont, work.failing) \/ PatchFails
  <2>1. work.obj.gen = parent.gen
    BY <1>6 DEF Lock, Snapshot
  <2>2. /\ o.rv \in Nat /\ work.obj.rv \in Nat /\ parent.rv \in Nat
        /\ work.obj.rv <= parent.rv
    BY <1>1 DEF Parents, ExposureInv, Snapshots, Snapshot
  <2>3. CASE Continue(o, work.cont, work.failing)
    <3>1. Resumed(Specs, Steps, work.cont)
      BY <1>1, <1>2, <2>3, ContinueResumes
    <3>2. Handed(o.rv, Previous(o))
      BY <1>2, <2>3, ContinueHands
    <3>3. Handed(o.rv, Previous(work.obj))
      BY <3>2 DEF Previous
    <3> QED BY <1>1, <1>2, <1>4, <1>6, <2>1, <2>2, <3>1, <3>3, WriteKeeps
  <2>4. CASE PatchFails
    <3>1. work.obj.rv <= parent.rv + 1
      BY <2>2
    <3> QED BY <1>1, <1>3, <1>4, <1>6, <2>1, <2>2, <2>4, <3>1, WriteKeeps
  <2> QED BY <1>6, <2>3, <2>4
<1> QED BY <1>5, <1>6 DEF Attempt

\* The first attempt, under the lock of the object in hand.
LEMMA PatchKeeps ==
    ASSUME ExposureInv, Patch, UNCHANGED clusterVars
    PROVE  ExposureInv'
<1>1. /\ work.pc \in Waiting /\ Busy /\ work.obj \in Parents(Specs)
      /\ parent \in Parents(Specs) /\ work \in Works(Specs, Steps) /\ pcache' = pcache
      /\ work.pc = "patch"
  BY ExposureFrame DEF Patch, Waiting, Busy
<1>2. CASE Attempt(work.obj, [work.obj EXCEPT !.rv = parent.rv + 1])
  <2> DEFINE o == [work.obj EXCEPT !.rv = parent.rv + 1]
  <2>1. parent.rv + 1 \in Nat /\ parent.rv + 1 <= parent.rv + 1
    BY <1>1 DEF Parents
  <2>2. /\ o \in Parents(Specs) /\ o.spec = work.obj.spec /\ o.gen = work.obj.gen
        /\ o.conds = work.obj.conds /\ o.rv = parent.rv + 1
    BY <1>1, <2>1 DEF Parents
  <2>3. Attempt(work.obj, o)
    BY <1>2
  <2> HIDE DEF o
  <2>4. Snapshot(work.obj)
    BY <1>1 DEF ExposureInv, Snapshots
  <2> QED BY <1>1, <2>1, <2>2, <2>3, <2>4, AttemptKeeps
<1>3. CASE work' = [work EXCEPT !.pc = "reread"] /\ UNCHANGED <<fuel, parent, queued>>
  <2>1. /\ work' \in Works(Specs, Steps) /\ work'.pc = "reread" /\ work'.obj = work.obj
        /\ work'.cont = work.cont
    BY <1>1, <1>3 DEF Works
  <2>2. Resumed(Specs, Steps, Position(work)) /\ Handed(work.obj.rv, Previous(work.obj))
    BY <1>1, <1>3, <2>1, ExposureFrame DEF Resumed, Handed, Position, Waiting
  <2>3. fuel' \in Nat
    BY <1>3, ExposureFrame
  <2> QED BY <1>1, <1>3, <2>2, <2>3, NoWriteKeeps
<1> QED BY <1>2, <1>3 DEF Patch
\* The retry takes the cached workload, of the generation in hand.
LEMMA RereadKeeps ==
    ASSUME ExposureInv, Reread, UNCHANGED clusterVars
    PROVE  ExposureInv'
<1>1. /\ StatusInv(Specs, Steps) /\ Proper(Steps) /\ Busy /\ work.pc # "idle"
      /\ work.obj \in Parents(Specs) /\ pcache \in Parents(Specs)
      /\ work \in Works(Specs, Steps) /\ fuel \in Nat /\ queued \in BOOLEAN
      /\ work.pc = "reread" /\ UNCHANGED <<fuel, parent, pcache>>
  BY ExposureFrame, StepsProper DEF Reread, Busy
<1>2. /\ work.cont \in Steps \cup Ends /\ work.failing \in BOOLEAN
      /\ Position(work) = work.cont
  BY <1>1 DEF Works, Ends, Position, Waiting
<1>3. CASE PatchFails
  <2>1. Resumed(Specs, Steps, "idle") /\ Handed(work.obj.rv, Previous(work.obj))
    BY <1>1, <1>3, PatchFailsResumes, PatchFailsHands
  <2> QED BY <1>1, <2>1, NoWriteKeeps
<1>4. CASE Continue(work.obj, work.cont, work.failing)
  <2>1. Resumed(Specs, Steps, work.cont)
    BY <1>1, <1>2, <1>4, ContinueResumes
  <2>2. Handed(work.obj.rv, Previous(work.obj))
    BY <1>1, <1>2, <1>4, ContinueHands
  <2> QED BY <1>1, <1>2, <2>1, <2>2, NoWriteKeeps
<1>5. CASE /\ SameGeneration(pcache)
           /\ work' = [work EXCEPT !.pc = "repatch", !.fresh = pcache]
           /\ UNCHANGED queued
  <2>1. /\ work' \in Works(Specs, Steps) /\ work'.pc = "repatch" /\ work'.obj = work.obj
        /\ work'.cont = work.cont /\ work'.fresh = pcache
    BY <1>1, <1>5 DEF Works
  <2>2. TypeOK' /\ Engaged(Specs)'
    BY <1>1, <1>5, <2>1
    DEF ExposureInv, TypeOK, StatusOK, Engaged, Steps, clusterVars
  <2>3. Busy' /\ Position(work') = Position(work)
    BY <1>2, <2>1 DEF Busy, Position, Waiting
  <2>4. Snapshots'
    BY <1>1, <1>5, <2>1 DEF ExposureInv, Snapshots, Snapshot, SameGeneration
  <2>5. Whole'
    BY DEF clusterVars, ExposureInv, Whole
  <2>6. Deleted'
    BY <1>1, <2>1, <2>3 DEF clusterVars, ExposureInv, Deleted
  <2>7. Remembered'
    BY <1>1, <2>1, <2>3 DEF clusterVars, ExposureInv, Remembered
  <2> QED BY <2>2, <2>4, <2>5, <2>6, <2>7 DEF ExposureInv
<1> QED BY <1>3, <1>4, <1>5 DEF Reread

\* The second attempt, under the lock of the object that was read.
LEMMA RepatchKeeps ==
    ASSUME ExposureInv, Repatch, UNCHANGED clusterVars
    PROVE  ExposureInv'
<1>1. /\ StatusInv(Specs, Steps) /\ Proper(Steps) /\ Busy /\ work.pc # "idle"
      /\ work.pc \in Waiting /\ work.obj \in Parents(Specs)
      /\ parent \in Parents(Specs) /\ fuel \in Nat /\ pcache' = pcache
  BY ExposureFrame, StepsProper DEF Repatch, Busy, Waiting
<1>2. CASE PatchFails /\ UNCHANGED <<fuel, parent>>
  <2>1. Resumed(Specs, Steps, "idle") /\ Handed(work.obj.rv, Previous(work.obj))
    BY <1>1, <1>2, PatchFailsResumes, PatchFailsHands
  <2> QED BY <1>1, <1>2, <2>1, NoWriteKeeps
<1>3. CASE Attempt(work.fresh, work.obj)
  <2>1. /\ work.fresh \in Parents(Specs) /\ Snapshot(work.fresh)
        /\ work.fresh.gen = work.obj.gen
    BY DEF ExposureInv, Snapshots, Repatch
  <2>2. /\ work.obj.rv \in Nat /\ parent.rv \in Nat /\ work.obj.rv <= parent.rv
    BY <1>1 DEF Parents, ExposureInv, Snapshots, Snapshot
  <2>3. work.obj.rv <= parent.rv + 1
    BY <2>2
  <2> QED BY <1>1, <1>3, <2>1, <2>3, AttemptKeeps
<1> QED BY <1>2, <1>3 DEF Repatch

-----------------------------------------------------------------------------
(* The manager and the outside world *)

\* The stored workload is a snapshot of itself.
LEMMA ParentSnapshot ==
    ASSUME ExposureInv
    PROVE  Snapshot(parent)
<1>1. parent.gen \in Nat /\ parent.rv \in Nat
  BY ExposureFrame DEF Parents
<1> QED BY <1>1 DEF Snapshot

\* A new manager or a new cache: what was forgotten in the API server is now
\* forgotten in the cache too.
LEMMA ManagerKeeps ==
    ASSUME ExposureInv, Restart \/ SyncParent, UNCHANGED clusterVars
    PROVE  ExposureInv'
<1>1. StatusInv(Specs, Steps) /\ parent \in Parents(Specs)
  BY ExposureFrame
<1>2. StatusInv(Specs, Steps)' /\ (work' = work \/ work' = Idle)
  BY <1>1, OutsideStep
<1>3. pcache' = parent /\ parent' = parent
  BY DEF Restart, SyncParent
<1>4. TypeOK' /\ Engaged(Specs)'
  BY <1>2 DEF ExposureInv, TypeOK, StatusInv, Steps, clusterVars
<1>5. Busy' => Busy /\ work' = work
  BY <1>2, IdleType DEF Busy
<1>6. Snapshots'
  <2>1. work'.pc = "repatch" => work' = work
    BY <1>2, IdleType
  <2>2. Snapshot(parent)
    BY ParentSnapshot
  <2> QED BY <1>3, <1>5, <2>1, <2>2 DEF ExposureInv, Snapshots, Snapshot
<1>7. Whole' /\ Deleted'
  BY <1>5 DEF clusterVars, ExposureInv, Whole, Deleted
<1>8. Remembered'
  BY <1>3, <1>5 DEF clusterVars, ExposureInv, Remembered, Forgot, Off
<1> QED BY <1>4, <1>6, <1>7, <1>8 DEF ExposureInv

\* A new generation: only the stored workload has it, and it is owed a removal
\* only if the condition is stored or the removal was owed before.
LEMMA EditKeeps ==
    ASSUME ExposureInv, EditSpec
    PROVE  ExposureInv'
<1> DEFINE Older(o) == /\ o.gen <= parent'.gen /\ o.rv <= parent'.rv
                       /\ o.gen # parent'.gen /\ o.rv # parent'.rv
<1>1. /\ StatusInv(Specs, Steps) /\ parent \in Parents(Specs) /\ pcache \in Parents(Specs)
      /\ Busy => work.obj \in Parents(Specs)
  BY ExposureFrame
<1>2. PICK s \in Specs : Edit(s) /\ owed' = (s.route = ClusterLocal /\ (owed \/ Previous(parent)))
  BY DEF EditSpec
<1>3. UNCHANGED <<route, served, gateway, pcache, work>>
  BY <1>2 DEF EditSpec, Edit
<1>4. StatusInv(Specs, Steps)'
  BY <1>1, <1>2, OutsideStep
<1>5. TypeOK' /\ Engaged(Specs)'
  BY <1>2, <1>3, <1>4 DEF ExposureInv, TypeOK, StatusInv, Steps
<1>6. /\ parent'.gen = parent.gen + 1 /\ parent'.rv = parent.rv + 1
      /\ parent'.spec = s /\ parent'.conds = parent.conds
  BY <1>1, <1>2 DEF Edit, Parents
<1>7. ASSUME NEW o \in Parents(Specs), Snapshot(o)
      PROVE  Older(o)
  <2>1. o.gen \in Nat /\ o.rv \in Nat /\ parent.gen \in Nat /\ parent.rv \in Nat
    BY <1>1 DEF Parents
  <2>2. /\ o.gen <= parent'.gen /\ o.rv <= parent'.rv /\ o.gen # parent'.gen
        /\ o.rv # parent'.rv
    BY <1>6, <1>7, <2>1 DEF Snapshot
  <2> QED BY <2>2
<1> HIDE DEF Older
<1>8. /\ pcache.gen # parent'.gen
      /\ Busy => work.obj.gen # parent'.gen
  BY <1>1, <1>7 DEF ExposureInv, Snapshots, Older
<1>9. Snapshots'
  <2>1. Older(pcache) /\ (Busy => Older(work.obj))
    BY <1>1, <1>7 DEF ExposureInv, Snapshots
  <2>2. work.pc = "repatch" => /\ work.fresh \in Parents(Specs) /\ Older(work.fresh)
                               /\ work.fresh.gen = work.obj.gen
    BY <1>7 DEF ExposureInv, Snapshots
  <2> QED BY <1>3, <2>1, <2>2 DEF ExposureInv, Snapshots, Snapshot, Busy, Older
<1>10. Whole' /\ Deleted'
  BY <1>3 DEF ExposureInv, Whole, Deleted, Busy
<1>11. Remembered'
  <2> SUFFICES ASSUME "crd" \notin Disturbances, owed'
               PROVE  /\ Off(parent')
                      /\ Forgot(parent') =>
                             route = Nil /\ Off(pcache) /\ (Busy => Off(work.obj))
    BY <1>3, <1>8 DEF Remembered, Off, Forgot, HTTPRouteEnabled, Previous, Busy
  <2>1. Off(parent')
    BY <1>2, <1>6 DEF Off, HTTPRouteEnabled
  <2>2. Forgot(parent') => Forgot(parent) /\ owed
    BY <1>2, <1>6 DEF Forgot, Previous
  <2> QED BY <2>1, <2>2 DEF ExposureInv, Remembered
<1> QED BY <1>5, <1>9, <1>10, <1>11 DEF ExposureInv
\* The platform makes no routes; a route goes with its API.
LEMMA PlatformKeeps ==
    ASSUME ExposureInv,
           \/ GatewayObserves \/ GatewayReconsiders \/ RouteDeleted
           \/ GatewayChanges \/ ApiChanges
    PROVE  ExposureInv'
<1>1. UNCHANGED <<parent, pcache, queued, work, owed>>
  BY DEF GatewayObserves, GatewayReconsiders, RouteDeleted, GatewayChanges,
         ApiChanges, Judge, managerVars
<1>2. fuel' \in Nat
  BY ExposureFrame, FaultType
  DEF GatewayObserves, GatewayReconsiders, RouteDeleted, GatewayChanges, ApiChanges
<1>3. ASSUME NEW v \in Verdicts, route # Nil, Judge(v)
      PROVE  /\ route' \in HTTPRoutes /\ UNCHANGED <<served, gateway>>
  <2> DEFINE e == [listener |-> Listener(route.spec), verdict |-> v, seen |-> route.spec]
  <2>1. route \in HTTPRoutes /\ route.spec \in Routes
    BY <1>3 DEF ExposureInv, TypeOK, HTTPRoutes
  <2>2. Listener(route.spec) \in {0, 1}
    BY <2>1, RouteAssumption DEF Listener, Routes
  <2>3. e \in Entries
    BY <2>1, <2>2 DEF Entries
  <2>4. route' = [route EXCEPT !.entry = e]
    BY <1>3 DEF Judge
  <2> HIDE DEF e
  <2> QED BY <1>3, <2>1, <2>3, <2>4 DEF Judge, HTTPRoutes
<1>4. /\ route' \in HTTPRoutes \cup {Nil}
      /\ route = Nil => route' = Nil
      /\ route' # Nil => "httproutes" \in served'
      /\ served' \subseteq Needs("GatewayAPI")
      /\ gateway' \in {"absent", "waiting", "programmed"}
      /\ "crd" \notin Disturbances => served' \in {{}, Needs("GatewayAPI")}
  <2>1. CASE GatewayObserves \/ GatewayReconsiders
    BY <1>3, <2>1 DEF GatewayObserves, GatewayReconsiders, ExposureInv, TypeOK, Whole
  <2>2. CASE RouteDeleted \/ GatewayChanges
    BY <2>2 DEF RouteDeleted, GatewayChanges, ExposureInv, TypeOK, Whole
  <2>3. CASE ApiChanges
    BY <2>3 DEF ApiChanges, ExposureInv, TypeOK
  <2> QED BY <2>1, <2>2, <2>3
<1>5. TypeOK' /\ Engaged(Specs)'
  BY <1>1, <1>2, <1>4 DEF ExposureInv, TypeOK, StatusOK, Engaged
<1>6. Snapshots'
  BY <1>1 DEF ExposureInv, Snapshots, Snapshot, Busy
<1>7. Whole' /\ Deleted'
  BY <1>1, <1>4 DEF ExposureInv, Whole, Deleted, Busy
<1>8. Remembered'
  BY <1>1, <1>4
  DEF ExposureInv, Remembered, Busy, Forgot, Off, Previous, HTTPRouteEnabled
<1> QED BY <1>5, <1>6, <1>7, <1>8 DEF ExposureInv

-----------------------------------------------------------------------------
(* The theorems *)

\* The invariant holds initially.
LEMMA ExposureInit == Init => ExposureInv
<1> SUFFICES ASSUME Init PROVE ExposureInv
  OBVIOUS
<1>1. StatusInv(Specs, Steps) /\ work = Idle /\ pcache = parent
  BY StatusInitInv DEF Init, StatusInit
<1>2. "httproutes" \in Needs("GatewayAPI")
  <2>1. 2 \in DOMAIN RequirementFor("GatewayAPI")
        /\ RequirementFor("GatewayAPI")[2] = "httproutes"
    BY DEF RequirementFor, requirements
  <2> QED BY <2>1 DEF Needs
<1>3. TypeOK
  BY <1>1 DEF Init, TypeOK, StatusInv, Steps
<1>4. ~Busy /\ work.pc # "repatch"
  BY <1>1, IdleType DEF Busy
<1>5. Snapshots
  <2>1. parent.gen \in Nat /\ parent.rv \in Nat
    BY <1>1 DEF StatusInv, StatusOK, Parents
  <2> QED BY <1>1, <1>4, <2>1 DEF Snapshots, Snapshot
<1>6. Whole /\ Deleted /\ Remembered
  BY <1>2, <1>4 DEF Init, Whole, Deleted, Remembered
<1> QED BY <1>1, <1>3, <1>5, <1>6 DEF ExposureInv, StatusInv

\* Every step preserves the invariant.
LEMMA ExposureStep == ExposureInv /\ [Next]_vars => ExposureInv'
<1> SUFFICES ASSUME ExposureInv, [Next]_vars PROVE ExposureInv'
  OBVIOUS
<1>1. CASE UNCHANGED vars
  BY <1>1
  DEF vars, clusterVars, ExposureInv, TypeOK, StatusOK, Engaged, Snapshots, Snapshot,
      Whole, Deleted, Remembered, Busy, Off, Forgot, HTTPRouteEnabled, Previous
<1>2. CASE Next
  BY <1>2, StartStep, ValidateStep, ApplyStep, ObserveStep, ReportKeeps, PatchKeeps,
     RereadKeeps, RepatchKeeps, ManagerKeeps, EditKeeps, PlatformKeeps
  DEF Next, Reconcile, patchStatus, Environment
<1> QED BY <1>1, <1>2

\* Every reachable state of the route's life is well typed.
THEOREM TypeCorrect == Spec => []TypeOK
<1>1. ExposureInv => TypeOK
  BY DEF ExposureInv
<1> QED BY ExposureInit, ExposureStep, <1>1, PTL DEF Spec

\* validateExposure and observeExposure never drop ExposureReady before the route
\* that it stands for: as long as the CRDs of Gateway API come and go together, a
\* route that was recorded when the workload stopped asking for it stays recorded
\* until it is deleted, whatever caches, Conflicts, lost replies and restarts there
\* are.  (ApiChanges with "crd" is what the assumption excludes: without the
\* gateways resource, discovery reports the feature absent although routes live.)
THEOREM RouteIsRemembered ==
    ASSUME "crd" \notin Disturbances
    PROVE  Spec => []RouteRemembered
<1>1. ExposureInv => RouteRemembered
  BY DEF ExposureInv, Remembered, Forgot, RouteRemembered
<1> QED BY ExposureInit, ExposureStep, <1>1, PTL DEF Spec
=============================================================================
