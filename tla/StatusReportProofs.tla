------------------------- MODULE StatusReportProofs -------------------------
(***************************************************************************)
(* Proofs about StatusReport, for any replica counts, any set of             *)
(* disturbances and any bounds.                                              *)
(***************************************************************************)
EXTENDS StatusReport, TLAPS

Works == [pc : {"idle", "apply", "secrets", "observe", "patch", "reread", "repatch"},
          obj : Parents \cup {Nil}, next : Statuses,
          fresh : Parents \cup {Nil}, failing : BOOLEAN]

\* A copy of the workload is not newer than the API server, and while the server
\* still holds its revision it holds its generation and the foreign condition.
Copied(o) ==
    /\ o.rv <= clock
    /\ parent # Nil /\ parent.rv = o.rv =>
           o.gen = parent.gen /\ o.st.conds.ext = parent.st.conds.ext

\* The object in hand keeps its revision and generation while reportFailure
\* replaces its status by what could not be written.
Copies ==
    /\ parent # Nil => parent.rv <= clock
    /\ pcache # Nil => Copied(pcache)
    /\ work.pc # "idle" => work.obj \in Parents /\ Copied(work.obj)
    /\ work.pc = "repatch" => /\ work.fresh \in Parents /\ Copied(work.fresh)
                              /\ work.fresh.gen = work.obj.gen

\* The status to be written is about the generation in hand, and says of the
\* foreign condition what the object in hand says.
Composed ==
    work.pc \in {"patch", "reread", "repatch"} =>
        /\ work.next.obs = work.obj.gen /\ work.next.conds.gen = work.obj.gen
        /\ work.next.conds.ext = work.obj.st.conds.ext

ReportInv == TypeOK /\ Copies /\ Composed

-----------------------------------------------------------------------------
(* The operators of the model *)

\* Assess changes the managed conditions only.
LEMMA AssessFields ==
    ASSUME clock \in Nat, NEW st \in Statuses, NEW g \in Nat, NEW phase \in Phases
    PROVE  /\ Assess(st, g, phase) \in Statuses
           /\ Assess(st, g, phase).obs = g
           /\ Assess(st, g, phase).conds.gen = g
           /\ Assess(st, g, phase).conds.ext = st.conds.ext
<1> DEFINE t == IF Transition(st.conds.phase, phase) THEN clock + 1 ELSE st.conds.since
           c == [st.conds EXCEPT !.gen = g, !.phase = phase, !.since = t]
<1>1. st.conds \in Conditions /\ t \in Nat
  BY DEF Statuses, Conditions
<1> HIDE DEF t
<1>2. c \in Conditions /\ c.gen = g /\ c.ext = st.conds.ext
  BY <1>1 DEF Conditions
<1>3. Assess(st, g, phase) = [obs |-> g, conds |-> c]
  BY DEF Assess, t
<1> HIDE DEF c
<1> QED BY <1>2, <1>3 DEF Statuses

\* assessDeployment gives a phase.
LEMMA AssessmentType ==
    ASSUME NEW p \in Parents, NEW d \in Deployments
    PROVE  assessDeployment(p, d) \in Phases
  BY DEF assessDeployment, Phases

\* A merge patch writes what it is given or leaves what is there.
LEMMA MergePatchFields ==
    ASSUME NEW st \in Statuses, NEW before \in Statuses, NEW after \in Statuses
    PROVE  /\ MergePatch(st, before, after) \in Statuses
           /\ MergePatch(st, before, after).obs \in {st.obs, after.obs}
           /\ MergePatch(st, before, after).conds \in {st.conds, after.conds}
  BY DEF MergePatch, Statuses

\* The retried status is about the same generation and has the foreign
\* condition if either list has it.
LEMMA MergedFields ==
    ASSUME TypeOK, NEW fresh \in Parents
    PROVE  /\ Merged(fresh) \in Statuses
           /\ Merged(fresh).obs = work.next.obs
           /\ Merged(fresh).conds.gen = work.next.conds.gen
           /\ fresh.st.conds.ext # 0 => Merged(fresh).conds.ext # 0
<1> DEFINE n == work.next.conds
           e == IF n.ext = 0 THEN fresh.st.conds.ext ELSE n.ext
           c == [n EXCEPT !.ext = e]
<1>1. n \in Conditions /\ e \in Nat /\ work.next.obs \in Nat
  BY DEF TypeOK, Statuses, Conditions, Parents
<1>2. fresh.st.conds.ext # 0 => e # 0
  OBVIOUS
<1> HIDE DEF e
<1>3. c \in Conditions /\ c.gen = n.gen /\ c.ext = e
  BY <1>1 DEF Conditions
<1>4. Merged(fresh) = [obs |-> work.next.obs, conds |-> c]
  BY DEF Merged, preserveUnmanagedConditions, e
<1> HIDE DEF c
<1> QED BY <1>1, <1>2, <1>3, <1>4 DEF Statuses

-----------------------------------------------------------------------------
(* The reconcile *)

\* A status has been composed for the object in hand, by an observation or by a
\* failure.
Judged ==
    /\ work' \in Works /\ work'.pc = "patch"
    /\ work'.obj \in Parents
    /\ work'.obj.gen = work.obj.gen /\ work'.obj.rv = work.obj.rv
    /\ work'.obj.st.conds.ext = work.obj.st.conds.ext
    /\ work'.next.obs = work.obj.gen /\ work'.next.conds.gen = work.obj.gen
    /\ work'.next.conds.ext = work.obj.st.conds.ext

\* A failure is reported about the generation in hand.
LEMMA FailureJudged ==
    ASSUME TypeOK, work.obj \in Parents, NEW st \in Statuses, NEW phase \in Phases,
           st.conds.ext = work.obj.st.conds.ext, reportFailure(st, phase)
    PROVE  Judged
<1> DEFINE o == [work.obj EXCEPT !.st = st]
           n == Assess(st, work.obj.gen, phase)
<1>1. work.obj.gen \in Nat /\ clock \in Nat /\ work \in Works
  BY DEF TypeOK, Parents, Works
<1>2. n \in Statuses /\ n.obs = work.obj.gen /\ n.conds.gen = work.obj.gen
      /\ n.conds.ext = st.conds.ext
  BY <1>1, AssessFields
<1>3. o \in Parents /\ o.gen = work.obj.gen /\ o.rv = work.obj.rv /\ o.st = st
  BY DEF Parents
<1>4. work' = [work EXCEPT !.pc = "patch", !.failing = TRUE, !.fresh = Nil,
                           !.obj = o, !.next = n]
  BY DEF reportFailure
<1> HIDE DEF o, n
<1>5. work' \in Works /\ work'.pc = "patch" /\ work'.obj = o /\ work'.next = n
  BY <1>1, <1>2, <1>3, <1>4 DEF Works
<1> QED BY <1>2, <1>3, <1>5 DEF Judged

\* So is an observation.
LEMMA ObservationJudged ==
    ASSUME TypeOK, work.obj \in Parents, NEW phase \in Phases,
           work' = [work EXCEPT !.pc = "patch",
                                !.next = Assess(work.obj.st, work.obj.gen, phase)]
    PROVE  Judged
<1> DEFINE n == Assess(work.obj.st, work.obj.gen, phase)
<1>1. work.obj.gen \in Nat /\ work.obj.st \in Statuses /\ clock \in Nat /\ work \in Works
  BY DEF TypeOK, Parents, Works
<1>2. n \in Statuses /\ n.obs = work.obj.gen /\ n.conds.gen = work.obj.gen
      /\ n.conds.ext = work.obj.st.conds.ext
  BY <1>1, AssessFields
<1> HIDE DEF n
<1>3. work' = [work EXCEPT !.pc = "patch", !.next = n]
  BY DEF n
<1>4. work' \in Works /\ work'.pc = "patch" /\ work'.obj = work.obj /\ work'.next = n
  BY <1>1, <1>2, <1>3 DEF Works
<1> QED BY <1>2, <1>4 DEF Judged

\* How a step changes the reconcile.
Ended == work' = Idle

Begun == work'.pc = "apply" /\ work'.obj = pcache /\ pcache # Nil

\* On to the next stage with the same object and status.
Continued ==
    /\ work.pc # "idle" /\ work'.pc \in {"secrets", "observe", "reread"}
    /\ work'.obj = work.obj /\ work'.next = work.next
    /\ work'.pc = "reread" => work.pc = "patch"

Retried ==
    /\ work.pc = "reread" /\ work'.pc = "repatch"
    /\ work'.obj = work.obj /\ work'.next = work.next
    /\ work'.fresh = pcache /\ pcache # Nil /\ pcache.gen = work.obj.gen

Move ==
    /\ work' \in Works
    /\ \/ work' = work \/ Ended \/ Begun \/ Continued \/ Retried
       \/ work.pc # "idle" /\ Judged

\* No reconcile in progress.
LEMMA IdleWork == Idle \in Works
<1>1. NoStatus \in Statuses
  BY DEF NoStatus, Statuses, Conditions, Phases
<1> QED BY <1>1 DEF Idle, Works

\* The reconcile ends.
LEMMA FinishMoves ==
    ASSUME TypeOK, Finish PROVE Move /\ queued' \in BOOLEAN
  BY IdleWork DEF TypeOK, Finish, Move, Ended

\* A failed patch is reported once or ends the reconcile.
LEMMA PatchFailsMoves ==
    ASSUME ReportInv, work.pc \in {"patch", "reread", "repatch"}, PatchFails
    PROVE  Move /\ queued' \in BOOLEAN
<1>1. CASE reportFailure(work.next, "Transient") /\ UNCHANGED queued
  <2>1. /\ work.obj \in Parents /\ work.next \in Statuses
        /\ work.next.conds.ext = work.obj.st.conds.ext /\ "Transient" \in Phases
    BY DEF ReportInv, TypeOK, Copies, Composed, Phases
  <2>2. Judged
    BY <1>1, <2>1, FailureJudged DEF ReportInv
  <2> QED BY <1>1, <2>2 DEF ReportInv, TypeOK, Move, Judged
<1>2. CASE Finish
  BY <1>2, FinishMoves DEF ReportInv
<1> QED BY <1>1, <1>2 DEF PatchFails

\* What the reconcile leaves well typed besides its own record.
Kept ==
    /\ clock' \in Nat /\ fuel' \in Nat /\ drev' \in Nat /\ queued' \in BOOLEAN
    /\ dep' \in Deployments \cup {Nil}
    /\ parent' \in Parents \cup {Nil}
    /\ earned' \in BOOLEAN

\* A write of the Deployment keeps the types.
LEMMA WriteDeploymentType ==
    ASSUME TypeOK, NEW d \in Deployments, WriteDeployment(d)
    PROVE  drev' \in Nat /\ dep' \in Deployments /\ clock' = clock
<1>1. drev + 1 \in Nat
  BY DEF TypeOK
<1> QED BY <1>1 DEF WriteDeployment, Deployments
\* How a step changes the workload in the API server.
ParentStep ==
    \/ UNCHANGED <<clock, parent>>
    \/ clock' = clock /\ parent' = Nil
    \/ clock' = clock + 1 /\ parent' \in Parents /\ parent'.rv = clock + 1

\* A status write that takes effect is made under the lock on object o, and
\* writes only what it is given.
Written(o, after) ==
    /\ Lock(o) /\ clock' = clock + 1
    /\ parent' \in Parents /\ parent'.rv = clock + 1
    /\ parent'.st.obs \in {parent.st.obs, after.obs}
    /\ parent'.st.conds \in {parent.st.conds, after.conds}

\* A disturbance is paid for.
LEMMA FaultType ==
    ASSUME TypeOK, NEW d, Fault(d) PROVE fuel' \in Nat
  BY DEF TypeOK, Fault

\* A status patch writes what it was given, or nothing.
LEMMA StatusPatchStep ==
    ASSUME ReportInv, work.pc \in {"patch", "reread", "repatch"},
           NEW o, NEW before \in Statuses, NEW after \in Statuses,
           StatusPatch(o, before, after)
    PROVE  /\ Move /\ Kept
           /\ Written(o, after) \/ UNCHANGED <<clock, parent>>
<1>1. TypeOK
  BY DEF ReportInv
<1>2. ASSUME Finish \/ PatchFails PROVE Move /\ queued' \in BOOLEAN
  BY <1>1, <1>2, FinishMoves, PatchFailsMoves
<1>3. CASE /\ Lock(o) /\ Tick
           /\ parent' = [parent EXCEPT !.rv = clock + 1,
                                       !.st = MergePatch(parent.st, before, after)]
           /\ UNCHANGED <<dep, drev, secret, earned>>
           /\ \/ Finish /\ UNCHANGED fuel
              \/ Fault("lostReply") /\ PatchFails
  <2> DEFINE s == MergePatch(parent.st, before, after)
  <2>1. clock + 1 \in Nat /\ clock' = clock + 1 /\ parent \in Parents
        /\ parent.st \in Statuses
    BY <1>1, <1>3 DEF TypeOK, Tick, Lock, Parents
  <2>2. s \in Statuses /\ s.obs \in {parent.st.obs, after.obs}
        /\ s.conds \in {parent.st.conds, after.conds}
    BY <2>1, MergePatchFields
  <2> HIDE DEF s
  <2>3. parent' = [parent EXCEPT !.rv = clock + 1, !.st = s]
    BY <1>3 DEF s
  <2>4. parent' \in Parents /\ parent'.rv = clock + 1 /\ parent'.st = s
    BY <2>1, <2>2, <2>3 DEF Parents
  <2>5. Written(o, after)
    BY <1>3, <2>1, <2>2, <2>4 DEF Written
  <2>6. fuel' \in Nat
    BY <1>1, <1>3, FaultType DEF TypeOK
  <2>7. Kept /\ Move
    BY <1>1, <1>2, <1>3, <2>1, <2>4, <2>6 DEF TypeOK, Kept
  <2> QED BY <2>5, <2>7
<1>4. CASE PatchFails /\ UNCHANGED <<clock, apiVars>> /\ (Fault("apiError") \/ UNCHANGED fuel)
  <2>1. fuel' \in Nat
    BY <1>1, <1>4, FaultType DEF TypeOK
  <2> QED BY <1>1, <1>2, <1>4, <2>1 DEF TypeOK, Kept, apiVars
<1> QED BY <1>3, <1>4 DEF StatusPatch

\* A reconcile step changes the workload only by a status write for the
\* generation in hand, composed by patchStatus's first or second attempt.
Publishes ==
    \/ Written(work.obj, work.next) /\ work.pc = "patch"
    \/ Written(work.fresh, Merged(work.fresh)) /\ work.pc = "repatch"

\* The apply writes no status.
LEMMA ApplyStep ==
    ASSUME ReportInv, Apply
    PROVE  Move /\ Kept /\ UNCHANGED <<clock, parent>>
<1>1. /\ TypeOK /\ work.pc = "apply" /\ work.obj \in Parents /\ work \in Works
      /\ work.obj.st \in Statuses /\ work.obj.gen \in Nat /\ work.obj.uid \in Nat
      /\ work.obj.replicas \in Replicas
  BY DEF ReportInv, Copies, Apply, TypeOK, Works, Parents
<1>2. UNCHANGED <<fuel, parent, secret, earned, queued>>
  BY DEF Apply
<1>3. CASE \E phase \in {"Transient", "Permanent"} :
             reportFailure(work.obj.st, phase) /\ UNCHANGED <<clock, drev, dep>>
  <2>1. Judged
    BY <1>1, <1>3, FailureJudged DEF Phases
  <2> QED BY <1>1, <1>2, <1>3, <2>1 DEF TypeOK, Move, Judged, Kept
<1>4. CASE work' = [work EXCEPT !.pc = "secrets"]
  <2>1. work' \in Works /\ Continued
    BY <1>1, <1>4 DEF Works, Continued
  <2>2. CASE UNCHANGED <<clock, drev, dep>>
    BY <1>1, <1>2, <2>1, <2>2 DEF TypeOK, Move, Kept
  <2>3. CASE WriteDeployment([owner |-> work.obj.uid, img |-> work.obj.gen,
                              replicas |-> work.obj.replicas,
                              gen |-> 1, obs |-> 0, rv |-> 0, state |-> "down"])
    <3>1. [owner |-> work.obj.uid, img |-> work.obj.gen,
           replicas |-> work.obj.replicas,
           gen |-> 1, obs |-> 0, rv |-> 0, state |-> "down"] \in Deployments
      BY <1>1 DEF Deployments
    <3>2. drev' \in Nat /\ dep' \in Deployments /\ clock' = clock
      BY <1>1, <2>3, <3>1, WriteDeploymentType
    <3> QED BY <1>1, <1>2, <2>1, <3>2 DEF TypeOK, Move, Kept
  <2>4. CASE dep # Nil /\ WriteDeployment([dep EXCEPT !.img = work.obj.gen,
                                                    !.replicas = work.obj.replicas,
                                                    !.gen = dep.gen + 1])
    <3>1. dep \in Deployments /\ dep.gen + 1 \in Nat
      BY <1>1, <2>4 DEF TypeOK, Deployments
    <3>2. [dep EXCEPT !.img = work.obj.gen, !.replicas = work.obj.replicas,
                      !.gen = dep.gen + 1] \in Deployments
      BY <1>1, <3>1 DEF Deployments
    <3>3. drev' \in Nat /\ dep' \in Deployments /\ clock' = clock
      BY <1>1, <2>4, <3>2, WriteDeploymentType
    <3> QED BY <1>1, <1>2, <2>1, <3>3 DEF TypeOK, Move, Kept
  <2>5. \/ UNCHANGED <<clock, drev, dep>>
        \/ WriteDeployment([owner |-> work.obj.uid, img |-> work.obj.gen,
                            replicas |-> work.obj.replicas,
                            gen |-> 1, obs |-> 0, rv |-> 0, state |-> "down"])
        \/ dep # Nil /\ WriteDeployment([dep EXCEPT !.img = work.obj.gen,
                                                    !.replicas = work.obj.replicas,
                                                    !.gen = dep.gen + 1])
    BY DEF Apply
  <2> QED BY <2>2, <2>3, <2>4, <2>5
<1> QED BY <1>3, <1>4 DEF Apply

\* The Secret check writes no status.
LEMMA CheckSecretsStep ==
    ASSUME ReportInv, CheckSecrets
    PROVE  Move /\ Kept /\ UNCHANGED <<clock, parent>>
<1>1. /\ TypeOK /\ work.pc = "secrets" /\ work.obj \in Parents /\ work \in Works
      /\ work.obj.st \in Statuses
  BY DEF ReportInv, Copies, CheckSecrets, TypeOK, Works, Parents
<1>2. UNCHANGED <<clock, apiVars, queued>> /\ fuel' \in Nat
  BY <1>1, FaultType DEF CheckSecrets, TypeOK
<1>3. Kept
  BY <1>1, <1>2 DEF TypeOK, Kept, apiVars
<1>4. CASE work' = [work EXCEPT !.pc = "observe"]
  <2>1. work' \in Works /\ Continued
    BY <1>1, <1>4 DEF Works, Continued
  <2> QED BY <1>2, <1>3, <2>1 DEF Move, apiVars
<1>5. CASE \E phase \in {"Transient", "Permanent"} : reportFailure(work.obj.st, phase)
  <2>1. Judged
    BY <1>1, <1>5, FailureJudged DEF Phases
  <2> QED BY <1>1, <1>2, <1>3, <2>1 DEF Move, Judged, apiVars
<1> QED BY <1>4, <1>5 DEF CheckSecrets

\* The observation writes no status.
LEMMA ObserveStep ==
    ASSUME ReportInv, Observe
    PROVE  Move /\ Kept /\ UNCHANGED <<clock, parent>>
<1>1. /\ TypeOK /\ work.pc = "observe" /\ work.obj \in Parents /\ work \in Works
      /\ work.obj.st \in Statuses
  BY DEF ReportInv, Copies, Observe, TypeOK, Works, Parents
<1>2. UNCHANGED <<clock, fuel, apiVars, queued>>
  BY DEF Observe
<1>3. Kept
  BY <1>1, <1>2 DEF TypeOK, Kept, apiVars
<1>4. Judged
  <2>1. CASE reportFailure(work.obj.st, "Transient")
    BY <1>1, <2>1, FailureJudged DEF Phases
  <2>2. CASE /\ dcache # Nil
             /\ work' = [work EXCEPT
                           !.pc = "patch",
                           !.next = Assess(work.obj.st, work.obj.gen,
                                           assessDeployment(work.obj, dcache))]
    <3>1. assessDeployment(work.obj, dcache) \in Phases
      BY <1>1, <2>2, AssessmentType DEF TypeOK
    <3> QED BY <1>1, <2>2, <3>1, ObservationJudged
  <2> QED BY <2>1, <2>2 DEF Observe
<1> QED BY <1>1, <1>2, <1>3, <1>4 DEF Move, Judged, apiVars

\* The first attempt publishes, or writes nothing.
LEMMA PatchStep ==
    ASSUME ReportInv, Patch
    PROVE  Move /\ Kept /\ (Publishes \/ UNCHANGED <<clock, parent>>)
<1>1. /\ TypeOK /\ work.pc = "patch" /\ work.obj \in Parents /\ work \in Works
      /\ work.obj.st \in Statuses /\ work.next \in Statuses
  BY DEF ReportInv, Copies, Patch, TypeOK, Works, Parents
<1>2. CASE Finish /\ UNCHANGED <<clock, fuel, apiVars>>
  BY <1>1, <1>2, FinishMoves DEF TypeOK, Kept, apiVars
<1>3. CASE StatusPatch(work.obj, work.obj.st, work.next)
  BY <1>1, <1>3, StatusPatchStep DEF Publishes
<1>4. CASE work' = [work EXCEPT !.pc = "reread"] /\ UNCHANGED <<clock, fuel, apiVars, queued>>
  <2>1. work' \in Works /\ Continued
    BY <1>1, <1>4 DEF Works, Continued
  <2> QED BY <1>1, <1>4, <2>1 DEF TypeOK, Move, Kept, apiVars
<1> QED BY <1>2, <1>3, <1>4 DEF Patch

\* The read for the retry writes nothing.
LEMMA RereadStep ==
    ASSUME ReportInv, Reread
    PROVE  Move /\ Kept /\ UNCHANGED <<clock, parent>>
<1>1. TypeOK /\ work.pc = "reread" /\ work \in Works
  BY DEF ReportInv, Reread, TypeOK, Works
<1>2. UNCHANGED <<clock, fuel, apiVars>>
  BY DEF Reread
<1>3. CASE PatchFails \/ Finish
  BY <1>1, <1>2, <1>3, PatchFailsMoves, FinishMoves DEF TypeOK, Kept, apiVars
<1>4. CASE /\ pcache # Nil /\ SameGeneration(pcache)
           /\ work' = [work EXCEPT !.pc = "repatch", !.fresh = pcache]
           /\ UNCHANGED queued
  <2>1. pcache \in Parents
    BY <1>1, <1>4 DEF TypeOK
  <2>2. work' \in Works /\ Retried
    BY <1>1, <1>4, <2>1 DEF Works, Retried, SameGeneration
  <2> QED BY <1>1, <1>2, <1>4, <2>2 DEF TypeOK, Move, Kept, apiVars
<1> QED BY <1>3, <1>4 DEF Reread

\* The second attempt publishes, or writes nothing.
LEMMA RepatchStep ==
    ASSUME ReportInv, Repatch
    PROVE  Move /\ Kept /\ (Publishes \/ UNCHANGED <<clock, parent>>)
<1>1. /\ TypeOK /\ work.pc = "repatch" /\ work.fresh \in Parents
      /\ work.fresh.st \in Statuses
  BY DEF ReportInv, Copies, Repatch, TypeOK, Parents
<1>2. Merged(work.fresh) \in Statuses
  BY <1>1, MergedFields
<1>3. CASE StatusPatch(work.fresh, work.fresh.st, Merged(work.fresh))
  BY <1>1, <1>2, <1>3, StatusPatchStep DEF Publishes
<1>4. CASE PatchFails /\ UNCHANGED <<clock, fuel, apiVars>>
  BY <1>1, <1>4, PatchFailsMoves DEF TypeOK, Kept, apiVars
<1> QED BY <1>3, <1>4 DEF Repatch

\* So does every step of a reconcile.
LEMMA StepsStep ==
    ASSUME ReportInv, Steps
    PROVE  Move /\ Kept /\ (Publishes \/ UNCHANGED <<clock, parent>>)
BY ApplyStep, CheckSecretsStep, ObserveStep, PatchStep, RereadStep, RepatchStep DEF Steps

\* A reconcile starts from the caches.
LEMMA StartStep ==
    ASSUME ReportInv, Start
    PROVE  Move /\ Kept /\ UNCHANGED <<clock, parent>>
<1>1. Kept /\ UNCHANGED <<clock, parent>>
  BY DEF ReportInv, TypeOK, Start, Kept, apiVars
<1>2. CASE work' = Idle
  BY <1>1, <1>2, IdleWork DEF Move, Ended
<1>3. CASE pcache # Nil /\ work' = [Idle EXCEPT !.pc = "apply", !.obj = pcache]
  <2>1. pcache \in Parents /\ Idle \in Works
    BY <1>3, IdleWork DEF ReportInv, TypeOK
  <2>2. work' \in Works /\ Begun
    BY <1>3, <2>1 DEF Works, Begun
  <2> QED BY <1>1, <2>2 DEF Move
<1> QED BY <1>2, <1>3 DEF Start
-----------------------------------------------------------------------------
(* The environment *)

\* The Deployment's controller and the garbage collector write no workload.
LEMMA DeploymentChanges ==
    ASSUME ReportInv, RolloutBegins \/ RolloutEnds \/ CollectGarbage \/ PodsFail
    PROVE  Kept /\ UNCHANGED <<clock, parent>>
<1>1. /\ TypeOK /\ dep \in Deployments /\ parent' = parent
      /\ queued' = queued
  BY DEF ReportInv, TypeOK, RolloutBegins, RolloutEnds, CollectGarbage, PodsFail,
         managerVars
<1>2. CASE CollectGarbage
  BY <1>1, <1>2 DEF TypeOK, CollectGarbage, Kept
<1>3. ASSUME NEW d \in Deployments, WriteDeployment(d), fuel' \in Nat,
             earned' \in BOOLEAN
      PROVE  Kept /\ clock' = clock
  <2>1. drev' \in Nat /\ dep' \in Deployments /\ clock' = clock
    BY <1>1, <1>3, WriteDeploymentType
  <2> QED BY <1>1, <1>3, <2>1 DEF TypeOK, Kept
<1>4. CASE RolloutBegins
  <2>1. [dep EXCEPT !.obs = dep.gen, !.state = "down"] \in Deployments
    BY <1>1 DEF Deployments
  <2> QED BY <1>1, <1>3, <1>4, <2>1 DEF RolloutBegins, TypeOK
<1>5. CASE RolloutEnds
  <2>1. PICK s \in {"up", "stuck"} : WriteDeployment([dep EXCEPT !.state = s])
    BY <1>5 DEF RolloutEnds
  <2>2. [dep EXCEPT !.state = s] \in Deployments
    BY <1>1 DEF Deployments
  <2>3. earned' \in BOOLEAN
    BY <1>5 DEF RolloutEnds
  <2> QED BY <1>1, <1>3, <1>5, <2>1, <2>2, <2>3 DEF RolloutEnds, TypeOK
<1>6. CASE PodsFail
  <2>1. [dep EXCEPT !.state = "down"] \in Deployments
    BY <1>1 DEF Deployments
  <2> QED BY <1>1, <1>3, <1>6, <2>1, FaultType DEF PodsFail, TypeOK
<1> QED BY <1>1, <1>2, <1>4, <1>5, <1>6

\* Users and other writers give the workload a new revision.
LEMMA WorkloadChanges ==
    ASSUME ReportInv,
           EditSpec \/ DeleteParent \/ CreateParent \/ ForeignCondition \/ SecretChanges
    PROVE  Kept /\ ParentStep
<1>1. /\ TypeOK /\ clock + 1 \in Nat
      /\ UNCHANGED <<dep, drev, queued>> /\ earned' \in BOOLEAN
  <2>1. TypeOK
    BY DEF ReportInv
  <2>2. clock + 1 \in Nat
    BY <2>1 DEF TypeOK
  <2>3. UNCHANGED <<dep, drev, queued>>
    BY DEF EditSpec, DeleteParent, CreateParent, ForeignCondition, SecretChanges,
           managerVars
  <2>4. earned' \in BOOLEAN
    BY <2>1
    DEF TypeOK, EditSpec, DeleteParent, CreateParent, ForeignCondition, SecretChanges
  <2> QED BY <2>1, <2>2, <2>3, <2>4
<1>2. fuel' \in Nat
  BY <1>1, FaultType
  DEF TypeOK, EditSpec, DeleteParent, CreateParent, ForeignCondition, SecretChanges
<1>3. ASSUME Tick, parent' \in Parents, parent'.rv = clock + 1
      PROVE  Kept /\ ParentStep
  BY <1>1, <1>2, <1>3 DEF TypeOK, Tick, Kept, ParentStep
<1>4. CASE EditSpec
  <2>1. PICK n \in Replicas :
          parent' = [parent EXCEPT !.gen = parent.gen + 1, !.replicas = n,
                                   !.rv = clock + 1]
    BY <1>4 DEF EditSpec
  <2>2. parent \in Parents /\ parent.gen + 1 \in Nat
    <3>1. parent \in Parents
      BY <1>1, <1>4 DEF TypeOK, EditSpec
    <3> QED BY <3>1 DEF Parents
  <2>3. parent' \in Parents /\ parent'.rv = clock + 1
    BY <1>1, <2>1, <2>2 DEF Parents
  <2> QED BY <1>3, <1>4, <2>3 DEF EditSpec
<1>5. CASE DeleteParent \/ SecretChanges
  BY <1>1, <1>2, <1>5 DEF TypeOK, DeleteParent, SecretChanges, Kept, ParentStep
<1>6. CASE CreateParent
  <2>1. NoStatus \in Statuses
    BY DEF NoStatus, Statuses, Conditions, Phases
  <2>2. parent' \in Parents /\ parent'.rv = clock + 1
    BY <1>1, <1>6, <2>1 DEF CreateParent, Parents
  <2> QED BY <1>3, <1>6, <2>2 DEF CreateParent
<1>7. CASE ForeignCondition
  <2>1. PICK v \in 0..MaxExt :
          parent' = [parent EXCEPT !.rv = clock + 1, !.st.conds.ext = v]
    BY <1>7 DEF ForeignCondition
  <2>2. v \in Nat
    BY BoundsAssumption
  <2> DEFINE c == [parent.st.conds EXCEPT !.ext = v]
             s == [parent.st EXCEPT !.conds = c]
  <2>3. parent \in Parents /\ parent.st \in Statuses /\ parent.st.conds \in Conditions
    BY <1>1, <1>7 DEF TypeOK, ForeignCondition, Parents, Statuses
  <2>4. c \in Conditions
    BY <2>2, <2>3 DEF Conditions
  <2>5. s \in Statuses
    BY <2>3, <2>4 DEF Statuses
  <2>6. parent' = [parent EXCEPT !.rv = clock + 1, !.st = s]
    BY <2>1, <2>3 DEF Parents, Statuses, Conditions
  <2>7. parent' \in Parents /\ parent'.rv = clock + 1
    BY <1>1, <2>3, <2>5, <2>6 DEF Parents
  <2> QED BY <1>3, <1>7, <2>7 DEF ForeignCondition
<1> QED BY <1>4, <1>5, <1>6, <1>7

\* A step of the environment or of an informer leaves the reconcile alone.
LEMMA OthersStep ==
    ASSUME ReportInv, SyncParent \/ SyncDeployment \/ SyncSecret \/ Environment
    PROVE  Kept /\ ParentStep /\ work' = work
<1>1. CASE SyncParent \/ SyncDeployment \/ SyncSecret
  <2>1. queued' \in BOOLEAN
    BY <1>1 DEF ReportInv, TypeOK, SyncParent, SyncDeployment, SyncSecret
  <2>2. UNCHANGED <<clock, fuel, apiVars, work>>
    BY <1>1 DEF SyncParent, SyncDeployment, SyncSecret
  <2> QED BY <2>1, <2>2 DEF ReportInv, TypeOK, Kept, ParentStep, apiVars
<1>2. CASE Environment
  <2>1. work' = work
    BY <1>2 DEF Environment, RolloutBegins, RolloutEnds, CollectGarbage, PodsFail, EditSpec,
                DeleteParent, CreateParent, ForeignCondition, SecretChanges, managerVars
  <2> QED BY <1>2, <2>1, DeploymentChanges, WorkloadChanges DEF Environment, ParentStep
<1> QED BY <1>1, <1>2

-----------------------------------------------------------------------------
(* The invariant *)

\* So does a publication.
LEMMA PublishesParent ==
    ASSUME Publishes PROVE ParentStep
  BY DEF Publishes, Written, ParentStep

\* What any step does to the workload and to the reconcile.
LEMMA NextStep ==
    ASSUME ReportInv, Next
    PROVE  /\ Kept /\ ParentStep /\ Move
           /\ work' # work => Publishes \/ UNCHANGED <<clock, parent>>
<1>1. CASE Reconcile
  BY <1>1, StartStep, StepsStep, PublishesParent DEF Reconcile, ParentStep
<1>2. CASE SyncParent \/ SyncDeployment \/ SyncSecret \/ Environment
  BY <1>2, OthersStep DEF ReportInv, TypeOK, Move, Works
<1> QED BY <1>1, <1>2 DEF Next

\* What any step does to the caches.
LEMMA NextCaches ==
    ASSUME ReportInv, Next
    PROVE  /\ pcache' \in {pcache, parent} /\ dcache' \in {dcache, dep}
           /\ scache' \in BOOLEAN /\ secret' \in BOOLEAN
           /\ own' \in {"cached", "uncached", "missed"}
           /\ pcache' = pcache \/ UNCHANGED <<clock, parent>>
<1>1. secret \in BOOLEAN /\ scache \in BOOLEAN /\ own \in {"cached", "uncached", "missed"}
  BY DEF ReportInv, TypeOK
<1>2. CASE Start
  BY <1>1, <1>2 DEF Start, apiVars, cacheVars
<1>3. CASE Steps
  <2>1. UNCHANGED <<cacheVars, secret>> /\ own' \in {own, "uncached"}
    BY <1>3 DEF Steps, Apply, CheckSecrets, Observe, Patch, Reread, Repatch, StatusPatch,
                apiVars
  <2> QED BY <1>1, <2>1 DEF cacheVars
<1>4. CASE SyncParent \/ SyncDeployment \/ SyncSecret
  BY <1>1, <1>4 DEF SyncParent, SyncDeployment, SyncSecret, apiVars
<1>5. CASE Environment
  <2>1. UNCHANGED managerVars /\ secret' \in BOOLEAN
    BY <1>1, <1>5 DEF Environment, RolloutBegins, RolloutEnds, CollectGarbage, PodsFail,
                EditSpec, DeleteParent, CreateParent, ForeignCondition, SecretChanges
  <2> QED BY <1>1, <2>1 DEF managerVars, cacheVars
<1> QED BY <1>2, <1>3, <1>4, <1>5 DEF Next, Reconcile

\* Copies outlive every change of the workload, which makes a new revision.
LEMMA CopiedKept ==
    ASSUME TypeOK, ParentStep, NEW o \in Parents, Copied(o)
    PROVE  Copied(o)'
<1>1. o.rv \in Nat /\ clock \in Nat /\ o.rv <= clock
  BY DEF TypeOK, Parents, Copied
<1>2. CASE UNCHANGED <<clock, parent>> \/ (clock' = clock /\ parent' = Nil)
  BY <1>2 DEF Copied
<1>3. CASE clock' = clock + 1 /\ parent' \in Parents /\ parent'.rv = clock + 1
  BY <1>1, <1>3 DEF Copied
<1> QED BY <1>2, <1>3 DEF ParentStep

\* The invariant holds initially.
LEMMA ReportInit == Init => ReportInv
<1> SUFFICES ASSUME Init PROVE ReportInv
  OBVIOUS
<1>1. NoStatus \in Statuses
  BY DEF NoStatus, Statuses, Conditions, Phases
<1>2. parent \in Parents /\ parent.rv = 1
  BY <1>1 DEF Init, Parents
<1>3. work \in Works /\ work.pc = "idle"
  BY IdleWork DEF Init, Idle
<1>4. TypeOK
  BY <1>2, <1>3, BoundsAssumption DEF Init, TypeOK, Works
<1> QED BY <1>2, <1>3, <1>4 DEF Init, ReportInv, Copies, Composed

\* Every step preserves the invariant.
LEMMA ReportStep == ReportInv /\ [Next]_vars => ReportInv'
<1> SUFFICES ASSUME ReportInv, [Next]_vars PROVE ReportInv'
  OBVIOUS
<1>1. CASE UNCHANGED vars
  BY <1>1 DEF vars, ReportInv, TypeOK, Copies, Composed, Copied
<1>2. CASE Next
  <2>1. Kept /\ ParentStep /\ Move /\ TypeOK /\ Copies /\ Composed
    BY <1>2, NextStep DEF ReportInv
  <2>2. /\ pcache' \in {pcache, parent} /\ dcache' \in {dcache, dep}
        /\ scache' \in BOOLEAN /\ secret' \in BOOLEAN
        /\ own' \in {"cached", "uncached", "missed"}
        /\ pcache' = pcache \/ UNCHANGED <<clock, parent>>
    BY <1>2, NextCaches
  <2>3. TypeOK'
    BY <2>1, <2>2 DEF TypeOK, Kept, Move, Works
  <2>4. \A o \in Parents : Copied(o) => Copied(o)'
    BY <2>1, CopiedKept
  <2>5. parent' # Nil => parent'.rv <= clock'
    <3>1. clock \in Nat
      BY <2>1 DEF TypeOK
    <3> QED BY <2>1, <3>1 DEF ParentStep, Copies
  <2>6. pcache' # Nil => Copied(pcache)'
    <3>1. CASE pcache' = pcache
      BY <2>1, <2>4, <3>1 DEF TypeOK, Copies, Copied
    <3>2. CASE pcache' = parent' 
      BY <2>5, <3>2 DEF Copied
    <3> QED BY <2>2, <3>1, <3>2
  <2>7. work'.pc # "idle" => work'.obj \in Parents /\ Copied(work.obj)'
    <3> SUFFICES ASSUME work'.pc # "idle"
                 PROVE  work'.obj \in Parents /\ Copied(work.obj)'
      OBVIOUS
    <3>1. CASE work' = work \/ Continued \/ Retried
      BY <2>1, <2>4, <3>1 DEF Continued, Retried, Copies, Copied
    <3>2. CASE Ended
      BY <3>2 DEF Ended, Idle
    <3>3. CASE Begun
      BY <2>1, <2>4, <3>3 DEF Begun, TypeOK, Copies, Copied
    <3>4. CASE work.pc # "idle" /\ Judged
      <4>1. Copied(work.obj) /\ work.obj \in Parents
        BY <2>1, <3>4 DEF Copies
      <4> QED BY <2>4, <3>4, <4>1 DEF Judged, Copied
    <3> QED BY <2>1, <3>1, <3>2, <3>3, <3>4 DEF Move
  <2>8. work'.pc = "repatch" => /\ work'.fresh \in Parents /\ Copied(work.fresh)'
                                /\ work'.fresh.gen = work'.obj.gen
    <3> SUFFICES ASSUME work'.pc = "repatch"
                 PROVE  /\ work'.fresh \in Parents /\ Copied(work.fresh)'
                        /\ work'.fresh.gen = work'.obj.gen
      OBVIOUS
    <3>1. CASE work' = work
      BY <2>1, <2>4, <3>1 DEF Copies, Copied
    <3>2. CASE Retried
      BY <2>1, <2>4, <3>2 DEF Retried, TypeOK, Copies, Copied
    <3>3. CASE Ended \/ Begun \/ Continued \/ Judged
      BY <3>3 DEF Ended, Idle, Begun, Continued, Judged
    <3> QED BY <2>1, <3>1, <3>2, <3>3 DEF Move
  <2>9. Composed'
    <3> SUFFICES ASSUME work'.pc \in {"patch", "reread", "repatch"}
                 PROVE  /\ work'.next.obs = work'.obj.gen
                        /\ work'.next.conds.gen = work'.obj.gen
                        /\ work'.next.conds.ext = work'.obj.st.conds.ext
      BY DEF Composed
    <3>1. CASE work' = work \/ Continued \/ Retried
      BY <2>1, <3>1 DEF Composed, Continued, Retried
    <3>2. CASE Ended \/ Begun
      BY <3>2 DEF Ended, Idle, Begun
    <3>3. CASE Judged
      BY <3>3 DEF Judged
    <3> QED BY <2>1, <3>1, <3>2, <3>3 DEF Move
  <2>10. Copies'
    BY <2>5, <2>6, <2>7, <2>8 DEF Copies
  <2> QED BY <2>3, <2>9, <2>10 DEF ReportInv
<1> QED BY <1>1, <1>2

\* Every reachable state of status reporting is well typed.
THEOREM TypeCorrect == Spec => []TypeOK
<1>1. ReportInv => TypeOK
  BY DEF ReportInv
<1> QED BY ReportInit, ReportStep, <1>1, PTL DEF Spec

-----------------------------------------------------------------------------
(* What a report writes *)

\* A step of the controller that changes the workload is one of patchStatus's
\* two attempts, under the lock on the object that it holds.
LEMMA ReportPublishes ==
    ASSUME ReportInv, Next, Reports
    PROVE  Publishes
  BY NextStep DEF Reports

\* What either attempt writes, in terms of the object in the API server.
LEMMA PublishedFields ==
    ASSUME ReportInv, Publishes
    PROVE  /\ parent'.st.conds # parent.st.conds => parent'.st.conds.gen = parent.gen
           /\ parent'.st.obs \in {parent.st.obs, parent.gen}
           /\ parent.st.conds.ext # 0 => parent'.st.conds.ext # 0
<1>1. TypeOK /\ Copies /\ Composed
  BY DEF ReportInv
<1>2. CASE Written(work.obj, work.next) /\ work.pc = "patch"
  <2>1. work.obj.gen = parent.gen /\ work.obj.st.conds.ext = parent.st.conds.ext
    BY <1>1, <1>2 DEF Written, Lock, Copies, Copied
  <2> QED BY <1>1, <1>2, <2>1 DEF Written, Composed
<1>3. CASE Written(work.fresh, Merged(work.fresh)) /\ work.pc = "repatch"
  <2>1. work.fresh \in Parents /\ work.fresh.gen = work.obj.gen
        /\ work.fresh.gen = parent.gen /\ work.fresh.st.conds.ext = parent.st.conds.ext
    BY <1>1, <1>3 DEF Written, Lock, Copies, Copied
  <2>2. /\ Merged(work.fresh).obs = work.next.obs
        /\ Merged(work.fresh).conds.gen = work.next.conds.gen
        /\ work.fresh.st.conds.ext # 0 => Merged(work.fresh).conds.ext # 0
    BY <1>1, <2>1, MergedFields
  <2> QED BY <1>1, <1>3, <2>1, <2>2 DEF Written, Composed
<1> QED BY <1>2, <1>3 DEF Publishes

\* A status write is about the generation that the API server holds at that
\* moment, on both attempts of patchStatus and for caches of any age.
THEOREM GenerationGuarded == Spec => GenerationGuard
<1>1. ReportInv /\ [Next]_vars =>
        [Reports => /\ parent'.st.conds # parent.st.conds =>
                          parent'.st.conds.gen = parent.gen
                    /\ parent'.st.obs \in {parent.st.obs, parent.gen}]_vars
  BY ReportPublishes, PublishedFields
<1> QED BY <1>1, ReportInit, ReportStep, PTL DEF Spec, GenerationGuard

\* A status write never drops the condition of another controller, even when
\* reportFailure has replaced the in-memory status after a failed write.
THEOREM UnrelatedConditionsKept == Spec => UnrelatedKept
<1>1. ReportInv /\ [Next]_vars =>
        [Reports /\ parent.st.conds.ext # 0 => parent'.st.conds.ext # 0]_vars
  BY ReportPublishes, PublishedFields
<1> QED BY <1>1, ReportInit, ReportStep, PTL DEF Spec, UnrelatedKept
=============================================================================
