------------------------- MODULE StatusPatchProofs -------------------------
(***************************************************************************)
(* What the frame of StatusPatch preserves, whatever the specs and the steps  *)
(* of a reconcile are: the lemmas that GatesProofs and ExposureProofs rest    *)
(* on.                                                                        *)
(***************************************************************************)
EXTENDS StatusPatch, TLAPS

\* A reconcile in progress has a workload in hand.
Engaged(specs) == work.pc # "idle" => work.obj \in Parents(specs)

StatusInv(specs, steps) == StatusOK(specs, steps) /\ Engaged(specs)

Waiting == {"patch", "reread", "repatch"}

\* Where the reconcile is, or where it goes on once patchStatus has returned.
Position(w) == IF w.pc \in Waiting THEN w.cont ELSE w.pc

\* The steps of a component are neither those of patchStatus nor the ends of a
\* reconcile.
Proper(steps) == \A s \in steps : s \notin Waiting \cup {"idle", "again"}

Ends == {"idle", "again"}

\* The reconcile ends, or it is at position cont with the same generation of the
\* same spec in hand.
Resumed(specs, steps, cont) ==
    /\ work' \in Works(specs, steps) /\ queued' \in BOOLEAN
    /\ \/ work' = Idle
       \/ /\ work'.pc # "idle" /\ work'.obj \in Parents(specs)
          /\ work'.obj.spec = work.obj.spec /\ work'.obj.gen = work.obj.gen
          /\ Position(work') = cont

-----------------------------------------------------------------------------
(* Conditions *)

\* meta.SetStatusCondition keeps the type of the list.
LEMMA SetConditionType ==
    ASSUME NEW specs, NEW p \in Parents(specs), NEW type \in ConditionTypes,
           NEW status \in {"False", "True", "Unknown"}
    PROVE  SetCondition(p, type, status) \in Conditions
<1>1. p.conds \in Conditions /\ [s |-> status, gen |-> p.gen] \in Condition
  BY DEF Parents, Condition
<1> QED BY <1>1 DEF SetCondition, Conditions

\* meta.RemoveStatusCondition keeps the type of the list.
LEMMA RemoveConditionType ==
    ASSUME NEW specs, NEW p \in Parents(specs), NEW type \in ConditionTypes
    PROVE  RemoveCondition(p, type) \in Conditions
<1>1. p.conds \in Conditions /\ NoCondition \in Condition
  BY DEF Parents, Condition, NoCondition
<1> QED BY <1>1 DEF RemoveCondition, Conditions

-----------------------------------------------------------------------------
(* The reconcile *)

\* No reconcile in progress.
LEMMA IdleType ==
    ASSUME NEW specs, NEW steps
    PROVE  Idle \in Works(specs, steps) /\ Idle.pc = "idle"
  BY DEF Idle, Works

\* The reconcile ends.
LEMMA FinishResumes ==
    ASSUME NEW specs, NEW steps, StatusInv(specs, steps), NEW again \in BOOLEAN,
           Finish(again), NEW cont
    PROVE  Resumed(specs, steps, cont)
<1>1. queued' \in BOOLEAN /\ work' = Idle
  BY DEF StatusInv, StatusOK, Finish
<1> QED BY <1>1, IdleType DEF Resumed

\* The reconcile goes on where it is told to, or ends.
LEMMA ContinueResumes ==
    ASSUME NEW specs, NEW steps, Proper(steps), StatusInv(specs, steps),
           NEW o \in Parents(specs), o.spec = work.obj.spec, o.gen = work.obj.gen,
           NEW cont \in steps \cup Ends, NEW failing \in BOOLEAN,
           Continue(o, cont, failing)
    PROVE  Resumed(specs, steps, cont)
<1>1. CASE Finish(failing \/ cont = "again")
  <2>1. (failing \/ cont = "again") \in BOOLEAN
    OBVIOUS
  <2> QED BY <1>1, <2>1, FinishResumes
<1>2. CASE /\ cont \notin Ends
           /\ work' = [Idle EXCEPT !.pc = cont, !.obj = o]
           /\ UNCHANGED queued
  <2>1. cont \in steps /\ cont \notin Waiting /\ cont # "idle"
    BY <1>2 DEF Proper, Ends
  <2>2. work' = [pc |-> cont, obj |-> o, fresh |-> Nil, cont |-> "idle",
                 failing |-> FALSE]
    BY <1>2 DEF Idle
  <2>3. work' \in Works(specs, steps)
    BY <2>1, <2>2 DEF Works
  <2>4. work'.pc = cont /\ work'.obj = o
    BY <2>2
  <2>5. Position(work') = cont
    BY <2>1, <2>4 DEF Position
  <2> QED BY <1>2, <2>1, <2>3, <2>4, <2>5 DEF Resumed, StatusInv, StatusOK
<1> QED BY <1>1, <1>2 DEF Continue, Ends

\* patchStatus is called with new conditions, or has nothing to do.
LEMMA SubmitResumes ==
    ASSUME NEW specs, NEW steps, Proper(steps), StatusInv(specs, steps),
           work.pc # "idle", NEW conds \in Conditions,
           NEW cont \in steps \cup Ends, NEW failing \in BOOLEAN,
           Submit(conds, cont, failing)
    PROVE  Resumed(specs, steps, cont)
<1>1. work.obj \in Parents(specs)
  BY DEF StatusInv, Engaged
<1>2. CASE Continue(work.obj, cont, failing)
  BY <1>1, <1>2, ContinueResumes
<1>3. CASE /\ work' = [pc |-> "patch", obj |-> [work.obj EXCEPT !.conds = conds],
                       fresh |-> Nil, cont |-> cont, failing |-> failing]
           /\ UNCHANGED queued
  <2> DEFINE o == [work.obj EXCEPT !.conds = conds]
  <2>1. o \in Parents(specs) /\ o.spec = work.obj.spec /\ o.gen = work.obj.gen
    BY <1>1 DEF Parents
  <2> HIDE DEF o
  <2>2. work' = [pc |-> "patch", obj |-> o, fresh |-> Nil, cont |-> cont,
                 failing |-> failing]
    BY <1>3 DEF o
  <2>3. work' \in Works(specs, steps)
    BY <2>1, <2>2 DEF Works, Ends
  <2>4. work'.pc = "patch" /\ work'.obj = o /\ work'.cont = cont
    BY <2>2
  <2>5. Position(work') = cont
    BY <2>4 DEF Position, Waiting
  <2> QED BY <1>3, <2>1, <2>3, <2>4, <2>5 DEF Resumed, StatusInv, StatusOK
<1> QED BY <1>2, <1>3 DEF Submit

\* A failure of any kind ends the reconcile once it is reported.
LEMMA FailureResumes ==
    ASSUME NEW specs, NEW steps, Proper(steps), StatusInv(specs, steps),
           work.pc # "idle", reportFailure
    PROVE  Resumed(specs, steps, "idle")
<1>1. work.obj \in Parents(specs)
  BY DEF StatusInv, Engaged
<1>2. SetCondition(work.obj, "Ready", "Unknown") \in Conditions
  BY <1>1, SetConditionType DEF ConditionTypes
<1> QED BY <1>2, SubmitResumes DEF reportFailure, Ends

\* A failed gate ends the reconcile once it is reported.
LEMMA GateErrorResumes ==
    ASSUME NEW specs, NEW steps, Proper(steps), StatusInv(specs, steps),
           work.pc # "idle", NEW type \in ConditionTypes, reportGateError(type)
    PROVE  Resumed(specs, steps, "idle")
<1> DEFINE failed == [s |-> "False", gen |-> work.obj.gen]
           conds == [work.obj.conds EXCEPT !["Ready"] = failed, ![type] = failed]
<1>1. work.obj \in Parents(specs)
  BY DEF StatusInv, Engaged
<1>2. failed \in Condition /\ work.obj.conds \in Conditions
  BY <1>1 DEF Parents, Condition
<1>3. conds \in Conditions
  <2> HIDE DEF failed
  <2> QED BY <1>2 DEF Conditions
<1>4. Submit(conds, "idle", TRUE)
  BY DEF reportGateError
<1> HIDE DEF conds
<1> QED BY <1>3, <1>4, SubmitResumes DEF Ends

\* Going on without a patch.
LEMMA GotoResumes ==
    ASSUME NEW specs, NEW steps, Proper(steps), StatusInv(specs, steps),
           work.pc # "idle", NEW pc \in steps, Goto(pc)
    PROVE  Resumed(specs, steps, pc)
<1>1. work \in Works(specs, steps) /\ work.obj \in Parents(specs)
  BY DEF StatusInv, StatusOK, Engaged
<1>2. work' \in Works(specs, steps) /\ work'.pc = pc /\ work'.obj = work.obj
  BY <1>1 DEF Goto, Works
<1>3. pc \notin Waiting /\ pc # "idle"
  BY DEF Proper
<1> QED BY <1>1, <1>2, <1>3 DEF Goto, Resumed, Position, StatusInv, StatusOK

\* A failed patch ends the reconcile, reported once at most.
LEMMA PatchFailsResumes ==
    ASSUME NEW specs, NEW steps, Proper(steps), StatusInv(specs, steps),
           work.pc # "idle", PatchFails
    PROVE  Resumed(specs, steps, "idle")
BY FailureResumes, FinishResumes DEF PatchFails

\* A disturbance is paid for.
LEMMA FaultType ==
    ASSUME fuel \in Nat, NEW d, Fault(d)
    PROVE  fuel' \in Nat
  BY DEF Fault

\* A status write: a new revision with the conditions in memory.
LEMMA AttemptStep ==
    ASSUME NEW specs, NEW steps, Proper(steps), StatusInv(specs, steps),
           work.pc \in Waiting, NEW lock, NEW o \in Parents(specs),
           o.spec = work.obj.spec, o.gen = work.obj.gen, Attempt(lock, o)
    PROVE  /\ Resumed(specs, steps, work.cont) \/ Resumed(specs, steps, "idle")
           /\ parent' \in Parents(specs) /\ fuel' \in Nat
<1>1. /\ work.pc # "idle" /\ work.obj \in Parents(specs) /\ parent \in Parents(specs)
      /\ work \in Works(specs, steps) /\ fuel \in Nat
  BY DEF StatusInv, StatusOK, Engaged, Waiting
<1>2. work.cont \in steps \cup Ends /\ work.failing \in BOOLEAN
  BY <1>1 DEF Works, Ends
<1>3. CASE Fault("apiError") /\ PatchFails /\ UNCHANGED parent
  BY <1>1, <1>3, PatchFailsResumes, FaultType
<1>4. CASE /\ parent' = [parent EXCEPT !.rv = parent.rv + 1, !.conds = work.obj.conds]
           /\ \/ Continue(o, work.cont, work.failing) /\ UNCHANGED fuel
              \/ Fault("lostReply") /\ PatchFails
  <2>1. parent.rv + 1 \in Nat /\ work.obj.conds \in Conditions
    BY <1>1 DEF Parents
  <2>2. parent' \in Parents(specs)
    BY <1>1, <1>4, <2>1 DEF Parents
  <2> QED BY <1>1, <1>2, <1>4, <2>2, ContinueResumes, PatchFailsResumes, FaultType
<1> QED BY <1>3, <1>4 DEF Attempt

\* patchStatus goes on where its caller wanted to, or ends the reconcile.
LEMMA PatchStatusStep ==
    ASSUME NEW specs, NEW steps, Proper(steps), StatusInv(specs, steps), patchStatus
    PROVE  /\ Resumed(specs, steps, Position(work)) \/ Resumed(specs, steps, "idle")
           /\ parent' \in Parents(specs) /\ fuel' \in Nat /\ pcache' = pcache
<1>1. /\ work.pc \in Waiting /\ work.pc # "idle"
      /\ Position(work) = work.cont /\ pcache' = pcache
  BY DEF patchStatus, Patch, Reread, Repatch, Waiting, Position
<1>2. /\ work.obj \in Parents(specs) /\ parent \in Parents(specs)
      /\ pcache \in Parents(specs) /\ work \in Works(specs, steps) /\ fuel \in Nat
  BY <1>1 DEF StatusInv, StatusOK, Engaged
<1>3. work.cont \in steps \cup Ends /\ work.failing \in BOOLEAN
  BY <1>2 DEF Works, Ends
<1>4. ASSUME NEW pc \in Waiting, NEW f \in Parents(specs) \cup {Nil},
             work' = [work EXCEPT !.pc = pc, !.fresh = f], UNCHANGED queued
      PROVE  Resumed(specs, steps, work.cont)
  <2>1. work' \in Works(specs, steps) /\ work'.pc = pc /\ work'.obj = work.obj
        /\ work'.cont = work.cont
    BY <1>2, <1>4 DEF Works, Waiting
  <2> QED BY <1>2, <1>4, <2>1 DEF Resumed, Position, StatusInv, StatusOK, Waiting
<1>5. CASE Patch
  <2> DEFINE o == [work.obj EXCEPT !.rv = parent.rv + 1]
  <2>1. parent.rv + 1 \in Nat
    BY <1>2 DEF Parents
  <2>2. o \in Parents(specs) /\ o.spec = work.obj.spec /\ o.gen = work.obj.gen
    BY <1>2, <2>1 DEF Parents
  <2>3. CASE Attempt(work.obj, o)
    <3> HIDE DEF o
    <3> QED BY <1>1, <2>2, <2>3, AttemptStep
  <2>4. CASE work' = [work EXCEPT !.pc = "reread"] /\ UNCHANGED <<fuel, parent, queued>>
    <3>1. work.fresh \in Parents(specs) \cup {Nil}
          /\ work' = [work EXCEPT !.pc = "reread", !.fresh = work.fresh]
      BY <1>2, <2>4 DEF Works
    <3> QED BY <1>1, <1>2, <1>4, <2>4, <3>1 DEF Waiting
  <2> QED BY <1>5, <2>3, <2>4 DEF Patch
<1>6. CASE Reread
  <2>1. UNCHANGED <<fuel, parent>>
    BY <1>6 DEF Reread
  <2>2. CASE PatchFails
    BY <1>1, <1>2, <2>1, <2>2, PatchFailsResumes
  <2>3. CASE Continue(work.obj, work.cont, work.failing)
    BY <1>1, <1>2, <1>3, <2>1, <2>3, ContinueResumes
  <2>4. CASE work' = [work EXCEPT !.pc = "repatch", !.fresh = pcache] /\ UNCHANGED queued
    BY <1>1, <1>2, <1>4, <2>1, <2>4 DEF Waiting
  <2> QED BY <1>6, <2>2, <2>3, <2>4 DEF Reread
<1>7. CASE Repatch
  BY <1>1, <1>2, <1>7, AttemptStep, PatchFailsResumes DEF Repatch
<1> QED BY <1>1, <1>5, <1>6, <1>7 DEF patchStatus

\* The last report ends the reconcile.
LEMMA ReportStep ==
    ASSUME NEW specs, NEW steps, Proper(steps), StatusInv(specs, steps),
           NEW cont \in Ends, Report(cont)
    PROVE  Resumed(specs, steps, cont) /\ UNCHANGED <<fuel, parent, pcache>>
<1>1. work.pc # "idle" /\ work.obj \in Parents(specs)
  BY DEF StatusInv, Engaged, Report
<1>2. SetCondition(work.obj, "Ready", "True") \in Conditions
  BY <1>1, SetConditionType DEF ConditionTypes
<1> QED BY <1>1, <1>2, SubmitResumes DEF Report

\* A reconcile begins with the cached workload.
LEMMA BeginStep ==
    ASSUME NEW specs, NEW steps, Proper(steps), StatusInv(specs, steps),
           NEW first \in steps, Begin(first)
    PROVE  /\ work' \in Works(specs, steps) /\ queued' \in BOOLEAN
           /\ work'.pc = first /\ work'.obj = pcache /\ Position(work') = first
           /\ UNCHANGED <<fuel, parent, pcache>>
<1>1. pcache \in Parents(specs) /\ first \notin Waiting
  BY DEF StatusInv, StatusOK, Proper
<1>2. work' = [pc |-> first, obj |-> pcache, fresh |-> Nil, cont |-> "idle",
               failing |-> FALSE]
  BY DEF Begin, Idle
<1>3. work' \in Works(specs, steps)
  BY <1>1, <1>2 DEF Works
<1>4. work'.pc = first /\ work'.obj = pcache
  BY <1>2
<1> QED BY <1>1, <1>3, <1>4 DEF Begin, Position

-----------------------------------------------------------------------------
(* The rest of the frame *)

\* Restarts, watches and users take no reconcile further.
LEMMA OutsideStep ==
    ASSUME NEW specs, NEW steps, StatusInv(specs, steps),
           Restart \/ SyncParent \/ \E s \in specs : Edit(s)
    PROVE  /\ StatusInv(specs, steps)'
           /\ work' = work \/ work' = Idle
<1>1. /\ fuel \in Nat /\ queued \in BOOLEAN /\ parent \in Parents(specs)
      /\ pcache \in Parents(specs) /\ work \in Works(specs, steps) /\ Engaged(specs)
  BY DEF StatusInv, StatusOK
<1>2. CASE Restart
  BY <1>1, <1>2, FaultType, IdleType
  DEF Restart, StatusInv, StatusOK, Engaged
<1>3. CASE SyncParent
  <2>1. queued' \in BOOLEAN
    BY <1>1, <1>3 DEF SyncParent
  <2> QED BY <1>1, <1>3, <2>1 DEF SyncParent, StatusInv, StatusOK, Engaged
<1>4. ASSUME NEW s \in specs, Edit(s)
      PROVE  StatusInv(specs, steps)' /\ work' = work
  <2>1. parent.gen + 1 \in Nat /\ parent.rv + 1 \in Nat
    BY <1>1 DEF Parents
  <2>2. parent' \in Parents(specs)
    BY <1>1, <1>4, <2>1 DEF Edit, Parents
  <2> QED BY <1>1, <1>4, <2>2, FaultType DEF Edit, StatusInv, StatusOK, Engaged
<1> QED BY <1>2, <1>3, <1>4

\* The parts of a step make up the invariant again.
LEMMA ResumedInv ==
    ASSUME NEW specs, NEW steps, StatusInv(specs, steps), NEW cont,
           Resumed(specs, steps, cont), parent' \in Parents(specs), fuel' \in Nat,
           pcache' \in Parents(specs)
    PROVE  StatusInv(specs, steps)'
BY IdleType DEF Resumed, StatusInv, StatusOK, Engaged

\* The invariant of the frame holds initially.
LEMMA StatusInitInv ==
    ASSUME NEW specs, NEW steps, StatusInit(specs)
    PROVE  StatusInv(specs, steps)
<1>1. NoConditions \in Conditions
  BY DEF NoConditions, NoCondition, Conditions, Condition
<1>2. parent \in Parents(specs)
  BY <1>1 DEF StatusInit, Parents
<1> QED BY <1>2, IdleType, StatusAssumption
        DEF StatusInit, StatusInv, StatusOK, Engaged
=============================================================================
