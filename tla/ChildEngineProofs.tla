------------------------- MODULE ChildEngineProofs -------------------------
(***************************************************************************)
(* Proofs about ChildEngine, for any number of managers, any set of child    *)
(* kinds, any contents and any bounds.                                       *)
(***************************************************************************)
EXTENDS ChildEngine, TLAPS

-----------------------------------------------------------------------------
(* Type correctness *)

\* What a write to the API server leaves well typed.
LEMMA WriteType ==
    ASSUME TypeOK, NEW k \in Kinds, NEW o \in Objects, Write(k, o)
    PROVE  /\ clock' \in Nat
           /\ store' \in [Kinds -> Objects \cup {Nil}]
           /\ made' \in SUBSET (Nat \X Kinds)
           /\ events' \in SUBSET (Managers \X Kinds)
<1>1. clock' \in Nat /\ clock + 1 \in Nat
  BY DEF TypeOK, Write
<1>2. [o EXCEPT !.rv = clock + 1] \in Objects
  BY <1>1 DEF Objects
<1>3. store' \in [Kinds -> Objects \cup {Nil}]
  BY <1>2 DEF TypeOK, Write
<1>4. made' \in SUBSET (Nat \X Kinds)
  BY DEF TypeOK, Write, Objects
<1>5. events' \in SUBSET (Managers \X Kinds)
  BY DEF TypeOK, Write, Announce
<1> QED BY <1>1, <1>3, <1>4, <1>5

\* The removal of an object keeps the types.
LEMMA DropType ==
    ASSUME TypeOK, NEW k \in Kinds, Drop(k)
    PROVE  /\ clock' \in Nat
           /\ store' \in [Kinds -> Objects \cup {Nil}]
           /\ made' \in SUBSET (Nat \X Kinds)
           /\ events' \in SUBSET (Managers \X Kinds)
  BY DEF TypeOK, Drop, Announce

\* A delete, at once or behind finalizers, keeps the types.
LEMMA RemoveType ==
    ASSUME TypeOK, NEW k \in Kinds, store[k] # Nil, Remove(k)
    PROVE  /\ clock' \in Nat
           /\ store' \in [Kinds -> Objects \cup {Nil}]
           /\ made' \in SUBSET (Nat \X Kinds)
           /\ events' \in SUBSET (Managers \X Kinds)
<1>1. [store[k] EXCEPT !.del = TRUE] \in Objects
  BY DEF TypeOK, Objects
<1>2. CASE Drop(k) BY <1>2, DropType
<1>3. CASE Write(k, [store[k] EXCEPT !.del = TRUE])
  BY <1>1, <1>3, WriteType
<1> QED BY <1>2, <1>3 DEF Remove

\* The ways a reconcile moves on keep the work records well typed.
LEMMA AdvanceType ==
    ASSUME TypeOK, NEW m \in Managers, NEW k \in Kinds, Advance(m, k)
    PROVE  work' \in [Managers -> Works]
<1>1. Idle \in Works
  BY DEF Idle, Works
<1>2. work[m] \in Works
  BY DEF TypeOK
<1>3. [pc |-> "read", parent |-> work[m].parent, todo |-> work[m].todo \ {k},
       cur |-> Nil] \in Works
  BY <1>2 DEF Works
<1> QED BY <1>1, <1>3 DEF TypeOK, Advance

\* Fail leaves a manager idle and queued.
LEMMA FailType ==
    ASSUME TypeOK, NEW m \in Managers, Fail(m)
    PROVE  /\ work' \in [Managers -> Works]
           /\ queued' \in [Managers -> BOOLEAN]
<1>1. Idle \in Works
  BY DEF Idle, Works
<1> QED BY <1>1 DEF TypeOK, Fail

\* A reconcile that is about to write keeps its type.
LEMMA AwaitType ==
    ASSUME TypeOK, NEW m \in Managers, NEW o \in Objects \cup {Nil},
           NEW pc \in {"create", "patch", "delete"}, Await(m, pc, o)
    PROVE  work' \in [Managers -> Works]
<1>1. work[m] \in Works
  BY DEF TypeOK
<1>2. [work[m] EXCEPT !.pc = pc, !.cur = o] \in Works
  BY <1>1 DEF Works
<1> QED BY <1>2 DEF TypeOK, Await

\* A write that took effect, with or without its reply, keeps the types.
LEMMA AnsweredType ==
    ASSUME TypeOK, NEW m \in Managers, NEW k \in Kinds, Answered(m, k)
    PROVE  /\ work' \in [Managers -> Works]
           /\ queued' \in [Managers -> BOOLEAN]
           /\ fuel' \in Nat
  BY AdvanceType, FailType DEF Answered, TypeOK

\* The initial state is well typed.
LEMMA InitType == Init => TypeOK
<1> SUFFICES ASSUME Init PROVE TypeOK
  OBVIOUS
<1>1. Idle \in Works
  BY DEF Idle, Works
<1>2. parent \in Parents
  BY DEF Init, Parents
<1> QED BY <1>1, <1>2, BoundsAssumption DEF Init, TypeOK

\* Apply up to its first write keeps the types.
LEMMA ReadType ==
    ASSUME TypeOK, NEW m \in Managers, NEW k \in Kinds, ApplyRead(m, k)
    PROVE  TypeOK'
<1> DEFINE o == Get(m, k)
<1>1. o \in Objects \cup {Nil}
  BY DEF TypeOK, Get
<1>2. work' \in [Managers -> Works] /\ queued' \in [Managers -> BOOLEAN]
  <2>1. CASE Advance(m, k) /\ UNCHANGED queued
    BY <2>1, AdvanceType DEF TypeOK
  <2>2. CASE Fail(m)
    BY <2>2, FailType
  <2>3. CASE Await(m, "create", Nil) /\ UNCHANGED queued
    BY <2>3, AwaitType DEF TypeOK
  <2>4. CASE Await(m, "patch", o) /\ UNCHANGED queued
    BY <1>1, <2>4, AwaitType DEF TypeOK
  <2>5. CASE Await(m, "delete", o) /\ UNCHANGED queued
    BY <1>1, <2>5, AwaitType DEF TypeOK
  <2> QED BY <2>1, <2>2, <2>3, <2>4, <2>5 DEF ApplyRead
<1> QED BY <1>2 DEF TypeOK, ApplyRead, apiVars, cacheVars

\* The object of a create is well typed.
LEMMA RenderedType ==
    ASSUME TypeOK, NEW p \in Parents
    PROVE  Rendered(p) \in Objects
  BY DEF TypeOK, Rendered, Parents, Specs, Objects

\* A reconcile in progress has a parent; an intent awaiting a patch or a delete
\* has the object that was read.
Engaged ==
    \A m \in Managers :
        /\ work[m].pc # "idle" => work[m].parent # Nil
        /\ work[m].pc \in {"patch", "delete"} => work[m].cur # Nil

\* The three API calls of Apply keep the types.
LEMMA WriteStepType ==
    ASSUME TypeOK, Engaged, NEW m \in Managers, NEW k \in Kinds,
           ApplyCreate(m, k) \/ ApplyPatch(m, k) \/ ApplyDelete(m, k)
    PROVE  TypeOK'
<1>1. work[m].pc # "idle" => work[m].parent \in Parents
  BY DEF TypeOK, Works, Engaged
<1>2. CASE ApplyCreate(m, k)
  <2>1. Rendered(work[m].parent) \in Objects
    BY <1>1, <1>2, RenderedType DEF ApplyCreate
  <2>2. CASE Write(k, Rendered(work[m].parent)) /\ Answered(m, k)
    BY <1>2, <2>1, <2>2, WriteType, AnsweredType
    DEF TypeOK, ApplyCreate, cacheVars
  <2>3. CASE Fail(m) /\ UNCHANGED <<clock, store, made, events, fuel>>
    BY <1>2, <2>3, FailType DEF TypeOK, ApplyCreate, cacheVars
  <2> QED BY <1>2, <2>2, <2>3 DEF ApplyCreate
<1>3. CASE ApplyPatch(m, k)
  <2> DEFINE o == [store[k] EXCEPT !.content = work[m].parent.spec.content]
  <2>1. Unmodified(m, k) => o \in Objects
    BY <1>1, <1>3 DEF TypeOK, ApplyPatch, Unmodified, Parents, Specs, Objects
  <2>2. CASE Unmodified(m, k) /\ Write(k, o) /\ Answered(m, k)
    BY <1>3, <2>1, <2>2, WriteType, AnsweredType
    DEF TypeOK, ApplyPatch, cacheVars
  <2>3. CASE Fail(m) /\ UNCHANGED <<clock, store, made, events, fuel>>
    BY <1>3, <2>3, FailType DEF TypeOK, ApplyPatch, cacheVars
  <2> QED BY <1>3, <2>2, <2>3 DEF ApplyPatch
<1>4. CASE ApplyDelete(m, k)
  <2>1. CASE Advance(m, k) /\ UNCHANGED <<clock, store, made, events, queued, fuel>>
    BY <1>4, <2>1, AdvanceType DEF TypeOK, ApplyDelete, cacheVars
  <2>2. CASE Unmodified(m, k) /\ Remove(k) /\ Answered(m, k)
    BY <1>4, <2>2, RemoveType, AnsweredType
    DEF TypeOK, ApplyDelete, cacheVars, Unmodified
  <2>3. CASE Fail(m) /\ UNCHANGED <<clock, store, made, events, fuel>>
    BY <1>4, <2>3, FailType DEF TypeOK, ApplyDelete, cacheVars
  <2> QED BY <1>4, <2>1, <2>2, <2>3 DEF ApplyDelete
<1> QED BY <1>2, <1>3, <1>4

\* A disturbance is paid for.
LEMMA DisturbType ==
    ASSUME TypeOK, Disturb PROVE fuel' \in Nat
  BY DEF TypeOK, Disturb

\* All other steps keep the types.
LEMMA OtherStepsType ==
    ASSUME TypeOK, Engaged, Next,
           ~ \E m \in Managers, k \in Kinds :
                ApplyRead(m, k) \/ ApplyCreate(m, k) \/ ApplyPatch(m, k)
                \/ ApplyDelete(m, k)
    PROVE  TypeOK'
<1>1. ASSUME NEW m \in Managers, StartReconcile(m) PROVE TypeOK'
  <2>1. pcache[m] \in Parents
    BY <1>1 DEF TypeOK, StartReconcile, Reconcilable
  <2>2. PICK plan \in Plans(pcache[m].spec) :
          work' = [work EXCEPT ![m] = [pc |-> "read", parent |-> pcache[m],
                                       todo |-> plan, cur |-> Nil]]
    BY <1>1 DEF StartReconcile
  <2>3. plan \subseteq Kinds
    BY <2>1, <2>2 DEF Plans, Parents, Specs, Optional
  <2>4. [pc |-> "read", parent |-> pcache[m], todo |-> plan, cur |-> Nil] \in Works
    BY <2>1, <2>3 DEF Works
  <2> QED BY <1>1, <2>2, <2>4 DEF TypeOK, StartReconcile, apiVars, cacheVars
<1>2. ASSUME NEW m \in Managers, SkipReconcile(m) PROVE TypeOK'
  BY <1>2 DEF TypeOK, SkipReconcile, apiVars, cacheVars
<1>3. ASSUME NEW m \in Managers, SyncParent(m) PROVE TypeOK'
  BY <1>3 DEF TypeOK, SyncParent, apiVars
<1>4. ASSUME NEW m \in Managers, NEW k \in Kinds, SyncChild(m, k) PROVE TypeOK'
  <2>1. cache' \in [Managers -> [Kinds -> Objects \cup {Nil}]]
    BY <1>4 DEF TypeOK, SyncChild
  <2>2. queued' \in [Managers -> BOOLEAN]
    BY <1>4 DEF TypeOK, SyncChild
  <2> QED BY <1>4, <2>1, <2>2 DEF TypeOK, SyncChild
<1>5. ASSUME FinalizeParent PROVE TypeOK'
  BY <1>5 DEF TypeOK, FinalizeParent, managerVars
<1>6. ASSUME NEW k \in Kinds, CollectGarbage(k) PROVE TypeOK'
  BY <1>6, RemoveType DEF TypeOK, CollectGarbage, managerVars
<1>7. ASSUME NEW k \in Kinds, FinalizeChild(k) PROVE TypeOK'
  BY <1>7, DropType DEF TypeOK, FinalizeChild, managerVars
<1>8. ASSUME CreateParent PROVE TypeOK'
  <2>1. parent' \in Parents
    BY <1>8 DEF TypeOK, CreateParent, Parents
  <2> QED BY <1>8, <2>1, DisturbType DEF TypeOK, CreateParent, managerVars
<1>9. ASSUME EditSpec PROVE TypeOK'
  <2>1. parent' \in Parents
    BY <1>9 DEF TypeOK, EditSpec, Parents
  <2> QED BY <1>9, <2>1, DisturbType DEF TypeOK, EditSpec, managerVars
<1>10. ASSUME DeleteParent PROVE TypeOK'
  <2>1. parent' \in Parents \cup {Nil}
    BY <1>10 DEF TypeOK, DeleteParent, Parents
  <2> QED BY <1>10, <2>1, DisturbType DEF TypeOK, DeleteParent, managerVars
<1>11. ASSUME NEW k \in Kinds, OutsiderCreate(k) PROVE TypeOK'
  <2>1. PICK c \in Contents, u \in {NoOwner} \cup
                                   (IF parent = Nil THEN {} ELSE {parent.uid}) :
          Write(k, [uid |-> clock + 1, rv |-> clock + 1, owner |-> u,
                    del |-> FALSE, fit |-> u = NoOwner, content |-> c])
    BY <1>11 DEF OutsiderCreate
  <2>2. [uid |-> clock + 1, rv |-> clock + 1, owner |-> u, del |-> FALSE,
         fit |-> u = NoOwner, content |-> c] \in Objects
    BY DEF TypeOK, Objects, Parents, NoOwner
  <2> QED BY <1>11, <2>1, <2>2, WriteType, DisturbType
          DEF TypeOK, OutsiderCreate, managerVars
<1>12. ASSUME NEW k \in Kinds, OutsiderEdit(k) PROVE TypeOK'
  <2>1. PICK c \in Contents, u \in {NoOwner, store[k].owner} :
          Write(k, [store[k] EXCEPT !.content = c, !.owner = u])
    BY <1>12 DEF OutsiderEdit
  <2>2. store[k] \in Objects /\ u \in Nat
    BY <1>12 DEF TypeOK, Objects, NoOwner, OutsiderEdit
  <2>3. [store[k] EXCEPT !.content = c, !.owner = u] \in Objects
    BY <2>2 DEF Objects
  <2> QED BY <1>12, <2>1, <2>3, WriteType, DisturbType
          DEF TypeOK, OutsiderEdit, managerVars
<1>13. ASSUME NEW k \in Kinds, OutsiderDelete(k) PROVE TypeOK'
  BY <1>13, RemoveType, DisturbType DEF TypeOK, OutsiderDelete, managerVars
<1>14. ASSUME NEW m \in Managers, ApiError(m) PROVE TypeOK'
  BY <1>14, FailType DEF TypeOK, ApiError, apiVars, cacheVars
<1>15. ASSUME NEW m \in Managers, Restart(m) PROVE TypeOK'
  <2>1. Idle \in Works
    BY DEF Idle, Works
  <2>2. events' \in SUBSET (Managers \X Kinds)
    BY <1>15 DEF TypeOK, Restart
  <2>3. queued' \in [Managers -> BOOLEAN]
    BY <1>15 DEF TypeOK, Restart
  <2> QED BY <1>15, <2>1, <2>2, <2>3 DEF TypeOK, Restart
<1> QED BY <1>1, <1>2, <1>3, <1>4, <1>5, <1>6, <1>7, <1>8, <1>9, <1>10, <1>11,
           <1>12, <1>13, <1>14, <1>15
        DEF Next, ManagerStep, Sync, ControlPlane, Disturbance

-----------------------------------------------------------------------------
(* Ownership.  The inductive invariant: equal revisions mean equal objects.   *)
(* A copy that a manager holds is never newer than the API server, and while  *)
(* the server still holds the copy's revision it holds that very object.  So  *)
(* what the manager concluded from its copy is still true when the optimistic *)
(* lock lets its write through.                                               *)

Same(o, k) ==
    o # Nil => /\ o.rv <= clock
               /\ store[k] # Nil /\ store[k].rv = o.rv => store[k] = o

SameAfter(o, k) ==
    o # Nil => /\ o.rv <= clock'
               /\ store'[k] # Nil /\ store'[k].rv = o.rv => store'[k] = o

Coherent ==
    /\ \A k \in Kinds : Same(store[k], k)
    /\ \A m \in Managers, k \in Kinds : Same(cache[m][k], k)

Pending ==
    \A m \in Managers :
        work[m].pc \in {"patch", "delete"} =>
            /\ work[m].cur.owner = work[m].parent.uid
            /\ ~work[m].cur.del
            /\ \A k \in Kinds : Current(m, k) => Same(work[m].cur, k)

OwnInv == TypeOK /\ Engaged /\ Coherent /\ Pending

\* A step that writes the API server makes old copies no less true, and a new
\* object is not newer than the server's clock.
StepKeeps ==
    /\ \A j \in Kinds : \A o \in Objects \cup {Nil} : Same(o, j) => SameAfter(o, j)
    /\ \A j \in Kinds : store'[j] # Nil => store'[j].rv <= clock'

\* A write gives the object a revision that no copy has.
LEMMA WriteKeeps ==
    ASSUME TypeOK, Coherent, NEW k \in Kinds, NEW w \in Objects, Write(k, w)
    PROVE  StepKeeps
<1>1. clock \in Nat /\ clock' = clock + 1 /\ store \in [Kinds -> Objects \cup {Nil}]
  BY DEF TypeOK, Write
<1>2. store'[k] = [w EXCEPT !.rv = clock + 1]
      /\ \A j \in Kinds : j # k => store'[j] = store[j]
  BY <1>1 DEF Write
<1>3. store'[k].rv = clock + 1
  BY <1>2 DEF Objects
<1>4. \A o \in Objects \cup {Nil} : o # Nil => o.rv \in Nat
  BY DEF Objects
<1>5. ASSUME NEW j \in Kinds, NEW o \in Objects \cup {Nil}, Same(o, j)
      PROVE  SameAfter(o, j)
  <2>1. CASE j = k
    BY <1>1, <1>3, <1>4, <1>5, <2>1 DEF Same, SameAfter
  <2>2. CASE j # k
    BY <1>1, <1>2, <1>4, <1>5, <2>2 DEF Same, SameAfter
  <2> QED BY <2>1, <2>2
<1>6. ASSUME NEW j \in Kinds, store'[j] # Nil PROVE store'[j].rv <= clock'
  <2>1. CASE j = k
    BY <1>1, <1>3, <2>1
  <2>2. CASE j # k
    <3>1. store[j] \in Objects /\ store'[j] = store[j]
      BY <1>1, <1>2, <1>6, <2>2
    <3>2. store[j].rv <= clock
      BY <1>2, <1>6, <2>2 DEF Coherent, Same
    <3>3. store[j].rv \in Nat
      BY <3>1 DEF Objects
    <3> QED BY <1>1, <3>1, <3>2, <3>3
  <2> QED BY <2>1, <2>2
<1> QED BY <1>5, <1>6 DEF StepKeeps

\* A removal makes no copy current.
LEMMA DropKeeps ==
    ASSUME TypeOK, Coherent, NEW k \in Kinds, Drop(k)
    PROVE  StepKeeps
  BY DEF TypeOK, Coherent, Drop, StepKeeps, Same, SameAfter

\* A delete makes no copy current.
LEMMA RemoveKeeps ==
    ASSUME TypeOK, Coherent, NEW k \in Kinds, store[k] # Nil, Remove(k)
    PROVE  StepKeeps
<1>1. [store[k] EXCEPT !.del = TRUE] \in Objects
  BY DEF TypeOK, Objects
<1> QED BY <1>1, WriteKeeps, DropKeeps DEF Remove

\* A step that writes no child makes no copy current.
LEMMA IdleKeeps ==
    ASSUME TypeOK, Coherent, UNCHANGED <<clock, store>>
    PROVE  StepKeeps
  BY DEF TypeOK, Coherent, StepKeeps, Same, SameAfter

\* The case analysis of a step, by what it does to the API server's children.
LEMMA NextKeeps ==
    ASSUME OwnInv, Next
    PROVE  StepKeeps
<1> USE DEF OwnInv
<1>1. ASSUME NEW m \in Managers, NEW k \in Kinds, ApplyCreate(m, k)
      PROVE  StepKeeps
  <2>1. work[m].parent \in Parents
    BY <1>1 DEF TypeOK, Works, Engaged, ApplyCreate
  <2> QED BY <1>1, <2>1, RenderedType, WriteKeeps, IdleKeeps DEF ApplyCreate
<1>2. ASSUME NEW m \in Managers, NEW k \in Kinds, ApplyPatch(m, k)
      PROVE  StepKeeps
  <2> DEFINE o == [store[k] EXCEPT !.content = work[m].parent.spec.content]
  <2>1. work[m].parent \in Parents
    BY <1>2 DEF TypeOK, Works, Engaged, ApplyPatch
  <2>2. Unmodified(m, k) => o \in Objects
    BY <2>1 DEF TypeOK, Unmodified, Parents, Specs, Objects
  <2> QED BY <1>2, <2>2, WriteKeeps, IdleKeeps DEF ApplyPatch
<1>3. ASSUME NEW m \in Managers, NEW k \in Kinds, ApplyDelete(m, k)
      PROVE  StepKeeps
  BY <1>3, RemoveKeeps, IdleKeeps DEF ApplyDelete, Unmodified
<1>4. ASSUME NEW k \in Kinds, CollectGarbage(k) PROVE StepKeeps
  BY <1>4, RemoveKeeps DEF CollectGarbage
<1>5. ASSUME NEW k \in Kinds, FinalizeChild(k) PROVE StepKeeps
  BY <1>5, DropKeeps DEF FinalizeChild
<1>6. ASSUME CreateParent PROVE StepKeeps
  BY <1>6 DEF CreateParent, TypeOK, Coherent, StepKeeps, Same, SameAfter, Objects
<1>7. ASSUME NEW k \in Kinds, OutsiderCreate(k) PROVE StepKeeps
  <2>1. PICK c \in Contents, u \in {NoOwner} \cup
                                   (IF parent = Nil THEN {} ELSE {parent.uid}) :
          Write(k, [uid |-> clock + 1, rv |-> clock + 1, owner |-> u,
                    del |-> FALSE, fit |-> u = NoOwner, content |-> c])
    BY <1>7 DEF OutsiderCreate
  <2>2. [uid |-> clock + 1, rv |-> clock + 1, owner |-> u, del |-> FALSE,
         fit |-> u = NoOwner, content |-> c] \in Objects
    BY DEF TypeOK, Objects, Parents, NoOwner
  <2> QED BY <2>1, <2>2, WriteKeeps
<1>8. ASSUME NEW k \in Kinds, OutsiderEdit(k) PROVE StepKeeps
  <2>1. PICK c \in Contents, u \in {NoOwner, store[k].owner} :
          Write(k, [store[k] EXCEPT !.content = c, !.owner = u])
    BY <1>8 DEF OutsiderEdit
  <2>2. store[k] \in Objects /\ u \in Nat
    BY <1>8 DEF TypeOK, Objects, NoOwner, OutsiderEdit
  <2>3. [store[k] EXCEPT !.content = c, !.owner = u] \in Objects
    BY <2>2 DEF Objects
  <2> QED BY <2>1, <2>3, WriteKeeps
<1>9. ASSUME NEW k \in Kinds, OutsiderDelete(k) PROVE StepKeeps
  BY <1>9, RemoveKeeps DEF OutsiderDelete
<1>10. ASSUME UNCHANGED <<clock, store>> PROVE StepKeeps
  BY <1>10, IdleKeeps
<1>11. ASSUME NEW m \in Managers, StartReconcile(m) \/ SkipReconcile(m)
                  \/ SyncParent(m) \/ ApiError(m) \/ Restart(m)
       PROVE  UNCHANGED <<clock, store>>
  BY <1>11 DEF StartReconcile, SkipReconcile, SyncParent, ApiError, Restart, apiVars
<1>12. ASSUME NEW m \in Managers, NEW k \in Kinds, ApplyRead(m, k) \/ SyncChild(m, k)
       PROVE  UNCHANGED <<clock, store>>
  BY <1>12 DEF ApplyRead, SyncChild, apiVars
<1>13. ASSUME FinalizeParent \/ EditSpec \/ DeleteParent
       PROVE  UNCHANGED <<clock, store>>
  BY <1>13 DEF FinalizeParent, EditSpec, DeleteParent
<1> QED BY <1>1, <1>2, <1>3, <1>4, <1>5, <1>6, <1>7, <1>8, <1>9, <1>10, <1>11,
           <1>12, <1>13
        DEF Next, ManagerStep, Sync, ControlPlane, Disturbance

\* How a step changes the reconcile of one manager: not at all, to a point
\* that holds no decision about an object, or to a decision just taken from an
\* owned, live copy while the API server stood still.
WorkStep(m) ==
    \/ work'[m] = work[m]
    \/ work'[m].pc = "idle"
    \/ work'[m].pc \in {"read", "create"} /\ work'[m].parent # Nil
    \/ /\ UNCHANGED <<clock, store>>
       /\ \E k \in Kinds : \E o \in Objects :
            /\ Current(m, k) /\ o = Get(m, k)
            /\ owns(work[m].parent, o) /\ ~o.del
            /\ work[m].parent # Nil
            /\ \E pc \in {"patch", "delete"} :
                 work'[m] = [work[m] EXCEPT !.pc = pc, !.cur = o]

\* The part of WorkStep that holds no decision about an object.
Undecided(m) ==
    \/ work'[m] = work[m]
    \/ work'[m].pc = "idle"
    \/ work'[m].pc \in {"read", "create"} /\ work'[m].parent # Nil

\* A step after which no manager has decided on a write needs no evidence.
LEMMA UndecidedWork ==
    ASSUME \A n \in Managers : Undecided(n)
    PROVE  \A n \in Managers : WorkStep(n)
  BY DEF Undecided, WorkStep

\* Apply decides on a write only from a copy that it owns.
LEMMA ReadWork ==
    ASSUME OwnInv, NEW m \in Managers, NEW k \in Kinds, ApplyRead(m, k)
    PROVE  \A n \in Managers : WorkStep(n)
<1> DEFINE o == Get(m, k)
<1>1. work \in [Managers -> Works] /\ o \in Objects \cup {Nil}
  BY DEF OwnInv, TypeOK, Get
<1>2. \A n \in Managers : n # m => work'[n] = work[n]
  BY <1>1 DEF ApplyRead, Advance, Await, Fail
<1>5. work[m].parent # Nil
  BY DEF ApplyRead, OwnInv, Engaged
<1>3. WorkStep(m)
  <2>1. CASE Advance(m, k)
    BY <1>1, <1>5, <2>1 DEF Advance, WorkStep, Idle
  <2>2. CASE Fail(m)
    BY <1>1, <2>2 DEF Fail, WorkStep, Idle
  <2>3. CASE Await(m, "create", Nil)
    BY <1>1, <1>5, <2>3 DEF Await, WorkStep, Works
  <2>4. ASSUME NEW pc \in {"patch", "delete"}, Await(m, pc, o), o # Nil,
               owns(work[m].parent, o), ~o.del
        PROVE  WorkStep(m)
    <3>1. work'[m] = [work[m] EXCEPT !.pc = pc, !.cur = o]
      BY <1>1, <2>4 DEF Await
    <3>2. UNCHANGED <<clock, store>> /\ Current(m, k)
      BY DEF ApplyRead, apiVars
    <3> QED BY <1>1, <1>5, <2>4, <3>1, <3>2 DEF WorkStep
  <2> QED BY <2>1, <2>2, <2>3, <2>4 DEF ApplyRead
<1>4. ASSUME NEW n \in Managers PROVE WorkStep(n)
  <2>1. CASE n = m BY <1>3, <2>1
  <2>2. CASE n # m BY <1>2, <2>2 DEF WorkStep
  <2> QED BY <2>1, <2>2
<1> QED BY <1>4

\* No step makes a manager decide on a write without evidence.
LEMMA NextWork ==
    ASSUME OwnInv, Next
    PROVE  \A n \in Managers : WorkStep(n)
<1>1. work \in [Managers -> Works]
  BY DEF OwnInv, TypeOK
<1>2. ASSUME NEW m \in Managers, NEW k \in Kinds, work[m].pc # "idle",
             Advance(m, k) \/ Fail(m)
      PROVE  \A n \in Managers : Undecided(n)
  <2>1. work[m].parent # Nil
    BY <1>2 DEF OwnInv, Engaged
  <2> QED BY <1>1, <1>2, <2>1 DEF Advance, Fail, Undecided, Idle
<1>3. ASSUME NEW m \in Managers, NEW k \in Kinds,
             ApplyCreate(m, k) \/ ApplyPatch(m, k) \/ ApplyDelete(m, k)
      PROVE  \A n \in Managers : Undecided(n)
  BY <1>2, <1>3 DEF ApplyCreate, ApplyPatch, ApplyDelete, Answered
<1>4. ASSUME NEW m \in Managers, StartReconcile(m) \/ ApiError(m) \/ Restart(m)
      PROVE  \A n \in Managers : Undecided(n)
  <2>1. CASE StartReconcile(m)
    BY <1>1, <2>1 DEF StartReconcile, Reconcilable, Undecided
  <2>2. CASE ApiError(m) \/ Restart(m)
    BY <1>1, <2>2 DEF ApiError, Restart, Fail, Undecided, Idle
  <2> QED BY <1>4, <2>1, <2>2
<1>5. ASSUME UNCHANGED work PROVE \A n \in Managers : Undecided(n)
  BY <1>5 DEF Undecided
<1>6. ASSUME NEW m \in Managers, SkipReconcile(m) \/ SyncParent(m)
                 \/ \E k \in Kinds : SyncChild(m, k)
      PROVE  UNCHANGED work
  BY <1>6 DEF SkipReconcile, SyncParent, SyncChild
<1>7. ASSUME ControlPlane PROVE UNCHANGED work
  BY <1>7 DEF ControlPlane, FinalizeParent, CollectGarbage, FinalizeChild, managerVars
<1>8. ASSUME NEW k \in Kinds, OutsiderCreate(k) \/ OutsiderEdit(k) \/ OutsiderDelete(k)
      PROVE  UNCHANGED work
  BY <1>8 DEF OutsiderCreate, OutsiderEdit, OutsiderDelete, managerVars
<1>9. ASSUME CreateParent \/ EditSpec \/ DeleteParent PROVE UNCHANGED work
  BY <1>9 DEF CreateParent, EditSpec, DeleteParent, managerVars
<1> QED BY ReadWork, UndecidedWork, <1>3, <1>4, <1>5, <1>6, <1>7, <1>8, <1>9
        DEF Next, ManagerStep, Sync, Disturbance

\* A cache entry stays or becomes what the API server holds.
LEMMA NextCache ==
    ASSUME OwnInv, Next
    PROVE  \A m \in Managers, k \in Kinds :
               cache'[m][k] = cache[m][k] \/ cache'[m][k] = store'[k]
<1>1. cache \in [Managers -> [Kinds -> Objects \cup {Nil}]]
  BY DEF OwnInv, TypeOK
<1>2. ASSUME NEW m \in Managers, NEW j \in Kinds, SyncChild(m, j)
      PROVE  \A n \in Managers, k \in Kinds :
                 cache'[n][k] = cache[n][k] \/ cache'[n][k] = store'[k]
  BY <1>1, <1>2 DEF SyncChild
<1>3. ASSUME NEW m \in Managers, Restart(m)
      PROVE  \A n \in Managers, k \in Kinds :
                 cache'[n][k] = cache[n][k] \/ cache'[n][k] = store'[k]
  BY <1>1, <1>3 DEF Restart
<1>4. ASSUME NEW m \in Managers, ManagerStep(m) \/ SyncParent(m) \/ ApiError(m)
      PROVE  UNCHANGED cache
  BY <1>4 DEF ManagerStep, StartReconcile, SkipReconcile, ApplyRead, ApplyCreate,
              ApplyPatch, ApplyDelete, SyncParent, ApiError, cacheVars
<1>5. ASSUME ControlPlane PROVE UNCHANGED cache
  BY <1>5 DEF ControlPlane, FinalizeParent, CollectGarbage, FinalizeChild, managerVars
<1>6. ASSUME NEW k \in Kinds, OutsiderCreate(k) \/ OutsiderEdit(k) \/ OutsiderDelete(k)
      PROVE  UNCHANGED cache
  BY <1>6 DEF OutsiderCreate, OutsiderEdit, OutsiderDelete, managerVars
<1>7. ASSUME CreateParent \/ EditSpec \/ DeleteParent PROVE UNCHANGED cache
  BY <1>7 DEF CreateParent, EditSpec, DeleteParent, managerVars
<1> QED BY <1>2, <1>3, <1>4, <1>5, <1>6, <1>7 DEF Next, Sync, Disturbance

\* The ownership invariant holds initially.
LEMMA OwnInit == Init => OwnInv
<1> SUFFICES ASSUME Init PROVE OwnInv
  OBVIOUS
<1>1. \A m \in Managers : work[m].pc = "idle"
  BY DEF Init, Idle
<1>2. Engaged /\ Pending
  BY <1>1 DEF Engaged, Pending
<1>3. Coherent
  BY DEF Init, Coherent, Same
<1> QED BY <1>2, <1>3, InitType DEF OwnInv

\* Every step preserves the ownership invariant.
LEMMA OwnStep == OwnInv /\ [Next]_vars => OwnInv'
<1> SUFFICES ASSUME OwnInv, [Next]_vars PROVE OwnInv'
  OBVIOUS
<1>1. CASE UNCHANGED vars
  BY <1>1 DEF vars, OwnInv, TypeOK, Engaged, Coherent, Pending, Same, Current
<1>2. CASE Next
  <2>1. TypeOK'
    <3>1. CASE \E m \in Managers, k \in Kinds : ApplyRead(m, k)
      BY <3>1, ReadType DEF OwnInv
    <3>2. CASE \E m \in Managers, k \in Kinds :
                 ApplyCreate(m, k) \/ ApplyPatch(m, k) \/ ApplyDelete(m, k)
      BY <3>2, WriteStepType DEF OwnInv
    <3> QED BY <1>2, <3>1, <3>2, OtherStepsType DEF OwnInv
  <2>2. StepKeeps
    BY <1>2, NextKeeps
  <2>3. \A n \in Managers : WorkStep(n)
    BY <1>2, NextWork
  <2>4. Engaged'
    <3> SUFFICES ASSUME NEW n \in Managers
                 PROVE  /\ work'[n].pc # "idle" => work'[n].parent # Nil
                        /\ work'[n].pc \in {"patch", "delete"} => work'[n].cur # Nil
      BY DEF Engaged
    <3>1. WorkStep(n) /\ work[n] \in Works
      BY <2>3 DEF OwnInv, TypeOK
    <3>2. CASE work'[n] = work[n]
      BY <3>2 DEF OwnInv, Engaged
    <3>3. CASE work'[n].pc \in {"idle", "read", "create"}
      BY <3>1, <3>3 DEF WorkStep, OwnInv, Engaged, Works
    <3>4. ASSUME NEW pc \in {"patch", "delete"}, NEW o \in Objects,
                 work[n].parent # Nil,
                 work'[n] = [work[n] EXCEPT !.pc = pc, !.cur = o]
          PROVE  work'[n].parent # Nil /\ work'[n].cur # Nil
      <4>1. work'[n].parent = work[n].parent /\ work'[n].cur = o
        BY <3>1, <3>4 DEF Works
      <4> QED BY <3>4, <4>1, NilAssumption
    <3> QED BY <3>1, <3>2, <3>3, <3>4 DEF WorkStep
  <2>5. Coherent'
    <3>1. ASSUME NEW k \in Kinds PROVE Same(store[k], k)'
      BY <2>2 DEF StepKeeps, Same
    <3>2. ASSUME NEW m \in Managers, NEW k \in Kinds PROVE Same(cache[m][k], k)'
      <4>1. CASE cache'[m][k] = store'[k]
        BY <2>2, <4>1 DEF StepKeeps, Same
      <4>2. CASE cache'[m][k] = cache[m][k]
        <5>1. cache[m][k] \in Objects \cup {Nil} /\ Same(cache[m][k], k)
          BY DEF OwnInv, TypeOK, Coherent
        <5>2. SameAfter(cache[m][k], k)
          BY <2>2, <5>1 DEF StepKeeps
        <5> QED BY <4>2, <5>2 DEF Same, SameAfter
      <4> QED BY <1>2, <4>1, <4>2, NextCache
    <3> QED BY <3>1, <3>2 DEF Coherent
  <2>6. Pending'
    <3> SUFFICES ASSUME NEW n \in Managers, work'[n].pc \in {"patch", "delete"}
                 PROVE  /\ work'[n].cur.owner = work'[n].parent.uid
                        /\ ~work'[n].cur.del
                        /\ \A k \in Kinds : Current(n, k)' => SameAfter(work'[n].cur, k)
      BY DEF Pending, Same, SameAfter
    <3>1. WorkStep(n) /\ work[n] \in Works
      BY <2>3 DEF OwnInv, TypeOK
    <3>2. CASE work'[n] = work[n]
      <4>1. \A k \in Kinds : Current(n, k)' <=> Current(n, k)
        BY <3>2 DEF Current
      <4>2. /\ work[n].cur.owner = work[n].parent.uid /\ ~work[n].cur.del
            /\ \A k \in Kinds : Current(n, k) => Same(work[n].cur, k)
        BY <3>2 DEF OwnInv, Pending
      <4>3. work[n].cur \in Objects \cup {Nil}
        BY <3>1 DEF Works
      <4> QED BY <2>2, <3>2, <4>1, <4>2, <4>3 DEF StepKeeps
    <3>3. CASE work'[n] # work[n]
      <4>1. PICK k \in Kinds, o \in Objects, pc \in {"patch", "delete"} :
              /\ UNCHANGED <<clock, store>>
              /\ Current(n, k) /\ o = Get(n, k)
              /\ owns(work[n].parent, o) /\ ~o.del
              /\ work'[n] = [work[n] EXCEPT !.pc = pc, !.cur = o]
        BY <3>1, <3>3 DEF WorkStep
      <4>2. /\ work'[n].cur = o /\ work'[n].parent = work[n].parent
            /\ work'[n].todo = work[n].todo
        BY <3>1, <4>1 DEF Works
      <4>3. \A j \in Kinds : Current(n, j)' => j = k
        BY <4>1, <4>2, KindsAssumption DEF Current
      <4>4. Same(o, k)
        BY <4>1 DEF OwnInv, Coherent, Get
      <4>5. SameAfter(o, k)
        BY <2>2, <4>4 DEF StepKeeps
      <4> QED BY <4>1, <4>2, <4>3, <4>5 DEF owns
    <3> QED BY <3>2, <3>3
  <2> QED BY <2>1, <2>4, <2>5, <2>6 DEF OwnInv
<1> QED BY <1>1, <1>2 DEF vars

\* Every reachable state of the engine is well typed.
THEOREM TypeCorrect == Spec => []TypeOK
<1>1. OwnInv => TypeOK
  BY DEF OwnInv
<1> QED BY OwnInit, OwnStep, <1>1, PTL DEF Spec

\* What one write of one manager does to the child of kind k.
Stewarded(m, k) ==
    /\ store[k] # Nil => /\ store[k].owner = work[m].parent.uid
                         /\ ~store[k].del
    /\ store'[k] # Nil =>
           /\ store'[k].owner = work[m].parent.uid
           /\ store[k] # Nil => store'[k].uid = store[k].uid

\* Only the three writes of Apply change a child and a manager's progress in
\* one step, and they touch the child and the manager in hand.
LEMMA WriterIsApply ==
    ASSUME OwnInv, Next, NEW m \in Managers, NEW k \in Kinds, Writes(m, k)
    PROVE  ApplyCreate(m, k) \/ ApplyPatch(m, k) \/ ApplyDelete(m, k)
<1>1. /\ work \in [Managers -> Works] /\ store \in [Kinds -> Objects \cup {Nil}]
      /\ work'[m] # work[m] /\ store'[k] # store[k]
  BY DEF OwnInv, TypeOK, Writes
<1>2. ASSUME NEW n \in Managers, NEW j \in Kinds,
             ApplyCreate(n, j) \/ ApplyPatch(n, j) \/ ApplyDelete(n, j)
      PROVE  n = m /\ j = k
  BY <1>1, <1>2 DEF ApplyCreate, ApplyPatch, ApplyDelete, Answered, Advance, Fail,
                    Write, Remove, Drop
<1>3. ASSUME NEW n \in Managers, StartReconcile(n) \/ SkipReconcile(n)
                 \/ SyncParent(n) \/ ApiError(n) \/ Restart(n)
      PROVE  FALSE
  BY <1>1, <1>3 DEF StartReconcile, SkipReconcile, SyncParent, ApiError, Restart,
                    apiVars
<1>4. ASSUME NEW n \in Managers, NEW j \in Kinds, ApplyRead(n, j) \/ SyncChild(n, j)
      PROVE  FALSE
  BY <1>1, <1>4 DEF ApplyRead, SyncChild, apiVars
<1>5. ASSUME ControlPlane PROVE FALSE
  BY <1>1, <1>5 DEF ControlPlane, FinalizeParent, CollectGarbage, FinalizeChild,
                    managerVars
<1>6. ASSUME NEW j \in Kinds, OutsiderCreate(j) \/ OutsiderEdit(j) \/ OutsiderDelete(j)
      PROVE  FALSE
  BY <1>1, <1>6 DEF OutsiderCreate, OutsiderEdit, OutsiderDelete, managerVars
<1>7. ASSUME CreateParent \/ EditSpec \/ DeleteParent PROVE FALSE
  BY <1>1, <1>7 DEF CreateParent, EditSpec, DeleteParent, managerVars
<1> QED BY <1>2, <1>3, <1>4, <1>5, <1>6, <1>7
        DEF Next, ManagerStep, Sync, Disturbance

\* A call of Apply that changes a child is entitled to it.
LEMMA ApplyStewards ==
    ASSUME OwnInv, NEW m \in Managers, NEW k \in Kinds, Writes(m, k),
           ApplyCreate(m, k) \/ ApplyPatch(m, k) \/ ApplyDelete(m, k)
    PROVE  Stewarded(m, k)
<1>1. /\ work \in [Managers -> Works] /\ store \in [Kinds -> Objects \cup {Nil}]
      /\ store'[k] # store[k]
  BY DEF OwnInv, TypeOK, Writes
<1>2. ASSUME work[m].pc \in {"patch", "delete"}, Current(m, k), Unmodified(m, k)
      PROVE  store[k] = work[m].cur /\ store[k].owner = work[m].parent.uid
             /\ ~store[k].del
  BY <1>2 DEF OwnInv, Pending, Engaged, Same, Unmodified
<1>3. CASE ApplyCreate(m, k)
  <2>1. store[k] = Nil /\ store'[k] = [Rendered(work[m].parent) EXCEPT !.rv = clock + 1]
    BY <1>1, <1>3 DEF ApplyCreate, Write
  <2>2. store'[k].owner = work[m].parent.uid
    BY <2>1 DEF Rendered
  <2> QED BY <2>1, <2>2 DEF Stewarded
<1>4. CASE ApplyPatch(m, k)
  <2>1. /\ Unmodified(m, k) /\ store[k] \in Objects
        /\ store'[k] = [[store[k] EXCEPT !.content = work[m].parent.spec.content]
                           EXCEPT !.rv = clock + 1]
    BY <1>1, <1>4 DEF ApplyPatch, Write, Unmodified
  <2>2. store'[k].owner = store[k].owner /\ store'[k].uid = store[k].uid
    BY <2>1 DEF Objects
  <2> QED BY <1>2, <1>4, <2>1, <2>2 DEF Stewarded, ApplyPatch
<1>5. CASE ApplyDelete(m, k)
  <2>1. /\ Unmodified(m, k) /\ store[k] \in Objects
        /\ \/ store'[k] = Nil
           \/ store'[k] = [[store[k] EXCEPT !.del = TRUE] EXCEPT !.rv = clock + 1]
    BY <1>1, <1>5 DEF ApplyDelete, Remove, Drop, Write, Unmodified
  <2>2. store'[k] # Nil =>
            store'[k].owner = store[k].owner /\ store'[k].uid = store[k].uid
    BY <2>1 DEF Objects
  <2> QED BY <1>2, <1>5, <2>1, <2>2 DEF Stewarded, ApplyDelete
<1> QED BY <1>3, <1>4, <1>5

\* Engine.Apply writes only live objects that the reconciled parent UID
\* controls, for any number of managers, kinds, faults and cache delays.
THEOREM Ownership == Spec => OwnWritesOnly
<1> DEFINE A == \A m \in Managers, k \in Kinds : Writes(m, k) =>
                   /\ store[k] # Nil => /\ store[k].owner = work[m].parent.uid
                                        /\ ~store[k].del
                   /\ store'[k] # Nil =>
                          /\ store'[k].owner = work[m].parent.uid
                          /\ store[k] # Nil => store'[k].uid = store[k].uid
<1>1. OwnInv /\ [Next]_vars => [A]_vars
  <2> SUFFICES ASSUME OwnInv, Next PROVE A
    OBVIOUS
  <2> SUFFICES ASSUME NEW m \in Managers, NEW k \in Kinds, Writes(m, k)
               PROVE  Stewarded(m, k)
    BY DEF Stewarded
  <2> QED BY WriterIsApply, ApplyStewards
<1> QED BY <1>1, OwnInit, OwnStep, PTL DEF Spec, OwnWritesOnly

-----------------------------------------------------------------------------
(* Dependency order.  A controlled object, and every copy of it, is recorded  *)
(* in the history, and a reconcile has passed a wanted kind only on the       *)
(* evidence of a controlled object of that kind.  A pending write is the one  *)
(* that the reconciled spec calls for.                                        *)

Recorded(o, k) == o # Nil /\ o.owner # NoOwner => <<o.owner, k>> \in made

Named(p) == p # Nil => p.uid # NoOwner

History ==
    /\ \A k \in Kinds : Recorded(store[k], k)
    /\ \A m \in Managers, k \in Kinds : Recorded(cache[m][k], k)
    /\ Named(parent)
    /\ \A m \in Managers : Named(pcache[m]) /\ Named(work[m].parent)

Passed ==
    \A m \in Managers :
        /\ work[m].pc # "idle" =>
               \A j \in Wanted(work[m].parent.spec) :
                   j \notin work[m].todo => <<work[m].parent.uid, j>> \in made
        /\ work[m].pc = "patch" => work[m].cur.fit
        /\ \A k \in Kinds : Current(m, k) =>
               /\ work[m].pc \in {"create", "patch"} => k \in Wanted(work[m].parent.spec)
               /\ work[m].pc = "delete" => k \notin Wanted(work[m].parent.spec)

DepInv == OwnInv /\ History /\ Passed

\* The order invariant is strong enough.
LEMMA DepImplies == DepInv => DependencyOrder
<1> SUFFICES ASSUME DepInv, NEW m \in Managers, NEW k \in Kinds,
                    work[m].pc = "create", Current(m, k),
                    NEW j \in Wanted(work[m].parent.spec), j < k
             PROVE  <<work[m].parent.uid, j>> \in made
  BY DEF DependencyOrder
<1>1. work[m].parent \in Parents /\ work[m].todo \subseteq Kinds
  BY DEF DepInv, OwnInv, TypeOK, Works, Engaged
<1>2. j \in Kinds
  BY <1>1 DEF Wanted, Required, Parents, Specs, Optional
<1>3. j \notin work[m].todo
  BY <1>1, <1>2, KindsAssumption DEF Current
<1> QED BY <1>3 DEF DepInv, Passed

\* What a step does to the children, as the history sees it.
Recording ==
    /\ made \subseteq made'
    /\ \A k \in Kinds :
         \/ store'[k] = store[k]
         \/ Recorded(store[k], k)'

\* A write is recorded in the history.
LEMMA WriteRecords ==
    ASSUME TypeOK, NEW k \in Kinds, NEW o \in Objects, Write(k, o)
    PROVE  Recording
<1>1. store'[k] = [o EXCEPT !.rv = clock + 1]
      /\ \A j \in Kinds : j # k => store'[j] = store[j]
  BY DEF TypeOK, Write
<1>2. store'[k].owner = o.owner
  BY <1>1 DEF Objects
<1>3. Recorded(store[k], k)'
  BY <1>2 DEF Recorded, Write
<1> QED BY <1>1, <1>3 DEF Recording, Write

\* A removal leaves the history as it is.
LEMMA RemoveRecords ==
    ASSUME TypeOK, NEW k \in Kinds, store[k] # Nil, Remove(k) \/ Drop(k)
    PROVE  Recording
<1>1. [store[k] EXCEPT !.del = TRUE] \in Objects
  BY DEF TypeOK, Objects
<1>2. CASE Drop(k)
  BY <1>2 DEF TypeOK, Drop, Recording, Recorded
<1> QED BY <1>1, <1>2, WriteRecords DEF Remove

\* Every step keeps the history complete.
LEMMA NextRecords ==
    ASSUME OwnInv, Next
    PROVE  Recording
<1> USE DEF OwnInv
<1>1. ASSUME NEW m \in Managers, NEW k \in Kinds, ApplyCreate(m, k)
      PROVE  Recording
  <2>1. work[m].parent \in Parents
    BY <1>1 DEF TypeOK, Works, Engaged, ApplyCreate
  <2>2. CASE Write(k, Rendered(work[m].parent))
    BY <2>1, <2>2, RenderedType, WriteRecords
  <2>3. CASE UNCHANGED <<store, made>>
    BY <2>3 DEF Recording
  <2> QED BY <1>1, <2>2, <2>3 DEF ApplyCreate
<1>2. ASSUME NEW m \in Managers, NEW k \in Kinds, ApplyPatch(m, k)
      PROVE  Recording
  <2> DEFINE o == [store[k] EXCEPT !.content = work[m].parent.spec.content]
  <2>1. work[m].parent \in Parents
    BY <1>2 DEF TypeOK, Works, Engaged, ApplyPatch
  <2>2. Unmodified(m, k) => o \in Objects
    BY <2>1 DEF TypeOK, Unmodified, Parents, Specs, Objects
  <2>3. CASE UNCHANGED <<store, made>>
    BY <2>3 DEF Recording
  <2> QED BY <1>2, <2>2, <2>3, WriteRecords DEF ApplyPatch
<1>3. ASSUME NEW m \in Managers, NEW k \in Kinds, ApplyDelete(m, k)
      PROVE  Recording
  <2>1. CASE UNCHANGED <<store, made>>
    BY <2>1 DEF Recording
  <2> QED BY <1>3, <2>1, RemoveRecords DEF ApplyDelete, Unmodified
<1>4. ASSUME NEW k \in Kinds, CollectGarbage(k) \/ FinalizeChild(k) \/ OutsiderDelete(k)
      PROVE  Recording
  BY <1>4, RemoveRecords DEF CollectGarbage, FinalizeChild, OutsiderDelete
<1>5. ASSUME NEW k \in Kinds, OutsiderCreate(k) PROVE Recording
  <2>1. PICK c \in Contents, u \in {NoOwner} \cup
                                   (IF parent = Nil THEN {} ELSE {parent.uid}) :
          Write(k, [uid |-> clock + 1, rv |-> clock + 1, owner |-> u,
                    del |-> FALSE, fit |-> u = NoOwner, content |-> c])
    BY <1>5 DEF OutsiderCreate
  <2>2. [uid |-> clock + 1, rv |-> clock + 1, owner |-> u, del |-> FALSE,
         fit |-> u = NoOwner, content |-> c] \in Objects
    BY DEF TypeOK, Objects, Parents, NoOwner
  <2> QED BY <2>1, <2>2, WriteRecords
<1>6. ASSUME NEW k \in Kinds, OutsiderEdit(k) PROVE Recording
  <2>1. PICK c \in Contents, u \in {NoOwner, store[k].owner} :
          Write(k, [store[k] EXCEPT !.content = c, !.owner = u])
    BY <1>6 DEF OutsiderEdit
  <2>2. store[k] \in Objects /\ u \in Nat
    BY <1>6 DEF TypeOK, Objects, NoOwner, OutsiderEdit
  <2>3. [store[k] EXCEPT !.content = c, !.owner = u] \in Objects
    BY <2>2 DEF Objects
  <2> QED BY <2>1, <2>3, WriteRecords
<1>7. ASSUME UNCHANGED <<store, made>> PROVE Recording
  BY <1>7 DEF Recording
<1>8. ASSUME NEW m \in Managers, StartReconcile(m) \/ SkipReconcile(m)
                 \/ SyncParent(m) \/ ApiError(m) \/ Restart(m)
      PROVE  UNCHANGED <<store, made>>
  BY <1>8 DEF StartReconcile, SkipReconcile, SyncParent, ApiError, Restart, apiVars
<1>9. ASSUME NEW m \in Managers, NEW k \in Kinds, ApplyRead(m, k) \/ SyncChild(m, k)
      PROVE  UNCHANGED <<store, made>>
  BY <1>9 DEF ApplyRead, SyncChild, apiVars
<1>10. ASSUME CreateParent \/ FinalizeParent \/ EditSpec \/ DeleteParent
       PROVE  UNCHANGED <<store, made>>
  BY <1>10 DEF CreateParent, FinalizeParent, EditSpec, DeleteParent
<1> QED BY <1>1, <1>2, <1>3, <1>4, <1>5, <1>6, <1>7, <1>8, <1>9, <1>10
        DEF Next, ManagerStep, Sync, ControlPlane, Disturbance

\* How a step moves one manager's reconcile through its plan.
Began(m) ==
    /\ work'[m].pc = "read" /\ work'[m].parent = pcache[m] /\ pcache[m] # Nil
    /\ Wanted(pcache[m].spec) \subseteq work'[m].todo

Decided(m) ==
    /\ work[m].pc # "idle" /\ work'[m].pc \in {"create", "patch", "delete"}
    /\ work'[m].parent = work[m].parent /\ work'[m].todo = work[m].todo
    /\ work'[m].pc = "patch" => work'[m].cur.fit
    /\ \A k \in Kinds : Current(m, k) =>
         /\ work'[m].pc \in {"create", "patch"} => k \in Wanted(work[m].parent.spec)
         /\ work'[m].pc = "delete" => k \notin Wanted(work[m].parent.spec)

Advanced(m) ==
    /\ work[m].pc # "idle" /\ work'[m].pc = "read"
    /\ work'[m].parent = work[m].parent
    /\ \E k \in Kinds :
         /\ work'[m].todo = work[m].todo \ {k}
         /\ k \in Wanted(work[m].parent.spec) =>
                <<work[m].parent.uid, k>> \in made'

Move(m) ==
    work'[m] = work[m] \/ work'[m] = Idle \/ Began(m) \/ Decided(m) \/ Advanced(m)

\* A reconcile goes past a wanted kind only once it is recorded.
LEMMA AdvanceMoves ==
    ASSUME DepInv, NEW m \in Managers, NEW k \in Kinds, Advance(m, k),
           work[m].pc # "idle",
           k \in Wanted(work[m].parent.spec) => <<work[m].parent.uid, k>> \in made'
    PROVE  \A n \in Managers : Move(n)
<1>1. work \in [Managers -> Works]
  BY DEF DepInv, OwnInv, TypeOK
<1>2. work'[m] = Idle \/ Advanced(m)
  BY <1>1 DEF Advance, Advanced
<1> QED BY <1>1, <1>2 DEF Advance, Move

\* A failed reconcile has passed no kind.
LEMMA FailMoves ==
    ASSUME DepInv, NEW m \in Managers, Fail(m)
    PROVE  \A n \in Managers : Move(n)
  BY DEF DepInv, OwnInv, TypeOK, Fail, Move

\* Apply goes past a kind only if there is nothing to write.
LEMMA ReadMoves ==
    ASSUME DepInv, NEW m \in Managers, NEW k \in Kinds, ApplyRead(m, k)
    PROVE  \A n \in Managers : Move(n)
<1> DEFINE o == Get(m, k)
           wanted == k \in Wanted(work[m].parent.spec)
<1>1. work \in [Managers -> Works] /\ work[m].pc # "idle" /\ Current(m, k)
      /\ made' = made /\ work[m].parent # Nil /\ work[m].todo \subseteq Kinds
  BY DEF DepInv, OwnInv, Engaged, TypeOK, ApplyRead, apiVars, Works
<1>2. o # Nil /\ owns(work[m].parent, o) => <<work[m].parent.uid, k>> \in made
  <2>1. Recorded(o, k) /\ Named(work[m].parent)
    BY DEF DepInv, History, Get
  <2> QED BY <1>1, <2>1 DEF Recorded, Named, owns
<1>3. \A j \in Kinds : Current(m, j) => j = k
  BY <1>1, KindsAssumption DEF Current
<1>4. CASE Advance(m, k) /\ (wanted => o # Nil /\ owns(work[m].parent, o))
  BY <1>1, <1>2, <1>4, AdvanceMoves
<1>5. CASE Fail(m)
  BY <1>5, FailMoves
<1>6. ASSUME NEW pc \in {"create", "patch", "delete"}, NEW c, Await(m, pc, c),
             pc = "delete" <=> ~wanted, pc = "patch" => c.fit
      PROVE  \A n \in Managers : Move(n)
  <2>1. work'[m] = [work[m] EXCEPT !.pc = pc, !.cur = c]
        /\ \A n \in Managers : n # m => work'[n] = work[n]
    BY <1>1, <1>6 DEF Await
  <2>2. work'[m].pc = pc /\ work'[m].parent = work[m].parent
        /\ work'[m].todo = work[m].todo /\ work'[m].cur = c
    BY <1>1, <2>1 DEF Works
  <2>3. Decided(m)
    BY <1>1, <1>3, <1>6, <2>2 DEF Decided
  <2> QED BY <2>1, <2>3 DEF Move
<1> QED BY <1>4, <1>5, <1>6 DEF ApplyRead

\* An API call goes past a kind only if it succeeded.
LEMMA WriteMoves ==
    ASSUME DepInv, NEW m \in Managers, NEW k \in Kinds,
           ApplyCreate(m, k) \/ ApplyPatch(m, k) \/ ApplyDelete(m, k)
    PROVE  \A n \in Managers : Move(n)
<1>1. /\ work[m].pc # "idle" /\ Current(m, k) /\ work[m].parent \in Parents
      /\ work[m].parent.uid # NoOwner
  BY DEF DepInv, OwnInv, TypeOK, Works, Engaged, ApplyCreate, ApplyPatch, ApplyDelete,
         History, Named
<1>2. ASSUME Answered(m, k),
             k \in Wanted(work[m].parent.spec) => <<work[m].parent.uid, k>> \in made'
      PROVE  \A n \in Managers : Move(n)
  BY <1>1, <1>2, AdvanceMoves, FailMoves DEF Answered
<1>3. CASE ApplyCreate(m, k)
  <2>1. CASE Fail(m) BY <2>1, FailMoves
  <2>2. CASE Write(k, Rendered(work[m].parent)) /\ Answered(m, k)
    <3>1. <<work[m].parent.uid, k>> \in made'
      BY <1>1, <2>2 DEF Write, Rendered
    <3> QED BY <1>2, <2>2, <3>1
  <2> QED BY <1>3, <2>1, <2>2 DEF ApplyCreate
<1>4. CASE ApplyPatch(m, k)
  <2> DEFINE o == [store[k] EXCEPT !.content = work[m].parent.spec.content]
  <2>1. CASE Fail(m) BY <2>1, FailMoves
  <2>2. CASE Unmodified(m, k) /\ Write(k, o) /\ Answered(m, k)
    <3>1. store[k] \in Objects /\ store[k].owner = work[m].parent.uid
      BY <1>1, <1>4, <2>2
      DEF DepInv, OwnInv, TypeOK, Pending, Engaged, Same, Unmodified, ApplyPatch
    <3>2. o.owner = work[m].parent.uid
      BY <3>1 DEF Objects
    <3>3. <<work[m].parent.uid, k>> \in made'
      BY <1>1, <2>2, <3>2 DEF Write
    <3> QED BY <1>2, <2>2, <3>3
  <2> QED BY <1>4, <2>1, <2>2 DEF ApplyPatch
<1>5. CASE ApplyDelete(m, k)
  <2>1. k \notin Wanted(work[m].parent.spec)
    BY <1>1, <1>5 DEF DepInv, Passed, ApplyDelete
  <2>2. CASE Fail(m) BY <2>2, FailMoves
  <2>3. CASE Advance(m, k) BY <1>1, <2>1, <2>3, AdvanceMoves
  <2>4. CASE Answered(m, k) BY <1>2, <2>1, <2>4
  <2> QED BY <1>5, <2>2, <2>3, <2>4 DEF ApplyDelete
<1> QED BY <1>3, <1>4, <1>5

\* No step takes a reconcile past a wanted kind that is not recorded.
LEMMA NextMoves ==
    ASSUME DepInv, Next
    PROVE  \A n \in Managers : Move(n)
<1>1. work \in [Managers -> Works]
  BY DEF DepInv, OwnInv, TypeOK
<1>2. ASSUME NEW m \in Managers, StartReconcile(m)
      PROVE  \A n \in Managers : Move(n)
  <2>1. PICK plan \in Plans(pcache[m].spec) :
          work' = [work EXCEPT ![m] = [pc |-> "read", parent |-> pcache[m],
                                       todo |-> plan, cur |-> Nil]]
    BY <1>2 DEF StartReconcile
  <2>2. pcache[m] \in Parents
    BY <1>2 DEF DepInv, OwnInv, TypeOK, StartReconcile, Reconcilable
  <2>3. Wanted(pcache[m].spec) \subseteq plan
    BY <2>1, <2>2 DEF Wanted, Required, Plans, Parents, Specs, Optional, HTTPRoute
  <2>4. Began(m)
    BY <1>1, <1>2, <2>1, <2>3 DEF Began, StartReconcile, Reconcilable
  <2> QED BY <1>1, <2>1, <2>4 DEF Move
<1>3. ASSUME NEW m \in Managers, ApiError(m) \/ Restart(m)
      PROVE  \A n \in Managers : Move(n)
  BY <1>1, <1>3 DEF ApiError, Restart, Fail, Move
<1>4. ASSUME UNCHANGED work PROVE \A n \in Managers : Move(n)
  BY <1>4 DEF Move
<1>5. ASSUME NEW m \in Managers, SkipReconcile(m) \/ SyncParent(m)
                 \/ \E k \in Kinds : SyncChild(m, k)
      PROVE  UNCHANGED work
  BY <1>5 DEF SkipReconcile, SyncParent, SyncChild
<1>6. ASSUME ControlPlane PROVE UNCHANGED work
  BY <1>6 DEF ControlPlane, FinalizeParent, CollectGarbage, FinalizeChild, managerVars
<1>7. ASSUME NEW k \in Kinds, OutsiderCreate(k) \/ OutsiderEdit(k) \/ OutsiderDelete(k)
      PROVE  UNCHANGED work
  BY <1>7 DEF OutsiderCreate, OutsiderEdit, OutsiderDelete, managerVars
<1>8. ASSUME CreateParent \/ EditSpec \/ DeleteParent PROVE UNCHANGED work
  BY <1>8 DEF CreateParent, EditSpec, DeleteParent, managerVars
<1> QED BY ReadMoves, WriteMoves, <1>2, <1>3, <1>4, <1>5, <1>6, <1>7, <1>8
        DEF Next, ManagerStep, Sync, Disturbance

\* The parent and its copies keep a UID.
LEMMA NextNamed ==
    ASSUME DepInv, Next
    PROVE  Named(parent)' /\ \A m \in Managers : Named(pcache[m])'
<1>1. /\ Named(parent) /\ \A m \in Managers : Named(pcache[m])
      /\ clock \in Nat /\ parent \in Parents \cup {Nil}
      /\ pcache \in [Managers -> Parents \cup {Nil}]
  BY DEF DepInv, History, OwnInv, TypeOK
<1>2. ASSUME CreateParent \/ EditSpec \/ DeleteParent \/ FinalizeParent
      PROVE  Named(parent)' /\ UNCHANGED pcache
  BY <1>1, <1>2 DEF CreateParent, EditSpec, DeleteParent, FinalizeParent, managerVars,
                    Named, NoOwner, Parents
<1>3. ASSUME NEW m \in Managers, SyncParent(m) \/ Restart(m)
      PROVE  UNCHANGED parent /\ \A n \in Managers : Named(pcache[n])'
  BY <1>1, <1>3 DEF SyncParent, Restart, apiVars, Named
<1>4. ASSUME NEW m \in Managers, ManagerStep(m) \/ ApiError(m)
                 \/ \E k \in Kinds : SyncChild(m, k)
      PROVE  UNCHANGED <<parent, pcache>>
  BY <1>4 DEF ManagerStep, StartReconcile, SkipReconcile, ApplyRead, ApplyCreate,
              ApplyPatch, ApplyDelete, SyncChild, ApiError, apiVars, cacheVars
<1>5. ASSUME NEW k \in Kinds, CollectGarbage(k) \/ FinalizeChild(k)
                 \/ OutsiderCreate(k) \/ OutsiderEdit(k) \/ OutsiderDelete(k)
      PROVE  UNCHANGED <<parent, pcache>>
  BY <1>5 DEF CollectGarbage, FinalizeChild, OutsiderCreate, OutsiderEdit,
              OutsiderDelete, managerVars
<1> QED BY <1>1, <1>2, <1>3, <1>4, <1>5
        DEF Next, Sync, ControlPlane, Disturbance, Named

\* The order invariant holds initially.
LEMMA DepInit == Init => DepInv
<1> SUFFICES ASSUME Init PROVE DepInv
  OBVIOUS
<1>1. \A m \in Managers : work[m] = Idle
  BY DEF Init
<1>2. History
  BY <1>1 DEF Init, History, Recorded, Named, Idle, NoOwner
<1>3. Passed
  <2>1. \A m \in Managers : work[m].pc = "idle"
    BY DEF Init, Idle
  <2> QED BY <2>1 DEF Passed
<1> QED BY <1>2, <1>3, OwnInit DEF DepInv

\* Every step preserves the order invariant.
LEMMA DepStep == DepInv /\ [Next]_vars => DepInv'
<1> SUFFICES ASSUME DepInv, [Next]_vars PROVE DepInv'
  OBVIOUS
<1>1. OwnInv'
  BY OwnStep DEF DepInv
<1>2. CASE UNCHANGED vars
  <2>1. History'
    BY <1>2 DEF vars, DepInv, History, Recorded, Named
  <2>2. Passed'
    BY <1>2 DEF vars, DepInv, Passed, Current
  <2> QED BY <1>1, <2>1, <2>2 DEF DepInv
<1>3. CASE Next
  <2>1. Recording
    BY <1>3, NextRecords DEF DepInv
  <2>2. \A n \in Managers : Move(n)
    BY <1>3, NextMoves
  <2>3. ASSUME NEW k \in Kinds PROVE Recorded(store[k], k)'
    BY <2>1 DEF Recording, DepInv, History, Recorded
  <2>4. ASSUME NEW m \in Managers, NEW k \in Kinds PROVE Recorded(cache[m][k], k)'
    <3>1. cache'[m][k] = cache[m][k] \/ cache'[m][k] = store'[k]
      BY <1>3, NextCache DEF DepInv
    <3>2. CASE cache'[m][k] = cache[m][k]
      BY <2>1, <3>2 DEF Recording, DepInv, History, Recorded
    <3>3. CASE cache'[m][k] = store'[k]
      BY <2>3, <3>3 DEF Recorded
    <3> QED BY <3>1, <3>2, <3>3
  <2>5. ASSUME NEW m \in Managers PROVE Named(work[m].parent)'
    <3>1. Named(work[m].parent) /\ Named(pcache[m])
      BY DEF DepInv, History
    <3> QED BY <2>2, <3>1 DEF Move, Began, Decided, Advanced, Named, Idle
  <2>6. History'
    BY <1>3, <2>3, <2>4, <2>5, NextNamed DEF History
  <2>7. Passed'
    <3> SUFFICES ASSUME NEW m \in Managers
                 PROVE  /\ work'[m].pc # "idle" =>
                             \A j \in Wanted(work'[m].parent.spec) :
                                 j \notin work'[m].todo =>
                                     <<work'[m].parent.uid, j>> \in made'
                        /\ work'[m].pc = "patch" => work'[m].cur.fit
                        /\ \A k \in Kinds : Current(m, k)' =>
                             /\ work'[m].pc \in {"create", "patch"} =>
                                  k \in Wanted(work'[m].parent.spec)
                             /\ work'[m].pc = "delete" =>
                                  k \notin Wanted(work'[m].parent.spec)
      BY DEF Passed, Wanted
    <3>1. made \subseteq made' /\ Move(m)
      BY <2>1, <2>2 DEF Recording
    <3>2. CASE work'[m] = work[m]
      BY <3>1, <3>2 DEF DepInv, Passed, Current
    <3>3. CASE work'[m] = Idle
      BY <3>3 DEF Idle
    <3>4. CASE Began(m)
      BY <3>4 DEF Began
    <3>5. CASE Decided(m)
      BY <3>1, <3>5 DEF Decided, DepInv, Passed, Current
    <3>6. CASE Advanced(m)
      BY <3>1, <3>6 DEF Advanced, DepInv, Passed
    <3> QED BY <3>1, <3>2, <3>3, <3>4, <3>5, <3>6 DEF Move
  <2> QED BY <1>1, <2>6, <2>7 DEF DepInv
<1> QED BY <1>2, <1>3 DEF vars

\* The apply loop creates a child only after every earlier child that the
\* reconciled spec wants has existed under the same parent UID.
THEOREM DependencyOrdered == Spec => []DependencyOrder
BY DepInit, DepStep, DepImplies, PTL DEF Spec

-----------------------------------------------------------------------------
(* ChildEngine implements AtomicEngine: each step of the engine, of the cluster or of *)
(* a disturbance is a step of the abstract specification under the mapping of         *)
(* ChildEngine!Atomic, or leaves its variables alone.                                 *)

\* The abstract state: the children without revisions, and the versions of the
\* parent that the API server or a manager holds.
Shadow == [k \in Kinds |-> Unversioned(store[k])]

Held == ({parent} \cup {pcache[m] : m \in Managers}
            \cup {work[m].parent : m \in Managers}) \ {Nil}

-----------------------------------------------------------------------------
(* The children *)

\* Unversioned forgets the revision of an object and nothing else.
LEMMA UnversionedFields ==
    ASSUME NEW o \in Objects
    PROVE  /\ Unversioned(o) \in UnversionedObjects /\ Unversioned(o) # Nil
           /\ Unversioned(o) = [uid |-> o.uid, owner |-> o.owner, del |-> o.del,
                                fit |-> o.fit, content |-> o.content]
<1>1. o # Nil
  BY NilAssumption
<1>2. Unversioned(o) = [uid |-> o.uid, owner |-> o.owner, del |-> o.del,
                        fit |-> o.fit, content |-> o.content]
  BY <1>1 DEF Unversioned
<1>3. Unversioned(o) \in UnversionedObjects
  BY <1>2 DEF Objects, UnversionedObjects
<1> QED BY <1>2, <1>3, NilAssumption

\* Marking an object deleted, or rewriting its content, does so to the
\* unversioned object.
LEMMA UnversionedUpdates ==
    ASSUME NEW o \in Objects
    PROVE  /\ Unversioned([o EXCEPT !.del = TRUE]) = [Unversioned(o) EXCEPT !.del = TRUE]
           /\ \A c \in Contents :
                  Unversioned([o EXCEPT !.content = c])
                      = [Unversioned(o) EXCEPT !.content = c]
<1>1. Unversioned(o) = [uid |-> o.uid, owner |-> o.owner, del |-> o.del,
                        fit |-> o.fit, content |-> o.content]
  BY UnversionedFields
<1>2. ASSUME NEW p \in Objects, p = [o EXCEPT !.del = TRUE]
      PROVE  Unversioned(p) = [uid |-> o.uid, owner |-> o.owner, del |-> TRUE,
                               fit |-> o.fit, content |-> o.content]
  BY <1>2, UnversionedFields DEF Objects
<1>3. ASSUME NEW c \in Contents, NEW p \in Objects, p = [o EXCEPT !.content = c]
      PROVE  Unversioned(p) = [uid |-> o.uid, owner |-> o.owner, del |-> o.del,
                               fit |-> o.fit, content |-> c]
  BY <1>3, UnversionedFields DEF Objects
<1>4. /\ [o EXCEPT !.del = TRUE] \in Objects
      /\ \A c \in Contents : [o EXCEPT !.content = c] \in Objects
  BY DEF Objects
<1> DEFINE r == [uid |-> o.uid, owner |-> o.owner, del |-> o.del,
                 fit |-> o.fit, content |-> o.content]
<1>5. \A d : [r EXCEPT !.del = d] = [uid |-> o.uid, owner |-> o.owner, del |-> d,
                                      fit |-> o.fit, content |-> o.content]
  OBVIOUS
<1>6. \A c \in Contents :
         [r EXCEPT !.content = c] = [uid |-> o.uid, owner |-> o.owner,
                                     del |-> o.del, fit |-> o.fit, content |-> c]
  OBVIOUS
<1>7. Unversioned(o) = r
  BY <1>1
<1>8. Unversioned([o EXCEPT !.del = TRUE]) = [r EXCEPT !.del = TRUE]
  BY <1>2, <1>4, <1>5
<1>9. \A c \in Contents : Unversioned([o EXCEPT !.content = c]) = [r EXCEPT !.content = c]
  BY <1>3, <1>4, <1>6
<1> HIDE DEF r
<1> QED BY <1>7, <1>8, <1>9, Zenon

\* The abstract child of a kind is there exactly when the child is, with the
\* same owner, deletion mark and fitness.
LEMMA ShadowFields ==
    ASSUME TypeOK, NEW k \in Kinds
    PROVE  /\ Shadow[k] = Unversioned(store[k])
           /\ store[k] = Nil <=> Shadow[k] = Nil
           /\ store[k] # Nil => /\ Shadow[k].owner = store[k].owner
                                /\ Shadow[k].del = store[k].del
                                /\ Shadow[k].fit = store[k].fit
                                /\ Shadow[k].uid = store[k].uid
                                /\ Shadow[k].content = store[k].content
<1>1. Shadow[k] = Unversioned(store[k]) /\ store[k] \in Objects \cup {Nil}
  BY DEF Shadow, TypeOK
<1>2. CASE store[k] = Nil
  BY <1>1, <1>2 DEF Unversioned
<1>3. CASE store[k] \in Objects
  BY <1>1, <1>3, UnversionedFields, NilAssumption
<1> QED BY <1>1, <1>2, <1>3

\* A write changes the abstract child of its kind to the unversioned object.
LEMMA WriteShadow ==
    ASSUME TypeOK, NEW k \in Kinds, NEW o \in Objects, Write(k, o)
    PROVE  Shadow' = [Shadow EXCEPT ![k] = Unversioned(o)]
<1>1. store' = [store EXCEPT ![k] = [o EXCEPT !.rv = clock + 1]]
      /\ store \in [Kinds -> Objects \cup {Nil}] /\ clock + 1 \in Nat
  BY DEF Write, TypeOK
<1>2. [o EXCEPT !.rv = clock + 1] \in Objects
  BY <1>1 DEF Objects
<1>3. Unversioned([o EXCEPT !.rv = clock + 1]) = Unversioned(o)
  BY <1>2, UnversionedFields DEF Objects
<1>4. \A j \in Kinds : Unversioned(store'[j]) =
                         IF j = k THEN Unversioned(o) ELSE Unversioned(store[j])
  BY <1>1, <1>3
<1> QED BY <1>4 DEF Shadow

\* A removal is one in the abstract store.
LEMMA DropShadow ==
    ASSUME TypeOK, NEW k \in Kinds, Drop(k)
    PROVE  Shadow' = [Shadow EXCEPT ![k] = Nil]
<1>1. store' = [store EXCEPT ![k] = Nil] /\ store \in [Kinds -> Objects \cup {Nil}]
  BY DEF Drop, TypeOK
<1>2. \A j \in Kinds : Unversioned(store'[j]) =
                         IF j = k THEN Nil ELSE Unversioned(store[j])
  BY <1>1 DEF Unversioned
<1> QED BY <1>2 DEF Shadow

\* A deletion is the abstract deletion.
LEMMA RemoveShadow ==
    ASSUME TypeOK, NEW k \in Kinds, store[k] # Nil, Remove(k)
    PROVE  Shadow' \in {[Shadow EXCEPT ![k] = Nil],
                        [Shadow EXCEPT ![k] = [Shadow[k] EXCEPT !.del = TRUE]]}
<1>1. store[k] \in Objects /\ [store[k] EXCEPT !.del = TRUE] \in Objects
  BY DEF TypeOK, Objects
<1>2. CASE Drop(k)
  BY <1>2, DropShadow
<1>3. CASE Write(k, [store[k] EXCEPT !.del = TRUE])
  <2>1. Unversioned([store[k] EXCEPT !.del = TRUE]) = [Shadow[k] EXCEPT !.del = TRUE]
    BY <1>1, ShadowFields, UnversionedUpdates
  <2> QED BY <1>1, <1>3, <2>1, WriteShadow
<1> QED BY <1>2, <1>3 DEF Remove

-----------------------------------------------------------------------------
(* The versions *)

\* A manager takes up only versions that the API server or its own cache holds.
LEMMA HeldVersions ==
    ASSUME \A m \in Managers : pcache'[m] \in {pcache[m], parent, parent'},
           \A m \in Managers : work'[m].parent \in {work[m].parent, pcache[m], Nil}
    PROVE  Held' \subseteq Held \cup {parent'}
  BY DEF Held

\* The workload of a reconcile comes from the cache.
LEMMA MoveHeld ==
    ASSUME NEW m \in Managers, Move(m)
    PROVE  work'[m].parent \in {work[m].parent, pcache[m], Nil}
  BY DEF Move, Began, Decided, Advanced, Idle

\* The versions never grow but by a new parent.
LEMMA NextHeld ==
    ASSUME DepInv, Next
    PROVE  Held' \subseteq Held \cup {parent'}
<1>1. \A m \in Managers : work'[m].parent \in {work[m].parent, pcache[m], Nil}
  BY NextMoves, MoveHeld
<1>2. pcache \in [Managers -> Parents \cup {Nil}]
  BY DEF DepInv, OwnInv, TypeOK
<1>3. ASSUME NEW m \in Managers, SyncParent(m) \/ Restart(m)
      PROVE  \A n \in Managers : pcache'[n] \in {pcache[n], parent}
  BY <1>2, <1>3 DEF SyncParent, Restart
<1>4. ASSUME NEW m \in Managers, ManagerStep(m) \/ ApiError(m)
                 \/ \E k \in Kinds : SyncChild(m, k)
      PROVE  UNCHANGED pcache
  BY <1>4 DEF ManagerStep, StartReconcile, SkipReconcile, ApplyRead, ApplyCreate,
              ApplyPatch, ApplyDelete, SyncChild, ApiError, cacheVars
<1>5. ASSUME NEW k \in Kinds, CollectGarbage(k) \/ FinalizeChild(k)
                 \/ OutsiderCreate(k) \/ OutsiderEdit(k) \/ OutsiderDelete(k)
      PROVE  UNCHANGED pcache
  BY <1>5 DEF CollectGarbage, FinalizeChild, OutsiderCreate, OutsiderEdit,
              OutsiderDelete, managerVars
<1>6. ASSUME CreateParent \/ EditSpec \/ DeleteParent \/ FinalizeParent
      PROVE  UNCHANGED pcache
  BY <1>6 DEF CreateParent, EditSpec, DeleteParent, FinalizeParent, managerVars
<1>7. \A m \in Managers : pcache'[m] \in {pcache[m], parent}
  BY <1>3, <1>4, <1>5, <1>6 DEF Next, Sync, ControlPlane, Disturbance
<1> QED BY <1>1, <1>7, HeldVersions

-----------------------------------------------------------------------------
(* The abstract actions, in terms of Shadow and Held *)

\* What makes a step an abstract decision about a child.
LEMMA IsApply ==
    ASSUME NEW v \in Held, NEW k \in Kinds,
           \/ /\ Shadow[k] = Nil /\ Atomic!Wants(v, k) /\ Shadow'[k] # Nil
              /\ Shadow' = [Shadow EXCEPT ![k] =
                              [uid |-> Shadow'[k].uid, owner |-> v.uid, del |-> FALSE,
                               fit |-> TRUE, content |-> v.spec.content]]
           \/ /\ Shadow[k] # Nil /\ Shadow[k].owner = v.uid /\ ~Shadow[k].del
              /\ \/ /\ Atomic!Wants(v, k) /\ Shadow[k].fit
                    /\ Shadow' = [Shadow EXCEPT ![k] =
                                    [Shadow[k] EXCEPT !.content = v.spec.content]]
                 \/ /\ ~Atomic!Wants(v, k)
                    /\ Shadow' \in {[Shadow EXCEPT ![k] = Nil],
                                    [Shadow EXCEPT ![k] =
                                       [Shadow[k] EXCEPT !.del = TRUE]]},
           Held' \subseteq Held, fuel' \in {fuel, fuel - 1}, parent' = parent
    PROVE  Atomic!Apply
  BY DEF Shadow, Held, Atomic!Apply, Atomic!Create, Atomic!Repair, Atomic!Delete,
         Atomic!Manages, Atomic!Remove

\* What makes a step an abstract loss of old versions.
LEMMA IsForget ==
    ASSUME Held' \subseteq Held, Shadow' = Shadow, UNCHANGED <<fuel, parent>>
    PROVE  Atomic!Forget
  BY DEF Shadow, Held, Atomic!Forget

\* What makes a step an abstract disturbance.
LEMMA IsDisturb ==
    ASSUME Disturb,
           \/ Held' \subseteq Held \cup {parent'} /\ Shadow' = Shadow
           \/ /\ \E k \in Kinds : \A j \in Kinds \ {k} : Shadow'[j] = Shadow[j]
              /\ parent' = parent /\ Held' = Held
    PROVE  Atomic!Disturb
  BY DEF Shadow, Held, Disturb, Atomic!Disturb

\* What makes a step an abstract collection of a child.
LEMMA IsCollect ==
    ASSUME NEW k \in Kinds, Shadow[k] # Nil,
           \/ Shadow[k].del /\ Shadow' = [Shadow EXCEPT ![k] = Nil]
           \/ /\ Shadow[k].owner # 0
              /\ parent # Nil => parent.uid # Shadow[k].owner
              /\ Shadow' \in {[Shadow EXCEPT ![k] = Nil],
                              [Shadow EXCEPT ![k] = [Shadow[k] EXCEPT !.del = TRUE]]},
           UNCHANGED <<fuel, parent>>, Held' = Held
    PROVE  Atomic!Collect(k)
  BY DEF Shadow, Held, Atomic!Collect, Atomic!Remove
-----------------------------------------------------------------------------
(* The steps *)

\* Without a new version of the workload, none is added to those held.
LEMMA HeldShrinks ==
    ASSUME DepInv, Next, parent' \in {parent, Nil}
    PROVE  Held' \subseteq Held
<1>1. Held' \subseteq Held \cup {parent'}
  BY NextHeld
<1>2. Nil \notin Held' /\ (parent # Nil => parent \in Held)
  BY DEF Held
<1> QED BY <1>1, <1>2

\* A step outside the managers and users changes no version.
LEMMA HeldStays ==
    ASSUME UNCHANGED <<parent, pcache, work>>
    PROVE  Held' = Held
  BY DEF Held

\* The two specifications agree on which kinds a spec asks for.
LEMMA WantsIsWanted ==
    ASSUME NEW v \in Parents, NEW k \in Kinds
    PROVE  Atomic!Wants(v, k) <=> k \in Wanted(v.spec)
  BY DEF Atomic!Wants, Wanted, Required, Parents, Specs, Optional

\* A write of Apply that takes effect is one decision on the live object, for
\* the version of the parent that the manager reconciles; one that is refused
\* changes nothing.
LEMMA CreateRefines ==
    ASSUME DepInv, Next, NEW m \in Managers, NEW k \in Kinds, ApplyCreate(m, k)
    PROVE  Atomic!Apply \/ Atomic!Forget
<1> DEFINE v == work[m].parent
<1>1. /\ TypeOK /\ v \in Parents /\ v \in Held /\ k \in Wanted(v.spec)
      /\ parent' = parent
  BY NilAssumption
  DEF DepInv, OwnInv, TypeOK, Works, Engaged, ApplyCreate, Held, Passed
<1>2. Held' \subseteq Held
  BY <1>1, HeldShrinks
<1>3. CASE Fail(m) /\ UNCHANGED <<store, fuel>>
  BY <1>1, <1>2, <1>3, IsForget DEF Shadow
<1>4. CASE store[k] = Nil /\ Write(k, Rendered(v)) /\ Answered(m, k)
  <2>1. Rendered(v) \in Objects
    BY <1>1, RenderedType
  <2>2. Unversioned(Rendered(v)) =
          [uid |-> clock + 1, owner |-> v.uid, del |-> FALSE, fit |-> TRUE,
           content |-> v.spec.content]
    BY <2>1, UnversionedFields DEF Rendered
  <2>3. Shadow' = [Shadow EXCEPT ![k] = Unversioned(Rendered(v))]
    BY <1>1, <1>4, <2>1, WriteShadow
  <2>4. Shadow'[k] = Unversioned(Rendered(v))
    BY <2>3 DEF Shadow
  <2>5. Shadow'[k] # Nil /\ Shadow'[k].uid = clock + 1
    <3>1. Unversioned(Rendered(v)) # Nil
      BY <2>1, UnversionedFields
    <3>2. Unversioned(Rendered(v)).uid = clock + 1
      BY <2>2
    <3> QED BY <2>4, <3>1, <3>2
  <2>6. Shadow' = [Shadow EXCEPT ![k] =
                     [uid |-> Shadow'[k].uid, owner |-> v.uid, del |-> FALSE,
                      fit |-> TRUE, content |-> v.spec.content]]
    BY <2>2, <2>3, <2>5
  <2>7. Shadow[k] = Nil /\ fuel' \in {fuel, fuel - 1}
    BY <1>1, <1>4, ShadowFields DEF Answered
  <2>8. Atomic!Wants(v, k)
    BY <1>1, WantsIsWanted
  <2> HIDE DEF v
  <2> QED BY <1>1, <1>2, <2>5, <2>6, <2>7, <2>8, IsApply
<1> QED BY <1>3, <1>4 DEF ApplyCreate

\* A patch is a decision on the live object, or nothing.
LEMMA PatchRefines ==
    ASSUME DepInv, Next, NEW m \in Managers, NEW k \in Kinds, ApplyPatch(m, k)
    PROVE  Atomic!Apply \/ Atomic!Forget
<1> DEFINE v == work[m].parent
           c == v.spec.content
<1>1. /\ TypeOK /\ v \in Parents /\ v \in Held /\ k \in Wanted(v.spec)
      /\ c \in Contents /\ parent' = parent
  BY NilAssumption
  DEF DepInv, OwnInv, TypeOK, Works, Engaged, ApplyPatch, Held, Passed, Parents, Specs
<1>2. Held' \subseteq Held
  BY <1>1, HeldShrinks
<1>3. CASE Fail(m) /\ UNCHANGED <<store, fuel>>
  BY <1>1, <1>2, <1>3, IsForget DEF Shadow
<1>4. CASE Unmodified(m, k) /\ Write(k, [store[k] EXCEPT !.content = c])
           /\ Answered(m, k)
  <2>1. store[k] \in Objects /\ [store[k] EXCEPT !.content = c] \in Objects
    BY <1>1, <1>4 DEF TypeOK, Unmodified, Objects
  <2>2. store[k] = work[m].cur /\ store[k].owner = v.uid /\ ~store[k].del /\ store[k].fit
    BY <1>4 DEF ApplyPatch, DepInv, OwnInv, Pending, Engaged, Same, Unmodified, Passed
  <2>3. Shadow[k] # Nil /\ Shadow[k].owner = v.uid /\ ~Shadow[k].del /\ Shadow[k].fit
    BY <1>1, <2>1, <2>2, ShadowFields, NilAssumption
  <2>4. Shadow' = [Shadow EXCEPT ![k] = [Shadow[k] EXCEPT !.content = c]]
    <3>1. Unversioned([store[k] EXCEPT !.content = c]) = [Shadow[k] EXCEPT !.content = c]
      <4>1. Shadow[k] = Unversioned(store[k])
        BY <1>1, ShadowFields
      <4>2. Unversioned([store[k] EXCEPT !.content = c])
              = [Unversioned(store[k]) EXCEPT !.content = c]
        <5> HIDE DEF c
        <5> QED BY <1>1, <2>1, UnversionedUpdates
      <4> QED BY <4>1, <4>2, Zenon
    <3> QED BY <1>1, <1>4, <2>1, <3>1, WriteShadow
  <2>5. Atomic!Wants(v, k) /\ fuel' \in {fuel, fuel - 1}
    BY <1>1, <1>4, WantsIsWanted DEF Answered
  <2> HIDE DEF v
  <2> QED BY <1>1, <1>2, <2>3, <2>4, <2>5, IsApply
<1> QED BY <1>3, <1>4 DEF ApplyPatch

\* A delete is a decision on the live object, or nothing.
LEMMA DeleteRefines ==
    ASSUME DepInv, Next, NEW m \in Managers, NEW k \in Kinds, ApplyDelete(m, k)
    PROVE  Atomic!Apply \/ Atomic!Forget
<1> DEFINE v == work[m].parent
<1>1. /\ TypeOK /\ v \in Parents /\ v \in Held /\ k \notin Wanted(v.spec)
      /\ parent' = parent
  BY NilAssumption
  DEF DepInv, OwnInv, TypeOK, Works, Engaged, ApplyDelete, Held, Passed
<1>2. Held' \subseteq Held
  BY <1>1, HeldShrinks
<1>3. CASE UNCHANGED <<store, fuel>>
  BY <1>1, <1>2, <1>3, IsForget DEF Shadow
<1>4. CASE Unmodified(m, k) /\ Remove(k) /\ Answered(m, k)
  <2>1. store[k] # Nil /\ store[k].owner = v.uid /\ ~store[k].del
    BY <1>4 DEF ApplyDelete, DepInv, OwnInv, Pending, Engaged, Same, Unmodified
  <2>2. Shadow[k] # Nil /\ Shadow[k].owner = v.uid /\ ~Shadow[k].del
    BY <1>1, <2>1, ShadowFields
  <2>3. Shadow' \in {[Shadow EXCEPT ![k] = Nil],
                     [Shadow EXCEPT ![k] = [Shadow[k] EXCEPT !.del = TRUE]]}
    BY <1>1, <1>4, <2>1, RemoveShadow
  <2>4. ~Atomic!Wants(v, k) /\ fuel' \in {fuel, fuel - 1}
    BY <1>1, <1>4, WantsIsWanted DEF Answered
  <2> HIDE DEF v
  <2> QED BY <1>1, <1>2, <2>2, <2>3, <2>4, IsApply
<1> QED BY <1>3, <1>4 DEF ApplyDelete

\* The garbage collector and finalizers act on the abstract children.
LEMMA CollectRefines ==
    ASSUME DepInv, Next, NEW k \in Kinds, CollectGarbage(k) \/ FinalizeChild(k)
    PROVE  Atomic!Collect(k)
<1>1. TypeOK /\ store[k] # Nil
  BY DEF DepInv, OwnInv, CollectGarbage, FinalizeChild
<1>2. UNCHANGED <<fuel, parent>> /\ Held' = Held
  BY HeldStays DEF CollectGarbage, FinalizeChild, managerVars
<1>3. Shadow[k] # Nil /\ Shadow[k].owner = store[k].owner /\ Shadow[k].del = store[k].del
  BY <1>1, ShadowFields
<1>4. CASE CollectGarbage(k)
  <2>1. Shadow' \in {[Shadow EXCEPT ![k] = Nil],
                     [Shadow EXCEPT ![k] = [Shadow[k] EXCEPT !.del = TRUE]]}
    BY <1>1, <1>4, RemoveShadow DEF CollectGarbage
  <2>2. Shadow[k].owner # 0 /\ (parent # Nil => parent.uid # Shadow[k].owner)
    BY <1>3, <1>4 DEF CollectGarbage, Alive, NoOwner
  <2> QED BY <1>2, <1>3, <2>1, <2>2, IsCollect
<1>5. CASE FinalizeChild(k)
  <2>1. Shadow' = [Shadow EXCEPT ![k] = Nil] /\ Shadow[k].del
    BY <1>1, <1>3, <1>5, DropShadow DEF FinalizeChild
  <2> QED BY <1>2, <1>3, <2>1, IsCollect
<1> QED BY <1>4, <1>5

\* What users, outsiders and faults do is an abstract disturbance.
LEMMA OutsiderRefines ==
    ASSUME DepInv, Next, NEW k \in Kinds,
           OutsiderCreate(k) \/ OutsiderEdit(k) \/ OutsiderDelete(k)
    PROVE  Atomic!Disturb
<1>1. Disturb /\ UNCHANGED <<parent, pcache, work>>
  BY DEF OutsiderCreate, OutsiderEdit, OutsiderDelete, managerVars
<1>2. \A j \in Kinds \ {k} : store'[j] = store[j]
  BY DEF DepInv, OwnInv, TypeOK, OutsiderCreate, OutsiderEdit, OutsiderDelete, Remove,
         Drop, Write
<1>3. \A j \in Kinds \ {k} : Shadow'[j] = Shadow[j]
  BY <1>2 DEF Shadow
<1> QED BY <1>1, <1>3, HeldStays, IsDisturb

\* Users, failed calls and restarts are disturbances.
LEMMA UserRefines ==
    ASSUME DepInv, Next,
           \/ CreateParent \/ EditSpec \/ DeleteParent
           \/ \E m \in Managers : ApiError(m) \/ Restart(m)
    PROVE  Atomic!Disturb
<1>1. Disturb /\ UNCHANGED store
  BY DEF CreateParent, EditSpec, DeleteParent, ApiError, Restart, Disturb, apiVars
<1>2. Shadow' = Shadow
  BY <1>1 DEF Shadow
<1> QED BY <1>1, <1>2, NextHeld, IsDisturb

\* A read, a start or end of a reconcile and a delivered event change only
\* which versions the managers hold.
LEMMA QuietRefines ==
    ASSUME DepInv, Next, NEW m \in Managers,
           \/ StartReconcile(m) \/ SkipReconcile(m) \/ SyncParent(m)
           \/ \E k \in Kinds : ApplyRead(m, k) \/ SyncChild(m, k)
    PROVE  Atomic!Forget
<1>1. UNCHANGED <<parent, store, fuel>>
  BY DEF StartReconcile, SkipReconcile, SyncParent, ApplyRead, SyncChild, apiVars
<1>2. Shadow' = Shadow
  BY <1>1 DEF Shadow
<1> QED BY <1>1, <1>2, HeldShrinks, IsForget

\* The end of a workload is the abstract one.
LEMMA FinalizeRefines ==
    ASSUME DepInv, Next, FinalizeParent
    PROVE  Atomic!FinalizeParent
<1>1. parent # Nil /\ parent' = Nil /\ UNCHANGED <<store, fuel>>
  BY DEF FinalizeParent
<1>2. Held' \subseteq Held
  BY <1>1, HeldShrinks
<1> QED BY <1>1, <1>2 DEF Held, Atomic!FinalizeParent

\* Every step is an abstract step or a stutter.
LEMMA StepRefines == DepInv /\ [Next]_vars => [Atomic!Next]_Atomic!vars
<1> SUFFICES ASSUME DepInv, [Next]_vars PROVE [Atomic!Next]_Atomic!vars
  OBVIOUS
<1>1. CASE UNCHANGED vars
  BY <1>1 DEF vars, Atomic!vars
<1>2. CASE Next
  <2>1. CASE \E m \in Managers : ManagerStep(m)
    BY <1>2, <2>1, CreateRefines, PatchRefines, DeleteRefines, QuietRefines
    DEF ManagerStep, Atomic!Next
  <2>2. CASE \E m \in Managers : Sync(m)
    BY <1>2, <2>2, QuietRefines DEF Sync, Atomic!Next
  <2>3. CASE ControlPlane
    BY <1>2, <2>3, CollectRefines, FinalizeRefines DEF ControlPlane, Atomic!Next
  <2>4. CASE Disturbance
    BY <1>2, <2>4, OutsiderRefines, UserRefines DEF Disturbance, Atomic!Next
  <2> QED BY <1>2, <2>1, <2>2, <2>3, <2>4 DEF Next
<1> QED BY <1>1, <1>2

\* An initial state is an abstract initial state.
LEMMA InitRefines == Init => Atomic!Init
<1> SUFFICES ASSUME Init PROVE Atomic!Init
  OBVIOUS
<1>1. parent # Nil /\ fuel \in Nat
  <2>1. parent \in Parents
    BY DEF Init, Parents
  <2> QED BY <2>1, NilAssumption, BoundsAssumption DEF Init
<1>2. Held = {parent}
  BY <1>1 DEF Init, Held, Idle
<1>3. Shadow = [k \in Kinds |-> Nil]
  BY DEF Init, Shadow, Unversioned
<1> QED BY <1>1, <1>2, <1>3 DEF Held, Shadow, Atomic!Init

\* Whatever the age of the caches and the interleaving of managers, users,
\* outsiders and faults, the engine's writes are those of decisions taken at
\* once on the live object, for a version of the workload that was asked for.
THEOREM Refinement == Spec => AtomicDecisions
BY DepInit, DepStep, InitRefines, StepRefines, PTL DEF Spec, AtomicDecisions, Atomic!Spec
=============================================================================
