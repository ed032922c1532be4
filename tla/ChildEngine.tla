---------------------------- MODULE ChildEngine ----------------------------
(***************************************************************************)
(* The apply engine of the AIWorkload controller: Engine.Apply, ValidatePlan *)
(* and owns of internal/controller/engine.go, driven by the apply loop of    *)
(* Reconcile, for one AIWorkload name.  Every child of the workload has the  *)
(* same name (ChildName), so the API server holds at most one object per     *)
(* child kind.                                                               *)
(*                                                                           *)
(* Kinds are the numbers of childOrder: 0 ServiceAccount, 1 Deployment,      *)
(* 2 Service, 3 NetworkPolicy, 4 HorizontalPodAutoscaler,                    *)
(* 5 PodDisruptionBudget, 6 HTTPRoute.                                       *)
(*                                                                           *)
(* Reads of kinds 0..5 go through the informer cache of the manager process  *)
(* and may be arbitrarily old; an HTTPRoute is unstructured and is read from *)
(* the API server; writes always go to the API server.  Several manager      *)
(* processes may run (an old leader can still finish its reconcile).         *)
(***************************************************************************)
EXTENDS Naturals

CONSTANTS
    Managers,   \* manager processes
    Kinds,      \* the child kinds of the instance
    Contents,   \* values of the fields that a builder's Mutate owns
    MaxRev,     \* bound on the API server's revision counter
    MaxFuel,    \* bound on the number of disturbances (users, outsiders, faults)
    Nil         \* no object

HTTPRoute == 6
Optional  == {k \in Kinds : k >= 2}
NoOwner   == 0

Specs == [content : Contents, on : SUBSET Optional]

\* The AIWorkload object: identity, deletion mark and the desired state.
Parents == [uid : Nat, del : BOOLEAN, spec : Specs]

\* A child object.  owner is the UID of its AIWorkload controller reference
\* (NoOwner: no controller, or one that is not an AIWorkload of this name);
\* fit is FALSE when an immutable field (Deployment selector, Service
\* allocation) is incompatible with every desired state.
Objects == [uid : Nat, rv : Nat, owner : Nat, del : BOOLEAN, fit : BOOLEAN,
            content : Contents]

UnversionedObjects == [uid : Nat, owner : Nat, del : BOOLEAN, fit : BOOLEAN,
                       content : Contents]

ASSUME KindsAssumption   == Kinds \subseteq 0..6
ASSUME BoundsAssumption  == MaxRev \in Nat /\ MaxFuel \in Nat
ASSUME NilAssumption     == /\ Nil \notin Parents /\ Nil \notin Objects
                            /\ Nil \notin UnversionedObjects

VARIABLES
    clock,    \* the API server's revision counter, also the source of UIDs
    fuel,     \* disturbances left
    parent,   \* the AIWorkload in the API server
    store,    \* the child objects in the API server, by kind
    pcache,   \* per manager, the cached AIWorkload
    cache,    \* per manager, the cached children
    events,   \* <<m, k>>: undelivered events of kind k that concern the workload
    queued,   \* per manager, whether the workqueue holds the workload
    work,     \* per manager, the reconcile in progress
    made      \* history: <<u, k>> such that u has controlled a child of kind k

vars == <<clock, fuel, parent, store, pcache, cache, events, queued, work,
          made>>

Idle == [pc |-> "idle", parent |-> Nil, todo |-> {}, cur |-> Nil]

Works == [pc : {"idle", "read", "create", "patch", "delete"},
          parent : Parents \cup {Nil}, todo : SUBSET Kinds,
          cur : Objects \cup {Nil}]

TypeOK ==
    /\ clock \in Nat /\ fuel \in Nat
    /\ parent \in Parents \cup {Nil}
    /\ store \in [Kinds -> Objects \cup {Nil}]
    /\ pcache \in [Managers -> Parents \cup {Nil}]
    /\ cache \in [Managers -> [Kinds -> Objects \cup {Nil}]]
    /\ events \in SUBSET (Managers \X Kinds)
    /\ queued \in [Managers -> BOOLEAN]
    /\ work \in [Managers -> Works]
    /\ made \in SUBSET (Nat \X Kinds)

Init ==
    /\ clock = 1 /\ fuel = MaxFuel
    /\ \E s \in Specs : parent = [uid |-> 1, del |-> FALSE, spec |-> s]
    /\ store = [k \in Kinds |-> Nil]
    /\ pcache = [m \in Managers |-> Nil]
    /\ cache = [m \in Managers |-> [k \in Kinds |-> Nil]]
    /\ events = {}
    /\ queued = [m \in Managers |-> FALSE]
    /\ work = [m \in Managers |-> Idle]
    /\ made = {}

-----------------------------------------------------------------------------
(* The API server. *)

\* An object of this UID is present for the garbage collector.
Alive(u) == parent # Nil /\ parent.uid = u

EnqueuesNewOnly(old, new) == new # Nil /\ new.owner # NoOwner

\* Owns(kind): the event's old or new object names an AIWorkload controller.
\* HTTPRoute is not watched.
Enqueues(old, new) == \E o \in {old, new} : o # Nil /\ o.owner # NoOwner

Announce(k, old, new) ==
    events' = IF k # HTTPRoute /\ Enqueues(old, new)
              THEN events \cup (Managers \X {k}) ELSE events

\* Store o as the child of kind k, under a new revision.
Write(k, o) ==
    /\ clock < MaxRev
    /\ clock' = clock + 1
    /\ store' = [store EXCEPT ![k] = [o EXCEPT !.rv = clock + 1]]
    /\ made' = IF o.owner = NoOwner THEN made ELSE made \cup {<<o.owner, k>>}
    /\ Announce(k, store[k], o)

Drop(k) ==
    /\ store' = [store EXCEPT ![k] = Nil]
    /\ Announce(k, store[k], Nil)
    /\ UNCHANGED <<clock, made>>

\* Delete the child of kind k: at once, or by a deletion timestamp that waits
\* for finalizers.
Remove(k) ==
    \/ Drop(k)
    \/ Write(k, [store[k] EXCEPT !.del = TRUE])

-----------------------------------------------------------------------------
(* Engine.Apply *)

Required == {k \in Kinds : k < 2}

\* The kinds whose intent is not Absent.
Wanted(s) == Required \cup s.on

\* ValidatePlan sorts the plan by childOrder, so the intent in hand is the one
\* of least order that is still to do.
CurrentAnyOrder(m, k) == k \in work[m].todo

Current(m, k) == k \in work[m].todo /\ \A j \in work[m].todo : k <= j

Get(m, k) == IF k = HTTPRoute THEN store[k] ELSE cache[m][k]

OwnsByName(p, o) == o.owner # NoOwner

owns(p, o) == o.owner = p.uid

RenderedUnmutated(p) ==
    [uid |-> clock + 1, rv |-> clock + 1, owner |-> p.uid, del |-> FALSE,
     fit |-> TRUE, content |-> Nil]

\* Mutate and SetControllerReference on a fresh object.
Rendered(p) ==
    [uid |-> clock + 1, rv |-> clock + 1, owner |-> p.uid, del |-> FALSE,
     fit |-> TRUE, content |-> p.spec.content]

Advance(m, k) ==
    LET rest == work[m].todo \ {k}
    IN  work' = [work EXCEPT ![m] =
                   IF rest = {} THEN Idle
                   ELSE [pc |-> "read", parent |-> work[m].parent,
                         todo |-> rest, cur |-> Nil]]

\* The apply loop stops at the first error and the request comes back: after
\* two seconds (ErrChildDeleting), after a minute (a permanent failure) or with
\* backoff (any other error).
Fail(m) ==
    /\ work' = [work EXCEPT ![m] = Idle]
    /\ queued' = [queued EXCEPT ![m] = TRUE]

Await(m, pc, o) ==
    work' = [work EXCEPT ![m] = [work[m] EXCEPT !.pc = pc, !.cur = o]]

apiVars   == <<clock, parent, store, made, events>>
cacheVars == <<pcache, cache>>

\* Apply up to its first write.
ApplyRead(m, k) ==
    LET w == work[m]
        o == Get(m, k)
        wanted == k \in Wanted(w.parent.spec)
    IN  /\ w.pc = "read" /\ Current(m, k)
        /\ \/ o = Nil /\ ~wanted /\ Advance(m, k) /\ UNCHANGED queued
           \/ o = Nil /\ wanted /\ Await(m, "create", Nil) /\ UNCHANGED queued
           \/ o # Nil /\ ~owns(w.parent, o) /\ Fail(m)
           \/ o # Nil /\ owns(w.parent, o) /\ o.del /\ Fail(m)
           \/ /\ o # Nil /\ owns(w.parent, o) /\ ~o.del
              /\ \/ ~wanted /\ Await(m, "delete", o) /\ UNCHANGED queued
                 \/ wanted /\ ~o.fit /\ Fail(m)
                 \/ /\ wanted /\ o.fit /\ o.content = w.parent.spec.content
                    /\ Advance(m, k) /\ UNCHANGED queued
                 \/ /\ wanted /\ o.fit /\ o.content # w.parent.spec.content
                    /\ Await(m, "patch", o) /\ UNCHANGED queued
        /\ UNCHANGED <<apiVars, cacheVars, fuel>>

\* The answer to a write: the manager learns of it, or the reply is lost
\* although the write took effect (a timeout is an error to Apply).
Answered(m, k) ==
    \/ Advance(m, k) /\ UNCHANGED <<queued, fuel>>
    \/ fuel > 0 /\ fuel' = fuel - 1 /\ Fail(m)

\* Client.Create: AlreadyExists when the name is taken.
ApplyCreate(m, k) ==
    /\ work[m].pc = "create" /\ Current(m, k)
    /\ \/ /\ store[k] = Nil
          /\ Write(k, Rendered(work[m].parent))
          /\ Answered(m, k)
       \/ /\ store[k] # Nil
          /\ Fail(m)
          /\ UNCHANGED <<clock, store, made, events, fuel>>
    /\ UNCHANGED <<parent, cacheVars>>

SameObject(m, k) == store[k] # Nil

\* The optimistic lock: the object is still the revision that was read.
Unmodified(m, k) == store[k] # Nil /\ store[k].rv = work[m].cur.rv

\* Client.Patch, a merge patch of the owned fields: NotFound or Conflict when
\* the object is gone or changed.
ApplyPatch(m, k) ==
    /\ work[m].pc = "patch" /\ Current(m, k)
    /\ \/ /\ Unmodified(m, k)
          /\ Write(k, [store[k] EXCEPT !.content = work[m].parent.spec.content])
          /\ Answered(m, k)
       \/ /\ ~Unmodified(m, k)
          /\ Fail(m)
          /\ UNCHANGED <<clock, store, made, events, fuel>>
    /\ UNCHANGED <<parent, cacheVars>>

\* Client.Delete with UID and resourceVersion preconditions; NotFound is no
\* error.
ApplyDelete(m, k) ==
    /\ work[m].pc = "delete" /\ Current(m, k)
    /\ \/ /\ store[k] = Nil
          /\ Advance(m, k)
          /\ UNCHANGED <<clock, store, made, events, queued, fuel>>
       \/ /\ Unmodified(m, k) /\ store[k].uid = work[m].cur.uid
          /\ Remove(k)
          /\ Answered(m, k)
       \/ /\ store[k] # Nil
          /\ ~(Unmodified(m, k) /\ store[k].uid = work[m].cur.uid)
          /\ Fail(m)
          /\ UNCHANGED <<clock, store, made, events, fuel>>
    /\ UNCHANGED <<parent, cacheVars>>

\* Any API call may fail without effect: throttling, quota, a timeout.
ApiError(m) ==
    /\ work[m].pc # "idle" /\ fuel > 0 /\ fuel' = fuel - 1
    /\ Fail(m)
    /\ UNCHANGED <<apiVars, cacheVars>>

-----------------------------------------------------------------------------
(* Reconcile *)

\* The intents of a plan.  WorkloadBuilder.Build always emits the six typed
\* kinds; the route intent is appended when the workload asks for a route, and
\* otherwise only while its status says that there was one.
Plans(s) ==
    {(Kinds \ {HTTPRoute}) \cup r :
        r \in IF HTTPRoute \in s.on THEN {{HTTPRoute}}
              ELSE {{}, {HTTPRoute} \cap Kinds}}

Reconcilable(p) == p # Nil /\ ~p.del

StartReconcile(m) ==
    /\ queued[m] /\ work[m].pc = "idle"
    /\ Reconcilable(pcache[m])
    /\ queued' = [queued EXCEPT ![m] = FALSE]
    /\ \E plan \in Plans(pcache[m].spec) :
         work' = [work EXCEPT ![m] = [pc |-> "read", parent |-> pcache[m],
                                      todo |-> plan, cur |-> Nil]]
    /\ UNCHANGED <<apiVars, cacheVars, fuel>>

\* A missing or terminating parent ends the reconcile with no requeue.
SkipReconcile(m) ==
    /\ queued[m] /\ work[m].pc = "idle"
    /\ ~Reconcilable(pcache[m])
    /\ queued' = [queued EXCEPT ![m] = FALSE]
    /\ UNCHANGED <<apiVars, cacheVars, work, fuel>>

-----------------------------------------------------------------------------
(* Watches *)

\* The primary predicate passes creations, deletions and updates of the UID,
\* the generation or the deletion timestamp: every change the model makes.
SyncParent(m) ==
    /\ pcache[m] # parent
    /\ pcache' = [pcache EXCEPT ![m] = parent]
    /\ queued' = [queued EXCEPT ![m] = TRUE]
    /\ UNCHANGED <<apiVars, cache, work, fuel>>

SyncChild(m, k) ==
    /\ k # HTTPRoute
    /\ cache[m][k] # store[k] \/ <<m, k>> \in events
    /\ cache' = [cache EXCEPT ![m][k] = store[k]]
    /\ queued' = [queued EXCEPT ![m] = @ \/ <<m, k>> \in events]
    /\ events' = events \ {<<m, k>>}
    /\ UNCHANGED <<clock, parent, store, made, pcache, work, fuel>>

\* A manager process dies and its replacement lists everything again.
Restart(m) ==
    /\ fuel > 0 /\ fuel' = fuel - 1
    /\ work' = [work EXCEPT ![m] = Idle]
    /\ pcache' = [pcache EXCEPT ![m] = parent]
    /\ cache' = [cache EXCEPT ![m] = store]
    /\ queued' = [queued EXCEPT ![m] = parent # Nil]
    /\ events' = events \ ({m} \X Kinds)
    /\ UNCHANGED <<clock, parent, store, made>>

-----------------------------------------------------------------------------
(* Users, the garbage collector, other clients of the API server *)

Disturb == fuel > 0 /\ fuel' = fuel - 1

managerVars == <<pcache, cache, queued, work>>

CreateParent ==
    /\ parent = Nil /\ Disturb /\ clock < MaxRev
    /\ clock' = clock + 1
    /\ \E s \in Specs :
         parent' = [uid |-> clock + 1, del |-> FALSE, spec |-> s]
    /\ UNCHANGED <<store, made, events, managerVars>>

EditSpec ==
    /\ parent # Nil /\ ~parent.del /\ Disturb
    /\ \E s \in Specs \ {parent.spec} : parent' = [parent EXCEPT !.spec = s]
    /\ UNCHANGED <<clock, store, made, events, managerVars>>

\* Background deletion removes the parent at once; a foreground deletion or a
\* finalizer leaves it terminating first.
DeleteParent ==
    /\ parent # Nil /\ ~parent.del /\ Disturb
    /\ parent' \in {Nil, [parent EXCEPT !.del = TRUE]}
    /\ UNCHANGED <<clock, store, made, events, managerVars>>

FinalizeParent ==
    /\ parent # Nil /\ parent.del
    /\ parent' = Nil
    /\ UNCHANGED <<clock, store, made, events, fuel, managerVars>>

CollectGarbage(k) ==
    /\ store[k] # Nil /\ ~store[k].del
    /\ store[k].owner # NoOwner
    /\ ~Alive(store[k].owner)
    /\ Remove(k)
    /\ UNCHANGED <<parent, fuel, managerVars>>

FinalizeChild(k) ==
    /\ store[k] # Nil /\ store[k].del
    /\ Drop(k)
    /\ UNCHANGED <<parent, fuel, managerVars>>

\* Someone else takes the name: an object with no AIWorkload controller, or
\* one that names this parent but cannot be mutated into its child.
OutsiderCreate(k) ==
    /\ store[k] = Nil /\ Disturb
    /\ \E c \in Contents, u \in {NoOwner} \cup
                                 (IF parent = Nil THEN {} ELSE {parent.uid}) :
         Write(k, [uid |-> clock + 1, rv |-> clock + 1, owner |-> u,
                   del |-> FALSE, fit |-> u = NoOwner, content |-> c])
    /\ UNCHANGED <<parent, managerVars>>

\* Someone else edits a child: drift of an owned field, a status write or
\* another unowned field, or the loss of the controller reference.
OutsiderEdit(k) ==
    /\ store[k] # Nil /\ Disturb
    /\ \E c \in Contents, u \in {NoOwner, store[k].owner} :
         Write(k, [store[k] EXCEPT !.content = c, !.owner = u])
    /\ UNCHANGED <<parent, managerVars>>

OutsiderDelete(k) ==
    /\ store[k] # Nil /\ ~store[k].del /\ Disturb
    /\ Remove(k)
    /\ UNCHANGED <<parent, managerVars>>

-----------------------------------------------------------------------------
ManagerStep(m) ==
    \/ StartReconcile(m) \/ SkipReconcile(m)
    \/ \E k \in Kinds : \/ ApplyRead(m, k) \/ ApplyCreate(m, k)
                        \/ ApplyPatch(m, k) \/ ApplyDelete(m, k)

Sync(m) == SyncParent(m) \/ \E k \in Kinds : SyncChild(m, k)

ControlPlane ==
    \/ FinalizeParent
    \/ \E k \in Kinds : CollectGarbage(k) \/ FinalizeChild(k)

Disturbance ==
    \/ CreateParent \/ EditSpec \/ DeleteParent
    \/ \E k \in Kinds : OutsiderCreate(k) \/ OutsiderEdit(k) \/ OutsiderDelete(k)
    \/ \E m \in Managers : ApiError(m) \/ Restart(m)

Next ==
    \/ \E m \in Managers : ManagerStep(m) \/ Sync(m)
    \/ ControlPlane
    \/ Disturbance

Spec == Init /\ [][Next]_vars

\* The workqueue keeps serving, informers keep delivering, and the cluster's
\* own controllers keep working.  Users, outsiders and faults owe nothing.
Fairness ==
    /\ \A m \in Managers : WF_vars(ManagerStep(m))
    /\ \A m \in Managers : WF_vars(SyncParent(m))
    /\ \A m \in Managers, k \in Kinds : WF_vars(SyncChild(m, k))
    /\ WF_vars(FinalizeParent)
    /\ \A k \in Kinds : WF_vars(CollectGarbage(k)) /\ WF_vars(FinalizeChild(k))

FairSpec == Spec /\ Fairness

-----------------------------------------------------------------------------
(* Properties *)

\* A step in which manager m writes the child of kind k.
Writes(m, k) == work'[m] # work[m] /\ store'[k] # store[k]

\* Engine.Apply never adopts: whatever a manager overwrites or deletes is, at
\* that very moment, a live object controlled by the parent UID it reconciles,
\* an overwritten object keeps its identity, and what it leaves behind is
\* controlled by that UID - although it decided from a cache of any age, the
\* owner reference may have been dropped or the name reused since, and another
\* manager may be at work.
OwnWritesOnly ==
    [][\A m \in Managers, k \in Kinds : Writes(m, k) =>
          /\ store[k] # Nil => /\ store[k].owner = work[m].parent.uid
                               /\ ~store[k].del
          /\ store'[k] # Nil =>
                 /\ store'[k].owner = work[m].parent.uid
                 /\ store[k] # Nil => store'[k].uid = store[k].uid]_vars

\* ValidatePlan's dependency order holds across partial failures, retries and
\* stale reads: a manager that is about to create a child for a parent UID has
\* seen every earlier required or enabled child under the control of that UID.
DependencyOrder ==
    \A m \in Managers, k \in Kinds :
        work[m].pc = "create" /\ Current(m, k) =>
            \A j \in Wanted(work[m].parent.spec) :
                j < k => <<work[m].parent.uid, j>> \in made

Unversioned(o) ==
    IF o = Nil THEN Nil
    ELSE [uid |-> o.uid, owner |-> o.owner, del |-> o.del, fit |-> o.fit,
          content |-> o.content]

Atomic == INSTANCE AtomicEngine
            WITH store <- [k \in Kinds |-> Unversioned(store[k])],
                 versions <- ({parent} \cup {pcache[m] : m \in Managers}
                              \cup {work[m].parent : m \in Managers}) \ {Nil}

\* Apply reads a cache of any age, decides, and writes later, under a lock on the
\* revision it has read: the outcome is always that of a decision taken at once on
\* the live object, for a version of the workload that a user has asked for.
\* Nothing else creates, repairs or deletes a child, except the cluster on its own
\* account and the disturbances.
AtomicDecisions == Atomic!Spec

\* No object in the way of kind k.
Clear(k) ==
    store[k] # Nil => /\ store[k].owner = parent.uid
                      /\ k \in Wanted(parent.spec) => store[k].fit

Matches(k) ==
    IF k \in Wanted(parent.spec)
    THEN /\ store[k] # Nil /\ ~store[k].del
         /\ store[k].content = parent.spec.content
    ELSE store[k] = Nil

Settled ==
    Reconcilable(parent) =>
        \A k \in Kinds \ {HTTPRoute} :
            (\A j \in Kinds : j <= k => Clear(j)) => Matches(k)

\* Whatever was edited, deleted, drifted, lost or restarted, once the
\* disturbances end the children become and remain what the live spec asks
\* for, up to the first kind whose name is taken by an object that the engine
\* must not touch.  (Behaviours that use up the revision bound are excused: a
\* manager that never hears of its parent's deletion feeds the garbage
\* collector forever.)
Convergence == <>[](Settled \/ clock = MaxRev)

=============================================================================
