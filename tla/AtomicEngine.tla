---------------------------- MODULE AtomicEngine ----------------------------
(***************************************************************************)
(* What the apply engine promises, without caches, revisions, processes or   *)
(* intermediate steps: a change of a child is one decision, taken on the live *)
(* object, for a version of the AIWorkload that a user really asked for       *)
(* (internal/controller/engine.go, Apply).  ChildEngine implements it.        *)
(*                                                                           *)
(* Everything that users, other clients or faults do costs one unit of fuel,  *)
(* so a step that costs none is the engine's or the cluster's own.            *)
(***************************************************************************)
EXTENDS Naturals

CONSTANTS Kinds, Nil

VARIABLES
    fuel,      \* disturbances left
    parent,    \* the AIWorkload in the API server
    versions,  \* the versions of it that some manager still works from
    store      \* the children in the API server, by kind, without revisions

vars == <<fuel, parent, versions, store>>

Wants(v, k) == k < 2 \/ k \in v.spec.on

Init ==
    /\ fuel \in Nat /\ parent # Nil /\ versions = {parent}
    /\ store = [k \in Kinds |-> Nil]

\* Delete at once, or by a deletion timestamp that waits for finalizers.
Remove(k) ==
    store' \in {[store EXCEPT ![k] = Nil],
                [store EXCEPT ![k] = [store[k] EXCEPT !.del = TRUE]]}

Create(v, k) ==
    /\ store[k] = Nil /\ Wants(v, k)
    /\ store'[k] # Nil
    /\ store' = [store EXCEPT ![k] =
                   [uid |-> store'[k].uid, owner |-> v.uid, del |-> FALSE,
                    fit |-> TRUE, content |-> v.spec.content]]

\* The object is controlled by the version's UID and not on its way out.
Manages(v, k) == store[k] # Nil /\ store[k].owner = v.uid /\ ~store[k].del

Repair(v, k) ==
    /\ Manages(v, k) /\ Wants(v, k) /\ store[k].fit
    /\ store' = [store EXCEPT ![k] = [store[k] EXCEPT !.content = v.spec.content]]

Delete(v, k) == Manages(v, k) /\ ~Wants(v, k) /\ Remove(k)

Apply ==
    /\ \E v \in versions, k \in Kinds : Create(v, k) \/ Repair(v, k) \/ Delete(v, k)
    /\ versions' \subseteq versions /\ fuel' \in {fuel, fuel - 1}
    /\ UNCHANGED parent

\* Managers finish, restart and re-read the workload.
Forget ==
    /\ versions' \subseteq versions
    /\ UNCHANGED <<fuel, parent, store>>

FinalizeParent ==
    /\ parent # Nil /\ parent' = Nil
    /\ versions' \subseteq versions
    /\ UNCHANGED <<fuel, store>>

\* The garbage collector and finalizers.
Collect(k) ==
    /\ store[k] # Nil
    /\ \/ store[k].del /\ store' = [store EXCEPT ![k] = Nil]
       \/ /\ store[k].owner # 0
          /\ parent # Nil => parent.uid # store[k].owner
          /\ Remove(k)
    /\ UNCHANGED <<fuel, parent, versions>>

\* A user changes the workload, or someone else one of its children, or a call
\* fails.
Disturb ==
    /\ fuel > 0 /\ fuel' = fuel - 1
    /\ \/ /\ versions' \subseteq versions \cup {parent'}
          /\ UNCHANGED store
       \/ /\ \E k \in Kinds : \A j \in Kinds \ {k} : store'[j] = store[j]
          /\ UNCHANGED <<parent, versions>>

Next ==
    \/ Apply \/ Forget \/ FinalizeParent \/ Disturb
    \/ \E k \in Kinds : Collect(k)

Spec == Init /\ [][Next]_vars

=============================================================================
