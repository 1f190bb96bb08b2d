-------------------------- MODULE ClusterController --------------------------
(***************************************************************************)
(* The v1alpha1 Cluster controller (pkg/controller/cluster/                *)
(* cluster_controller.go): finalizers on a live Cluster, and on deletion:   *)
(* list the children, delete them, wait, call actuator.Delete, then remove  *)
(* the cluster finalizer inside RetryOnConflict.                           *)
(*                                                                         *)
(* The API server keeps every version of the Cluster object in `hist`; its *)
(* resourceVersion is the index.  The controller reads through the shared  *)
(* informer cache, which is some earlier version hist[ci], and an Update   *)
(* succeeds only when the copy it writes is the stored version.  The       *)
(* clientset used by listChildren reads the API server directly.           *)
(* controller-runtime runs one reconcile of the key at a time; `queued` is *)
(* the key's presence in the workqueue.                                    *)
(***************************************************************************)
EXTENDS Naturals, Sequences, FiniteSets

CONSTANTS
    Children,          \* MachineDeployments, MachineSets and Machines owned by the cluster
    RetrySteps,        \* retry.DefaultRetry.Steps: attempts of the finalizer removal
    MaxFaults,         \* bound on transient errors of API and actuator calls
    MaxCrashes,        \* bound on controller restarts
    MaxActuatorWrites  \* bound on writes of the Cluster by the actuator

ASSUME RetrySteps \in Nat \ {0} /\ MaxFaults \in Nat /\ MaxCrashes \in Nat
       /\ MaxActuatorWrites \in Nat

\* The two finalizers the controller adds: metav1.FinalizerDeleteDependents
\* ("foregroundDeletion", handled by the garbage collector) and
\* clusterv1.ClusterFinalizer.
FG == "foregroundDeletion"
CL == "cluster.cluster.k8s.io"

VARIABLES
    hist,      \* versions of the Cluster object written to the API server
    ci,        \* the version the informer cache holds
    queued,    \* the cluster's key is in the workqueue
    pc,        \* "idle" | "delchildren" | "delete" | "remove"
    listed,    \* children returned by listChildren, with their state then
    tries,     \* attempts made by RetryOnConflict
    child,     \* "none" | "live" | "deleting" | "gone"
    infra,     \* the provider's infrastructure: "none" | "provisioned" | "deleted"
    faults, crashes, actWrites

vars == <<hist, ci, queued, pc, listed, tries, child, infra, faults, crashes, actWrites>>

ObjRec == [exists : BOOLEAN, deleting : BOOLEAN, fins : SUBSET {FG, CL}]
ChildState == {"none", "live", "deleting", "gone"}
Gone == [exists |-> FALSE, deleting |-> TRUE, fins |-> {}]

Obj == hist[Len(hist)]
Cached == hist[ci]
Fresh == ci = Len(hist)

\* The API server's write: a deleted object whose last finalizer goes is
\* removed; an update that changes nothing keeps its resourceVersion.
Store(o) ==
    LET new == IF o.deleting /\ o.fins = {} THEN Gone ELSE o
    IN  hist' = IF new = Obj THEN hist ELSE Append(hist, new)

\* A transient error of a remote call.
Transient == faults < MaxFaults /\ faults' = faults + 1

\* The actuator may write the Cluster (status, annotations) while it works.
ActuatorWrite ==
    \/ UNCHANGED <<hist, actWrites>>
    \/ /\ Obj.exists /\ actWrites < MaxActuatorWrites
       /\ hist' = Append(hist, Obj) /\ actWrites' = actWrites + 1

\* listChildren and pointsTo: every MachineDeployment, MachineSet and
\* Machine with an owner reference to the cluster, whatever its deletion
\* state, read from the API server.
listChildrenLiveOnly == {c \in Children : child[c] = "live"}
listChildren == {c \in Children : child[c] \in {"live", "deleting"}}

\* util.Filter: the finalizers without the cluster finalizer.
FilterWrongName(fins) == fins \ {FG}
Filter(fins) == fins \ {CL}

\* The not-deleted branch: add the missing finalizers and requeue, or
\* call actuator.Reconcile (a requeue-after or other error requeues).
AddFinalizers(c) ==
    /\ queued' = TRUE
    /\ \/ /\ Fresh /\ Store([c EXCEPT !.fins = @ \cup {FG, CL}])
          /\ UNCHANGED faults
       \/ ~Fresh /\ UNCHANGED <<hist, faults>>          \* conflict
       \/ Transient /\ UNCHANGED hist
    /\ UNCHANGED <<infra, actWrites>>

ReconcileInfra ==
    /\ infra' = "provisioned" /\ ActuatorWrite
    /\ \/ queued' = FALSE /\ UNCHANGED faults
       \/ Transient /\ queued' = TRUE

NoOp == queued' = FALSE /\ UNCHANGED <<hist, infra, faults, actWrites>>

\* The deletion branch up to listChildren: a no-op once the cluster
\* finalizer is gone; else list the children and go on to delete them, or
\* to actuator.Delete when there are none.
reconcileDelete(c) ==
    IF CL \notin c.fins
    THEN NoOp /\ UNCHANGED <<pc, listed, child>>
    ELSE LET kids == listChildren IN
         /\ pc' = IF kids = {} THEN "delete" ELSE "delchildren"
         /\ listed' = [k \in kids |-> child[k]]
         /\ NoOp /\ UNCHANGED child

\* Reconcile: the cached Get, then the branch it selects.
Reconcile ==
    /\ pc = "idle" /\ queued
    /\ LET c == Cached IN
       \/ ~c.exists /\ NoOp /\ UNCHANGED <<pc, listed, child>>
       \/ /\ c.exists /\ ~c.deleting /\ {FG, CL} \ c.fins # {}
          /\ AddFinalizers(c) /\ UNCHANGED <<pc, listed, child>>
       \/ /\ c.exists /\ ~c.deleting /\ {FG, CL} \subseteq c.fins
          /\ ReconcileInfra /\ UNCHANGED <<pc, listed, child>>
       \/ c.exists /\ c.deleting /\ reconcileDelete(c)
    /\ UNCHANGED <<ci, tries, crashes>>

\* Delete every listed child that had no deletion timestamp, with
\* foreground propagation, and requeue.  A Delete of a child that is gone
\* by now, or a transient error, ends the loop early.
DeleteChildren ==
    LET toDel == {k \in DOMAIN listed : listed[k] = "live"}
        exist == {k \in toDel : child[k] # "gone"}
        Mark(S) == child' = [k \in Children |-> IF k \in S THEN "deleting" ELSE child[k]]
    IN
    /\ pc = "delchildren"
    /\ \/ exist = toDel /\ Mark(toDel) /\ UNCHANGED faults
       \/ exist # toDel /\ \E S \in SUBSET exist : Mark(S) /\ UNCHANGED faults
       \/ Transient /\ \E S \in SUBSET exist : S # toDel /\ Mark(S)
    /\ pc' = "idle" /\ queued' = TRUE /\ listed' = <<>>
    /\ UNCHANGED <<hist, ci, tries, infra, crashes, actWrites>>

ActuatorDelete ==
    /\ pc = "delete"
    /\ \/ /\ infra' = (IF infra = "provisioned" THEN "deleted" ELSE infra)
          /\ ActuatorWrite
          /\ pc' = "remove" /\ tries' = 0
          /\ UNCHANGED <<queued, faults>>
       \/ /\ Transient /\ pc' = "idle" /\ queued' = TRUE
          /\ UNCHANGED <<hist, infra, tries, actWrites>>
    /\ UNCHANGED <<ci, listed, child, crashes>>

\* A conflicting Update: RetryOnConflict tries again up to RetrySteps
\* attempts in all, then returns the conflict and the reconcile requeues.
OnConflictUnbounded ==
    tries' = tries + 1 /\ UNCHANGED <<hist, pc, queued, faults>>

OnConflict ==
    \/ tries + 1 < RetrySteps /\ tries' = tries + 1
       /\ UNCHANGED <<hist, pc, queued, faults>>
    \/ tries + 1 = RetrySteps /\ pc' = "idle" /\ queued' = TRUE
       /\ UNCHANGED <<hist, tries, faults>>

\* One attempt of the RetryOnConflict closure: a cached Get (NotFound is
\* returned as it is), the filter of the cluster finalizer, and Update.
RemoveFinalizer ==
    /\ pc = "remove"
    /\ LET c == Cached IN
       \/ ~c.exists /\ pc' = "idle" /\ queued' = TRUE
          /\ UNCHANGED <<hist, tries, faults>>
       \/ c.exists /\ Fresh /\ Store([c EXCEPT !.fins = Filter(@)])
          /\ pc' = "idle" /\ UNCHANGED <<queued, tries, faults>>
       \/ c.exists /\ Fresh /\ Transient
          /\ pc' = "idle" /\ queued' = TRUE /\ UNCHANGED <<hist, tries>>
       \/ c.exists /\ ~Fresh /\ OnConflict
    /\ UNCHANGED <<ci, listed, child, infra, crashes, actWrites>>

(***************************************************************************)
(* The environment: the informer, the user, the garbage collector, the     *)
(* children's own controllers, and restarts of the manager.                *)
(***************************************************************************)

\* The watch that add sets up on Cluster objects (EnqueueRequestForObject):
\* the informer receives the next event and enqueues the key.  Nothing
\* watches the children, so their changes enqueue nothing.
CacheSync ==
    /\ ci < Len(hist) /\ ci' = ci + 1 /\ queued' = TRUE
    /\ UNCHANGED <<hist, pc, listed, tries, child, infra, faults, crashes, actWrites>>

UserDelete ==
    /\ Obj.exists /\ ~Obj.deleting
    /\ Store([Obj EXCEPT !.deleting = TRUE])
    /\ UNCHANGED <<ci, queued, pc, listed, tries, child, infra, faults, crashes, actWrites>>

\* A child is created by its owner's controller or by a user.  The model
\* assumes none is created once the Cluster is being deleted: nothing in
\* the API server or this controller refuses one (see the hazard at line
\* 145), and a child created after the last listChildren is not waited for.
ChildCreate(k) ==
    /\ child[k] = "none" /\ Obj.exists /\ ~Obj.deleting
    /\ child' = [child EXCEPT ![k] = "live"]
    /\ UNCHANGED <<hist, ci, queued, pc, listed, tries, infra, faults, crashes, actWrites>>

ChildGone(k) ==
    /\ child[k] = "deleting" /\ child' = [child EXCEPT ![k] = "gone"]
    /\ UNCHANGED <<hist, ci, queued, pc, listed, tries, infra, faults, crashes, actWrites>>

\* The garbage collector's foreground deletion: delete the dependents, and
\* drop foregroundDeletion once none is left.
GCDeleteDependent(k) ==
    /\ Obj.exists /\ Obj.deleting /\ FG \in Obj.fins /\ child[k] = "live"
    /\ child' = [child EXCEPT ![k] = "deleting"]
    /\ UNCHANGED <<hist, ci, queued, pc, listed, tries, infra, faults, crashes, actWrites>>

GCRemoveForeground ==
    /\ Obj.exists /\ Obj.deleting /\ FG \in Obj.fins
    /\ \A k \in Children : child[k] \in {"none", "gone"}
    /\ Store([Obj EXCEPT !.fins = @ \ {FG}])
    /\ UNCHANGED <<ci, queued, pc, listed, tries, child, infra, faults, crashes, actWrites>>

\* A restart abandons the running reconcile; the new informer starts from
\* a fresh list and every key is enqueued.
Crash ==
    /\ crashes < MaxCrashes /\ pc # "idle"
    /\ crashes' = crashes + 1 /\ pc' = "idle" /\ queued' = TRUE
    /\ ci' = Len(hist) /\ listed' = <<>> /\ tries' = 0
    /\ UNCHANGED <<hist, child, infra, faults, actWrites>>

\* Nothing is left to do once the object is gone and seen to be gone.
Quiesced ==
    /\ ~Obj.exists /\ Fresh /\ pc = "idle" /\ ~queued
    /\ UNCHANGED vars

Init ==
    /\ hist = << [exists |-> TRUE, deleting |-> FALSE, fins |-> {}] >>
    /\ ci = 1 /\ queued = TRUE /\ pc = "idle" /\ listed = <<>> /\ tries = 0
    /\ child = [k \in Children |-> "none"] /\ infra = "none"
    /\ faults = 0 /\ crashes = 0 /\ actWrites = 0

Controller == Reconcile \/ DeleteChildren \/ ActuatorDelete \/ RemoveFinalizer

Environment ==
    \/ CacheSync \/ UserDelete \/ GCRemoveForeground
    \/ \E k \in Children : ChildCreate(k) \/ ChildGone(k) \/ GCDeleteDependent(k)

Next == Controller \/ Environment \/ Crash \/ Quiesced

\* The workqueue hands a queued key to a worker and a started reconcile
\* runs on; the informer delivers events; the garbage collector and the
\* children's finalizers make progress.
Fairness ==
    /\ WF_vars(Controller)
    /\ WF_vars(CacheSync)
    /\ WF_vars(GCRemoveForeground)
    /\ \A k \in Children : WF_vars(ChildGone(k)) /\ WF_vars(GCDeleteDependent(k))

Spec == Init /\ [][Next]_vars /\ Fairness

-----------------------------------------------------------------------------

TypeOK ==
    /\ hist \in Seq(ObjRec) /\ Len(hist) >= 1 /\ ci \in 1..Len(hist)
    /\ queued \in BOOLEAN
    /\ pc \in {"idle", "delchildren", "delete", "remove"}
    /\ DOMAIN listed \subseteq Children
    /\ tries \in 0..(RetrySteps - 1)
    /\ child \in [Children -> ChildState]
    /\ infra \in {"none", "provisioned", "deleted"}
    /\ faults \in 0..MaxFaults /\ crashes \in 0..MaxCrashes
    /\ actWrites \in 0..MaxActuatorWrites

\* The Cluster's lifecycle as ClusterLifecycle states it: the object's
\* phase as the API server stores it, the infrastructure, and the children
\* that exist, whether or not they are being deleted.
Lifecycle == INSTANCE ClusterLifecycle WITH
    phase <- IF ~Obj.exists THEN "gone"
             ELSE IF Obj.deleting THEN "deleting" ELSE "live",
    alive <- {k \in Children : child[k] \in {"live", "deleting"}}

\* The controller implements the lifecycle: actuator.Reconcile provisions
\* only a Cluster that is still stored, actuator.Delete releases the
\* infrastructure only once the Cluster is deleting and listChildren has
\* found no child left (children being deleted included), nothing is
\* provisioned again after that however stale the cache a later reconcile
\* reads, and the cluster finalizer goes, letting the object leave the API
\* server, only after that release.
ClusterRefinement == Lifecycle!Spec

\* A deleted Cluster is eventually removed from the API server: the
\* finalizer removal, retried on conflicts with the stale cache and after
\* failures, eventually succeeds.
DeletionCompletes == (Obj.exists /\ Obj.deleting) ~> ~Obj.exists

=============================================================================
