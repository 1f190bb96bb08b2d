--------------------------- MODULE KubeadmBootstrap ---------------------------
(***************************************************************************)
(* The kubeadm bootstrap provider's KubeadmConfigReconciler (Reconcile,    *)
(* handleClusterNotInitialized, joinControlplane, joinWorker) for the      *)
(* machines of one cluster, composed with the Machine controller's         *)
(* reconcileBootstrap / reconcileInfrastructure / phase computation, which *)
(* copies a ready config's bootstrap data onto its Machine.                *)
(*                                                                         *)
(* A reconcile of one config runs as a goroutine in steps, so that         *)
(* reconciles of different configs interleave: Read (Get config, machine,  *)
(* cluster and the early switch), Lock, generate init or join data, and    *)
(* the deferred patch.  The workqueue never runs two reconciles of one     *)
(* config at once; at most Workers run at once (MaxConcurrentReconciles).  *)
(* The infrastructure provider and the Cluster controller are environment  *)
(* actions.                                                                *)
(***************************************************************************)
EXTENDS Naturals, FiniteSets

CONSTANTS
    Machines,        \* machines of the cluster, one KubeadmConfig each
    ControlPlane,    \* machines labelled as control plane
    InitConfigured,  \* control-plane configs with Init/ClusterConfiguration
    PresetData,      \* machines whose Spec.Bootstrap.Data a user set
    Workers,         \* MaxConcurrentReconciles of the controller
    MaxPatchFaults,  \* bound on failed deferred patches
    MaxGenFaults     \* bound on failed data generations

ASSUME /\ ControlPlane \subseteq Machines
       /\ InitConfigured \subseteq ControlPlane
       /\ PresetData \subseteq Machines
       /\ Workers \in Nat \ {0}
       /\ MaxPatchFaults \in Nat /\ MaxGenFaults \in Nat

Phases == {"", "Pending", "Provisioning", "Provisioned", "Running"}

VARIABLES
    clusterInfra,  \* cluster.Status.InfrastructureReady (and endpoint set)
    cpInit,        \* cluster.Status.ControlPlaneInitialized
    cfgReady,      \* persisted config.Status.Ready
    cfgData,       \* persisted bootstrap data: "none", "init" or "join"
    locked,        \* the InitLocker (myInitLocker.locked)
    pc,            \* step of the reconcile in flight for each config
    pending,       \* the data a reconcile in flight put into its copy
    machineData,   \* machine.Spec.Bootstrap.Data set
    infraProv,     \* the infrastructure machine object reports ready
    machineInfra,  \* machine.Status.InfrastructureReady
    nodeRef,       \* machine.Status.NodeRef set
    phase,         \* machine.Status.Phase
    patchFaults, genFaults

kubeadmVars == <<cfgReady, cfgData, locked, pc, pending, patchFaults, genFaults>>
machineVars == <<machineData, machineInfra, phase>>
envVars == <<clusterInfra, cpInit, infraProv, nodeRef>>
vars == <<kubeadmVars, machineVars, envVars>>

Busy == {m \in Machines : pc[m] # "idle"}

\* myInitLocker.Unlock: releases the lock whoever holds it.
Unlock == locked' = FALSE

(***************************************************************************)
(* KubeadmConfigReconciler.Reconcile up to the branch on                   *)
(* ControlPlaneInitialized, as one step reading the cluster.  The early    *)
(* returns of the switch change nothing, or only the Ready flag.  The join *)
(* path unlocks the init lock right away.                                  *)
(***************************************************************************)
Reconcile(m) ==
    /\ pc[m] = "idle" /\ Cardinality(Busy) < Workers
    /\ clusterInfra
    /\ ~(cfgReady[m] /\ machineInfra[m])
    /\ \/ /\ machineData[m] /\ ~cfgReady[m]
          /\ \/ cfgReady' = [cfgReady EXCEPT ![m] = TRUE]
                /\ UNCHANGED patchFaults
             \/ patchFaults < MaxPatchFaults /\ patchFaults' = patchFaults + 1
                /\ UNCHANGED cfgReady
          /\ UNCHANGED <<pc, locked>>
       \/ /\ ~(machineData[m] /\ ~cfgReady[m])
          /\ ~(cfgReady[m] /\ cfgData[m] = "join")
          /\ \/ ~cpInit /\ m \in InitConfigured /\ pc' = [pc EXCEPT ![m] = "lock"]
                /\ UNCHANGED locked
             \/ cpInit /\ Unlock /\ pc' = [pc EXCEPT ![m] = "join"]
          /\ UNCHANGED <<cfgReady, patchFaults>>
    /\ UNCHANGED <<cfgData, pending, genFaults, machineVars, envVars>>

\* Mutant: a Lock that does not test whether the lock is held.
LockUnchecked(m) ==
    /\ pc[m] = "lock"
    /\ pc' = [pc EXCEPT ![m] = "initgen"] /\ locked' = TRUE
    /\ UNCHANGED <<cfgReady, cfgData, pending, patchFaults, genFaults,
                   machineVars, envVars>>

\* handleClusterNotInitialized: Lock, or requeue when another machine holds it.
Lock(m) ==
    /\ pc[m] = "lock"
    /\ IF locked
       THEN pc' = [pc EXCEPT ![m] = "idle"] /\ UNCHANGED locked
       ELSE pc' = [pc EXCEPT ![m] = "initgen"] /\ locked' = TRUE
    /\ UNCHANGED <<cfgReady, cfgData, pending, patchFaults, genFaults,
                   machineVars, envVars>>

\* Mutant: a failed generation without the deferred Unlock.
InitGenNoUnlock(m) ==
    /\ pc[m] = "initgen"
    /\ \/ pending' = [pending EXCEPT ![m] = "init"]
          /\ pc' = [pc EXCEPT ![m] = "patch"]
          /\ UNCHANGED genFaults
       \/ genFaults < MaxGenFaults /\ genFaults' = genFaults + 1
          /\ pc' = [pc EXCEPT ![m] = "idle"]
          /\ UNCHANGED pending
    /\ UNCHANGED <<locked, cfgReady, cfgData, patchFaults, machineVars, envVars>>

\* Defaults, certificates LookupOrGenerate, resolveFiles and cloud-init; a
\* failure returns an error and the deferred Unlock releases the lock.
InitGen(m) ==
    /\ pc[m] = "initgen"
    /\ \/ pending' = [pending EXCEPT ![m] = "init"]
          /\ pc' = [pc EXCEPT ![m] = "patch"]
          /\ UNCHANGED <<locked, genFaults>>
       \/ genFaults < MaxGenFaults /\ genFaults' = genFaults + 1
          /\ pc' = [pc EXCEPT ![m] = "idle"] /\ Unlock
          /\ UNCHANGED pending
    /\ UNCHANGED <<cfgReady, cfgData, patchFaults, machineVars, envVars>>

\* joinControlplane / joinWorker: certificates Lookup, reconcileDiscovery,
\* resolveFiles and cloud-init; a failure returns an error.
JoinGen(m) ==
    /\ pc[m] = "join"
    /\ \/ pending' = [pending EXCEPT ![m] = "join"]
          /\ pc' = [pc EXCEPT ![m] = "patch"]
          /\ UNCHANGED genFaults
       \/ genFaults < MaxGenFaults /\ genFaults' = genFaults + 1
          /\ pc' = [pc EXCEPT ![m] = "idle"]
          /\ UNCHANGED pending
    /\ UNCHANGED <<cfgReady, cfgData, locked, patchFaults, machineVars, envVars>>

\* The deferred patchHelper.Patch after a nil error; its failure becomes the
\* reconcile's error, after the Unlock defer has already seen a nil error.
Patch(m) ==
    /\ pc[m] = "patch"
    /\ pc' = [pc EXCEPT ![m] = "idle"]
    /\ pending' = [pending EXCEPT ![m] = "none"]
    /\ \/ cfgReady' = [cfgReady EXCEPT ![m] = TRUE]
          /\ cfgData' = [cfgData EXCEPT ![m] = pending[m]]
          /\ UNCHANGED patchFaults
       \/ patchFaults < MaxPatchFaults /\ patchFaults' = patchFaults + 1
          /\ UNCHANGED <<cfgReady, cfgData>>
    /\ UNCHANGED <<locked, genFaults, machineVars, envVars>>

(***************************************************************************)
(* The Machine controller's reconcile: reconcileBootstrap copies the data  *)
(* of a ready config, reconcileInfrastructure copies the infrastructure    *)
(* machine's readiness, then the phase is recomputed from the status.      *)
(***************************************************************************)
PhaseOf(prev, data, infra, node) ==
    LET p0 == IF prev = "" THEN "Pending" ELSE prev
        p1 == IF data /\ ~infra THEN "Provisioning" ELSE p0
        p2 == IF infra THEN "Provisioned" ELSE p1
    IN  IF node /\ infra THEN "Running" ELSE p2

\* reconcileBootstrap: data already set, or copied from a ready config.
reconcileBootstrap(m) == machineData[m] \/ (cfgReady[m] /\ cfgData[m] # "none")

\* reconcileInfrastructure: ready once, or when the infrastructure object is.
reconcileInfrastructure(m) == machineInfra[m] \/ infraProv[m]

MachineReconcile(m) ==
    /\ LET data  == reconcileBootstrap(m)
           infra == reconcileInfrastructure(m)
       IN  /\ machineData' = [machineData EXCEPT ![m] = data]
           /\ machineInfra' = [machineInfra EXCEPT ![m] = infra]
           /\ phase' = [phase EXCEPT ![m] = PhaseOf(phase[m], data, infra, nodeRef[m])]
    /\ machineVars' # machineVars
    /\ UNCHANGED <<kubeadmVars, envVars>>

(***************************************************************************)
(* Environment: the infrastructure provider and the Cluster controller.    *)
(***************************************************************************)
ClusterInfraReady ==
    /\ ~clusterInfra /\ clusterInfra' = TRUE
    /\ UNCHANGED <<cpInit, infraProv, nodeRef, kubeadmVars, machineVars>>

\* The infrastructure provider boots a machine from its bootstrap data.
InfraMachineReady(m) ==
    /\ machineData[m] /\ ~infraProv[m] /\ infraProv' = [infraProv EXCEPT ![m] = TRUE]
    /\ UNCHANGED <<clusterInfra, cpInit, nodeRef, kubeadmVars, machineVars>>

\* A booted machine's node registers: a joining node needs an initialized
\* control plane.
NodeJoins(m) ==
    /\ machineInfra[m] /\ ~nodeRef[m]
    /\ cfgData[m] = "init" \/ cpInit
    /\ nodeRef' = [nodeRef EXCEPT ![m] = TRUE]
    /\ UNCHANGED <<clusterInfra, cpInit, infraProv, kubeadmVars, machineVars>>

\* The Cluster controller marks the control plane initialized once a
\* control-plane machine has a node.
ControlPlaneInitialized ==
    /\ ~cpInit /\ \E m \in ControlPlane : nodeRef[m]
    /\ cpInit' = TRUE
    /\ UNCHANGED <<clusterInfra, infraProv, nodeRef, kubeadmVars, machineVars>>

Init ==
    /\ clusterInfra = FALSE /\ cpInit = FALSE
    /\ cfgReady = [m \in Machines |-> FALSE]
    /\ cfgData = [m \in Machines |-> "none"]
    /\ locked = FALSE
    /\ pc = [m \in Machines |-> "idle"]
    /\ pending = [m \in Machines |-> "none"]
    /\ machineData = [m \in Machines |-> m \in PresetData]
    /\ infraProv = [m \in Machines |-> FALSE]
    /\ machineInfra = [m \in Machines |-> FALSE]
    /\ nodeRef = [m \in Machines |-> FALSE]
    /\ phase = [m \in Machines |-> ""]
    /\ patchFaults = 0 /\ genFaults = 0

ReconcileStep(m) ==
    Reconcile(m) \/ Lock(m) \/ InitGen(m) \/ JoinGen(m) \/ Patch(m)

Environment ==
    \/ ClusterInfraReady \/ ControlPlaneInitialized
    \/ \E m \in Machines : InfraMachineReady(m) \/ NodeJoins(m)

\* Every machine runs with a ready config: the controllers have nothing
\* left to do and the cluster stays as it is.
Provisioned ==
    /\ \A m \in Machines : cfgReady[m] /\ nodeRef[m] /\ phase[m] = "Running"
    /\ UNCHANGED vars

Next ==
    \/ \E m \in Machines : ReconcileStep(m) \/ MachineReconcile(m)
    \/ Environment
    \/ Provisioned

\* Every requeued reconcile runs again, and the other controllers keep
\* reconciling.
Fairness ==
    /\ \A m \in Machines : WF_vars(ReconcileStep(m)) /\ WF_vars(MachineReconcile(m))
    /\ WF_vars(Environment)

Spec == Init /\ [][Next]_vars /\ Fairness

-----------------------------------------------------------------------------

\* At most one machine of the cluster ever receives kubeadm init data: the
\* init lock and the ControlPlaneInitialized check are meant to let exactly
\* one control-plane machine initialize (test
\* ExactlyOneControlPlaneMachineInitializes).
AtMostOneInit == Cardinality({m \in Machines : cfgData[m] = "init"}) <= 1

\* The control plane eventually initializes and every machine eventually
\* has a ready config: no reconcile waits forever on the init lock.
AllEventuallyReady == <>(cpInit /\ \A m \in Machines : cfgReady[m])

=============================================================================
