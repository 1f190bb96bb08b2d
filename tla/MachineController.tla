-------------------------- MODULE MachineController --------------------------
(***************************************************************************)
(* The v1alpha2 Machine reconcile (pkg/controller/machine/                 *)
(* machine_controller_phases.go) for one Machine and its two external      *)
(* objects: the bootstrap config (Spec.Bootstrap.ConfigRef) and the        *)
(* infrastructure machine (Spec.InfrastructureRef).                        *)
(*                                                                         *)
(* One reconcile is one step: reconcileBootstrap, reconcileInfrastructure, *)
(* the phase and the returned error; the caller writes the Machine back.   *)
(* Only the Machine is watched ("TODO: Handle watching dynamic external    *)
(* objects"): a change of an external object enqueues nothing, so the     *)
(* Machine is reconciled again only on an error or RequeueAfter, or when   *)
(* the Machine itself changes.  The informer's resync may happen but is   *)
(* not assumed fair: a liveness property holds without it, unless it says  *)
(* so in its hypothesis.                                                   *)
(***************************************************************************)
EXTENDS Naturals

CONSTANTS
    MaxFaults,  \* bound on failed Get, Patch and Delete calls
    ResyncOn    \* whether the informer's periodic resync is part of the model

VARIABLES
    mach,    \* the Machine: spec data, status flags, phase, deletion
    cfg,     \* the bootstrap config
    inf,     \* the infrastructure machine
    queued,  \* the Machine's key is in the workqueue
    faults

vars == <<mach, cfg, inf, queued, faults>>

\* An external object: "absent" before it is created, "gone" after.
ObjT == [st : {"absent", "live", "deleting", "gone"}, ready : BOOLEAN,
         data : {"", "d"}, err : BOOLEAN, owned : BOOLEAN]
MachT == [deleting : BOOLEAN, data : BOOLEAN, bootReady : BOOLEAN,
          infraReady : BOOLEAN, nodeRef : BOOLEAN, errReason : BOOLEAN,
          phase : {"", "Pending", "Provisioning", "Provisioned", "Running",
                   "Failed", "Deleting"}]

Found(o) == o.st \in {"live", "deleting"}

(***************************************************************************)
(* reconcileExternal, with getExternal and getExternalErrors.  Each result *)
(* says what it returns (ret: "nil" or "obj", err: "none", "requeue" for a *)
(* RequeueAfterError, or "error"), the object after the call, whether a    *)
(* call failed (f), and the Machine's ErrorReason after it.               *)
(***************************************************************************)
\* getExternalErrors: whether status.errorReason (or errorMessage) is set.
getExternalErrors(o) == o.err

Res(ret, err, o, f, e) == [ret |-> ret, err |-> err, o |-> o, f |-> f, merr |-> e]

reconcileExternalNoDelete(o, m) ==
    {Res("nil", "error", o, 1, m.errReason)}
    \cup (IF ~Found(o)
          THEN {Res("nil", IF m.deleting THEN "none" ELSE "requeue", o, 0, m.errReason)}
          ELSE IF ~o.owned
          THEN {Res("nil", "error", o, 1, m.errReason),
                Res("obj", "none", [o EXCEPT !.owned = TRUE], 0, m.errReason \/ o.err)}
          ELSE {Res("obj", "none", o, 0, m.errReason \/ o.err)})

reconcileExternalErrorsOnPatch(o, m) ==
    {Res("nil", "error", o, 1, m.errReason)}
    \cup (IF ~Found(o)
          THEN {Res("nil", IF m.deleting THEN "none" ELSE "requeue", o, 0, m.errReason)}
          ELSE IF m.deleting
          THEN {Res("nil", "error", o, 1, m.errReason),
                Res("obj", "none", [o EXCEPT !.st = "deleting"], 0, m.errReason)}
          ELSE IF ~o.owned
          THEN {Res("nil", "error", o, 1, m.errReason),
                Res("obj", "none", [o EXCEPT !.owned = TRUE], 0, m.errReason \/ o.err)}
          ELSE {Res("obj", "none", o, 0, m.errReason)})

reconcileExternalIgnorePatchError(o, m) ==
    {Res("nil", "error", o, 1, m.errReason)}
    \cup (IF ~Found(o)
          THEN {Res("nil", IF m.deleting THEN "none" ELSE "requeue", o, 0, m.errReason)}
          ELSE IF m.deleting
          THEN {Res("nil", "error", o, 1, m.errReason),
                Res("obj", "none", [o EXCEPT !.st = "deleting"], 0, m.errReason)}
          ELSE {Res("obj", "none", [o EXCEPT !.owned = TRUE], 0, m.errReason \/ o.err),
                Res("obj", "none", o, 1, m.errReason \/ o.err)})

\* Mutant: the Machine's ErrorReason is overwritten by each object's, set
\* or not.
reconcileExternalOverwriteErrors(o, m) ==
    {Res("nil", "error", o, 1, m.errReason)}                
    \cup (IF ~Found(o)
          THEN {Res("nil", IF m.deleting THEN "none" ELSE "requeue", o, 0, m.errReason)}
          ELSE IF m.deleting
          THEN {Res("nil", "error", o, 1, m.errReason),
                Res("obj", "none", [o EXCEPT !.st = "deleting"], 0, m.errReason)}
          ELSE IF ~o.owned
          THEN {Res("nil", "error", o, 1, m.errReason),
                Res("obj", "none", [o EXCEPT !.owned = TRUE], 0, getExternalErrors(o))}
          ELSE {Res("obj", "none", o, 0, getExternalErrors(o))})

\* Mutant: NotFound for a live Machine returns nil instead of a
\* RequeueAfterError.
reconcileExternalNoRequeue(o, m) ==
    {Res("nil", "error", o, 1, m.errReason)}                      \* Get fails
    \cup (IF ~Found(o)
          THEN {Res("nil", "none", o, 0, m.errReason)}
          ELSE IF m.deleting
          THEN {Res("nil", "error", o, 1, m.errReason),          \* Delete fails
                Res("obj", "none", [o EXCEPT !.st = "deleting"], 0, m.errReason)}
          ELSE IF ~o.owned
          THEN {Res("nil", "error", o, 1, m.errReason),          \* Patch fails
                Res("obj", "none", [o EXCEPT !.owned = TRUE], 0, m.errReason \/ getExternalErrors(o))}
          ELSE {Res("obj", "none", o, 0, m.errReason \/ getExternalErrors(o))})

reconcileExternal(o, m) ==
    {Res("nil", "error", o, 1, m.errReason)}                      \* Get fails
    \cup (IF ~Found(o)
          THEN {Res("nil", IF m.deleting THEN "none" ELSE "requeue", o, 0, m.errReason)}
          ELSE IF m.deleting
          THEN {Res("nil", "error", o, 1, m.errReason),          \* Delete fails
                Res("obj", "none", [o EXCEPT !.st = "deleting"], 0, m.errReason)}
          ELSE IF ~o.owned
          THEN {Res("nil", "error", o, 1, m.errReason),          \* Patch fails
                Res("obj", "none", [o EXCEPT !.owned = TRUE], 0, m.errReason \/ getExternalErrors(o))}
          ELSE {Res("obj", "none", o, 0, m.errReason \/ getExternalErrors(o))})

\* isExternalReady: status.ready, false when absent.
isExternalReady(o) == o.ready

(***************************************************************************)
(* reconcileBootstrap and reconcileInfrastructure.  The checks after       *)
(* reconcileExternal read the object as Get returned it (o), before the    *)
(* Delete or Patch of that call.                                           *)
(***************************************************************************)
Step(m, o, f, err) == [m |-> m, o |-> o, f |-> f, err |-> err]

Boot(m, o, r) ==
    LET m1 == [m EXCEPT !.errReason = r.merr] IN
    CASE r.err # "none"             -> Step(m, r.o, r.f, r.err)
      [] r.ret = "nil"              -> Step([m1 EXCEPT !.bootReady = FALSE], r.o, r.f, "none")
      [] o.st = "deleting"          -> Step(m1, r.o, r.f, "none")
      [] ~isExternalReady(o)        -> Step(m1, r.o, r.f, "requeue")
      [] o.data = ""                -> Step(m1, r.o, r.f, "error")
      [] OTHER -> Step([m1 EXCEPT !.data = TRUE, !.bootReady = TRUE], r.o, r.f, "none")

reconcileBootstrap(m) ==
    IF m.data THEN {Step([m EXCEPT !.bootReady = TRUE], cfg, 0, "none")}
    ELSE {Boot(m, cfg, r) : r \in reconcileExternal(cfg, m)}

Infra(m, o, r) ==
    LET m1 == [m EXCEPT !.errReason = r.merr] IN
    CASE r.err # "none"                      -> Step(m, r.o, r.f, r.err)
      [] r.ret = "nil"                       -> Step(m1, r.o, r.f, "none")
      [] m.infraReady \/ o.st = "deleting"   -> Step(m1, r.o, r.f, "none")
      [] ~isExternalReady(o)                 -> Step(m1, r.o, r.f, "requeue")
      [] OTHER -> Step([m1 EXCEPT !.infraReady = TRUE], r.o, r.f, "none")

reconcileInfrastructure(m) == {Infra(m, inf, r) : r \in reconcileExternal(inf, m)}

\* The phase, set by the checks of reconcile in order; a later one wins.
Phase(m) ==
    LET p0 == IF m.phase = "" THEN "Pending" ELSE m.phase
        p1 == IF m.bootReady /\ ~m.infraReady THEN "Provisioning" ELSE p0
        p2 == IF m.infraReady THEN "Provisioned" ELSE p1
        p3 == IF m.nodeRef /\ m.infraReady THEN "Running" ELSE p2
        p4 == IF m.errReason THEN "Failed" ELSE p3
    IN  IF m.deleting THEN "Deleting" ELSE p4

\* The returned error: the bootstrap error, unless it is nil or a
\* RequeueAfterError and the infrastructure returned one.
ReturnErr(be, ie) == IF ie # "none" /\ be \in {"none", "requeue"} THEN ie ELSE be

Faulted(n) == faults + n <= MaxFaults /\ faults' = faults + n

\* reconcile, and the caller's write of the Machine.  An error or
\* RequeueAfter requeues the key; a changed Machine comes back as an event.
Reconcile ==
    /\ queued
    /\ \E b \in reconcileBootstrap(mach) :
       \E i \in reconcileInfrastructure(b.m) :
          LET m2 == [i.m EXCEPT !.phase = Phase(i.m)] IN
          /\ Faulted(b.f + i.f)
          /\ mach' = m2 /\ cfg' = b.o /\ inf' = i.o
          /\ queued' = (ReturnErr(b.err, i.err) # "none" \/ m2 # mach)

(***************************************************************************)
(* The environment: the providers, the node controller and the user.       *)
(***************************************************************************)
SetCfg(o) == cfg' = o /\ UNCHANGED <<mach, inf, queued, faults>>
SetInf(o) == inf' = o /\ UNCHANGED <<mach, cfg, queued, faults>>

\* Both external objects may be created after the Machine, but not after
\* its deletion.
CreateConfig == cfg.st = "absent" /\ ~mach.deleting /\ SetCfg([cfg EXCEPT !.st = "live"])
CreateInfra == inf.st = "absent" /\ ~mach.deleting /\ SetInf([inf EXCEPT !.st = "live"])

\* The bootstrap provider marks the config ready, possibly before it fills
\* status.bootstrapData, and fills it.
ConfigReady ==
    /\ cfg.st = "live" /\ ~cfg.ready
    /\ \E d \in {"", "d"} : SetCfg([cfg EXCEPT !.ready = TRUE, !.data = d])
ConfigFill == cfg.ready /\ cfg.data = "" /\ SetCfg([cfg EXCEPT !.data = "d"])

\* The infrastructure provider boots from the Machine's bootstrap data.
InfraReady == inf.st = "live" /\ ~inf.ready /\ mach.data /\ SetInf([inf EXCEPT !.ready = TRUE])

\* A provider reports a terminal error in status.errorReason.
ConfigFails == Found(cfg) /\ ~cfg.err /\ SetCfg([cfg EXCEPT !.err = TRUE])
InfraFails == Found(inf) /\ ~inf.err /\ SetInf([inf EXCEPT !.err = TRUE])

\* A deleted external object goes once its provider's finalizer is done.
ConfigGone == cfg.st = "deleting" /\ SetCfg([cfg EXCEPT !.st = "gone"])
InfraGone == inf.st = "deleting" /\ SetInf([inf EXCEPT !.st = "gone"])

\* The node controller sets Status.NodeRef; the user deletes the Machine.
MachineEvent(m) == mach' = m /\ queued' = TRUE /\ UNCHANGED <<cfg, inf, faults>>
NodeRefSet == mach.infraReady /\ ~mach.nodeRef /\ MachineEvent([mach EXCEPT !.nodeRef = TRUE])
UserDelete == ~mach.deleting /\ MachineEvent([mach EXCEPT !.deleting = TRUE])

\* The shared informer's periodic resync delivers the Machine again.
Resync == ResyncOn /\ ~queued /\ queued' = TRUE /\ UNCHANGED <<mach, cfg, inf, faults>>

\* A deleted Machine with nothing left to reconcile (its removal is not
\* part of this file).
Quiesced == mach.deleting /\ ~queued /\ UNCHANGED vars

Init ==
    /\ mach = [deleting |-> FALSE, data |-> FALSE, bootReady |-> FALSE,
               infraReady |-> FALSE, nodeRef |-> FALSE, errReason |-> FALSE,
               phase |-> ""]
    /\ \E s1, s2 \in {"absent", "live"} :
          /\ cfg = [st |-> s1, ready |-> FALSE, data |-> "", err |-> FALSE, owned |-> FALSE]
          /\ inf = [st |-> s2, ready |-> FALSE, data |-> "", err |-> FALSE, owned |-> FALSE]
    /\ queued = TRUE /\ faults = 0

Environment ==
    \/ CreateConfig \/ CreateInfra \/ ConfigReady \/ ConfigFill \/ InfraReady
    \/ ConfigFails \/ InfraFails \/ ConfigGone \/ InfraGone
    \/ NodeRefSet \/ UserDelete \/ Resync

Next == Reconcile \/ Environment \/ Quiesced

\* The workqueue runs a queued key; the providers and the node controller
\* make progress.  Provider errors and the user's delete may never happen,
\* and neither need the resync.
Fairness ==
    /\ WF_vars(Reconcile)
    /\ WF_vars(CreateConfig) /\ WF_vars(CreateInfra) /\ WF_vars(ConfigReady)
    /\ WF_vars(ConfigFill) /\ WF_vars(InfraReady) /\ WF_vars(ConfigGone)
    /\ WF_vars(InfraGone) /\ WF_vars(NodeRefSet)

Spec == Init /\ [][Next]_vars /\ Fairness

-----------------------------------------------------------------------------

\* A live config whose data the Machine holds carries the Machine's owner
\* reference, so the garbage collector removes it with the Machine:
\* reconcileExternal returns the object only after the owner reference
\* Patch succeeded.  (A config that a deleting Machine already deleted may
\* still have its data copied from the copy read before the Delete.)
OwnedBeforeDataCopied == mach.data /\ cfg.st = "live" => cfg.owned

\* A Machine that is not deleted and whose providers report no error
\* eventually runs: without a watch on the external objects, every wait
\* (object not found, not ready, data empty) must requeue.
EventuallyRunning == <>(mach.phase \in {"Running", "Failed", "Deleting"})

\* An error the infrastructure provider reports on the machine of a live
\* Machine is eventually shown as the Failed phase, provided the informer's
\* periodic resync keeps delivering the Machine: reconcileExternal copies
\* status.errorReason on every reconcile, but once the Machine settles only
\* a resync runs one (external objects are not watched, line 87).
InfraErrorSurfaces ==
    WF_vars(Resync) =>
        ((inf.err /\ inf.st = "live" /\ ~mach.deleting)
            ~> mach.phase \in {"Failed", "Deleting"})

\* Deleting a Machine deletes its infrastructure machine: every reconcile
\* of a deleting Machine deletes the infrastructure object, retried after
\* failed calls.
InfraReleased == mach.deleting ~> inf.st \in {"absent", "gone"}

\* The phase the Machine shows, as MachinePhases states it.
Phases == INSTANCE MachinePhases WITH phase <- mach.phase, deleting <- mach.deleting

\* The phase reconcile writes only moves forward, however the bootstrap and
\* infrastructure results of one reconcile combine: it is recomputed from
\* BootstrapReady, InfrastructureReady, NodeRef and ErrorReason on every
\* reconcile, so a status field that is reset, or a check that runs in
\* the wrong order, would move it back (Running to Provisioned, or Failed
\* to Running).
PhaseRefinement == Phases!Spec

=============================================================================
