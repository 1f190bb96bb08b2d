# TLA+ models of cluster-api components

This directory holds TLA+ models of the parts of this repository's `src/` that
have state and concurrency worth model checking, the TLC configurations that
check them, and `PROJECT.json`, which maps each definition to the source lines
it translates and lists the runs, the mutants, the findings and the hazards.

## The system and its parts

`src/` is a slice of cluster-api from several releases. These are the parts
that have behaviour:

| Part | Source | What it does | Status |
|---|---|---|---|
| clusterctl upgrade planner | `cmd/clusterctl/client/cluster/upgrader.go` | Plans and applies provider upgrades for a management group: contracts, items, delete-then-install, inventory | modelled (`Upgrader`), partly |
| Inventory / ComponentsInstaller | not in `src/` (spec 4.2, 4.6) | Provider records; install, upsert, delete | spec-modelled inside `Upgrader` |
| KubeadmConfig reconciler | `unnamed/part_006` | Generates init or join bootstrap data per machine, guarded by an init lock; deferred patch | modelled (`KubeadmBootstrap`), partly |
| InitLocker (`myInitLocker`) | `unnamed/part_005` 1919-1936 | Non-reentrant boolean lock, the test double that is the only InitLocker in `src/`. Production uses `locking.NewControlPlaneInitMutex` (part_006:160, not in `src/`), which the holder can take again, so the lock held across a failed patch is a property of the test double | modelled (the test double) |
| Manager concurrency | `unnamed/part_005` 2123, 2193-2196 | `kubeadmconfig-concurrency` workers (default 10) | the `Workers` constant |
| Machine controller phases | `pkg/controller/machine/machine_controller_phases.go` | Copies bootstrap data and infrastructure readiness into the Machine and computes its phase | modelled (`MachineController` refining `MachinePhases`, and inside `KubeadmBootstrap`), partly |
| Cluster controller (v1alpha1) | `pkg/controller/cluster/cluster_controller.go`, `util.Filter` in part_005 | Finalizer, deletion of children, actuator delete, finalizer removal with RetryOnConflict | modelled (`ClusterController`, refining `ClusterLifecycle`) |
| ClusterClass webhook | `api/v1alpha4/clusterclass_webhook.go` | Default and validate on create and update | modelled (`ClusterClassWebhook`) |
| GenericProviderReconciler | `unnamed/part_005` 50-296, MemoryRepository in `unnamed/part_003` | Operator reconcile of a provider from ConfigMaps: repository, version, install, Ready condition, deferred patch | modelled (`ProviderOperator`), partly |
| ObjectGraph / ObjectMover | not in `src/` (spec 4.3, 4.5); tests in `unnamed/part_002` | Discovery of the object graph, tenancy, and move of a batch of clusters between management clusters | spec-modelled (`ObjectGraph`, `ObjectMover`), partly |
| Memory repository / reader | `repository_memory.go`, `reader_memory.go`, parts 003/004 | Test doubles holding files and variables | not modelled (maps with get and set) |
| Predicates, topology helpers, client factories, GCE deployer, deepcopy, docs, scripts | various | Pure filters, wiring, I/O, generated code | not modelled |

The modelled parts interact with the rest of the system only through the
API server. The upgrader reads and writes provider inventory records and
components. The bootstrap reconciler reads the Cluster (`InfrastructureReady`,
`ControlPlaneInitialized`) and writes the KubeadmConfig status. The machine
controller then reads that status and copies it into the Machine.

## Modules

### `Upgrader` (upgrader.go)

State:

- `inventory[p]` is the version in the provider's inventory record, or `NoVersion`.
- `components[p]` is the version whose components are installed.
- `plans` and `planBase` hold the last `Plan` result and the inventory it was computed from.
- `pc`, `queue`, `cmd`, `result` and `startInv` describe a running `doUpgrade`.
- `faults` counts transient errors of remote calls.

Versions and contracts are small integers. `Series[p][v]` is the contract
declared by release `v` of `p`, and 0 stands for a version without a release
series.

Actions:

- `Plan` is `providerUpgrader.Plan` (lines 88-140) for the one management
  group. Its result, `PlanOutcome`, keeps the order of the code's branches:
  - `MissingCore` is an error;
  - no core provider gives no plans;
  - an empty contract list returns without error (line 115);
  - otherwise a plan is kept for each contract, dropping partial contract
    switches (line 131).
- `ApplyPlan(c)` and `ApplyCustomPlan(items)` start `doUpgrade`. The custom
  path fails when `createCustomPlanFails(items)`, which lists the error
  returns of `createCustomPlan` in the code's order.
- `Fetch`, `Delete`, `Install` and `Finish` are the steps of the `doUpgrade`
  loop, one item at a time. `Fetch` is `getUpgradeComponents`. `Delete` is
  `providerComponents.Delete` with inventory removal. `Install` is
  `installComponentsAndUpdateInventory`, which can fail before the install,
  or after it and before the upsert. Each failure ends the loop with an error,
  as the `return err` lines do.

The contract and version helpers, `ContractsForUpgrade` and
`LatestNextVersion`, model `upgrader_info.go`, which is not in `src/`. They are
written from spec 4.4.2 and marked `spec_modelled`.

`UpgradeAbstract` is what the upgrader promises a user, without plans,
items or steps. A query (`Answer`) never changes the inventory. An upgrade
(`Begin`, then `Succeed` or `Abort`) changes it in one step when it ends:
- a success keeps the recorded providers recorded, keeps a group that agreed
  on one contract agreeing, and records only released versions;
- a failure leaves each provider at its old version, with no record, or at a
  released version.

`Upgrader` defines `Abs == INSTANCE UpgradeAbstract WITH ...`. While `pc` is
not `idle`, the abstract inventory is `startInv` (the inventory when the apply
began) and the abstract result is `busy`. So `Fetch`, `Delete` and `Install`
are abstract stutters, and `Finish` or a failure is the abstract `Succeed` or
`Abort`. `UpgradeRefinement == Abs!Spec` is checked as a temporal property.

### `ClusterController` (cluster_controller.go)

State:

- the API server's versions of the Cluster object are in `hist`, and a
  version's resourceVersion is its index;
- the informer cache holds version `ci`;
- `queued` is the workqueue entry of the key;
- `pc`, `listed` and `tries` describe the reconcile in progress. There is only
  one, because controller-runtime never runs two reconciles of a key at once;
- `child[k]` is each owned MachineDeployment, MachineSet or Machine;
- `infra` is the actuator's infrastructure.

Actions:

- `Reconcile` is the cached `Get` and the branch it selects (lines 96-149):
  - not found: return;
  - add the missing finalizers with an `Update`, which conflicts on a stale
    copy, and requeue;
  - `actuator.Reconcile`;
  - deletion: a no-op when the cluster finalizer is gone, else
    `listChildren`.
- `DeleteChildren` is the loop of lines 150-171. It deletes the listed
  children that had no deletion timestamp, and it can stop early on an error.
- `ActuatorDelete` is line 176.
- `RemoveFinalizer` is one attempt of the `RetryOnConflict` closure: a cached
  `Get`, `util.Filter`, then `Update`. `OnConflict` retries up to
  `RetrySteps` attempts in all (`retry.DefaultRetry` has 5) and then fails the
  reconcile.
- The environment:
  - `CacheSync`: the informer delivers an event and enqueues the key;
  - `UserDelete`;
  - the garbage collector's foreground deletion: `GCDeleteDependent` and
    `GCRemoveForeground`;
  - `ChildCreate` and `ChildGone`. A child is created only while the
    Cluster is live. Nothing in the API server refuses a child of a deleting
    Cluster; that case is the hazard at line 145, not a step of this model;
  - `Crash`: a manager restart abandons the reconcile and starts a fresh
    informer.
- `Store` is the API server's write. It removes a deleted object whose last
  finalizer goes, and a no-op update keeps the resourceVersion.

`ClusterLifecycle` is what the controller promises about one Cluster, with
no cache, queue, finalizers or retries. The Cluster is `live`, then
`deleting`, then `gone`. Its infrastructure is provisioned at most once
and released at most once. It is released only when the Cluster is deleting
and no child is left. Removal comes only after that release, or at once when
nothing was ever provisioned. `ClusterController` maps onto it as follows:

- the stored object gives the phase;
- `infra` is shared;
- the children that are `live` or `deleting` give `alive`.

The finalizer updates, actuator writes, cache events and the controller's
own bookkeeping are abstract stutters. `ClusterRefinement ==
Lifecycle!Spec` is checked as a temporal property. It covers both
`actuator.Delete` running only after the children are gone and nothing
being provisioned again.

### `ClusterClassWebhook` (clusterclass_webhook.go)

State:

- `stored` is the ClusterClass in the API server, or `None`;
- `gate` is the ClusterTopology feature gate of the running webhook;
- a history variable, `seenMDs`: every MachineDeployment class stored
  since the object's create.

A reference is a record of namespace, kind and apiVersion, or `Nil`. Two code
checks are abstracted to constant sets:

- "kind ends with template, ignoring case" is membership of `TemplateKinds`;
- "apiVersion parses" is membership of `ValidAPIs`.

Actions:

- `Create(s, m)` and `Update(s, m)` are admission requests. They apply
  `Default`, then `validate` with no old object or with the stored one, and
  store the defaulted object when it returns nil.
- `validate` keeps the code's order:
  - the gate check;
  - the validators' nil dereferences (`Panics`), since a panic rejects the
    request under `failurePolicy=fail`;
  - each validator's field errors.
- `Delete` is `ValidateDelete`, which accepts every delete.
- `SetGate` is a restart with the gate switched.

Rejected requests change nothing, so they are not steps of their own.

### `ProviderOperator` (part_005 50-296, part_003 MemoryRepository)

The operator's reconcile of one provider whose `fetchConfig.selector` picks
ConfigMaps, one per version.

State:
- `exists`, `deleting`, `spec` (`spec.version`, or `<<>>` for nil) and
  `status` (the Ready condition) are the provider object.
- `cms` maps each version to `"absent"`, `"nometa"` (a ConfigMap without its
  `metadata` key) or `"complete"`.
- `installed` records the components last applied, and whether `Install`
  finished.
- `pc`, `cond` and `err` are the running reconcile: it is before or at the
  deferred patch, with the condition and error it will patch and return.
- `queued` is the workqueue entry. `specChanges` and `faults` are bounds.

Versions are `<<major, minor, patch>>`. `Name` renders one as the bytes of
`v1.2.3`, and `ListByName` sorts ConfigMaps by `ByteLess` on those bytes.
That sort is the order the code's comment assumes. `DefaultVersion` is the
last of them, as `WithDefaultVersion(cm.Name)` in the loop leaves it.

Actions:
- `Reconcile` is `Reconcile` up to the deferred patch. It does nothing when
  the provider is gone and only patches when it is deleting. Otherwise it runs
  `reconcile`:
  - `RepoOK` is `configmapRepository`'s errors;
  - `Chosen` is `spec.version` or the default;
  - `GetFileOK` is `MemoryRepository.GetFile`;
  - `Install` covers `EnsureCustomResourceDefinitions` and cert-manager
    failing without a condition, `installer.Install` failing part way with
    Ready False, and success with Ready True.
- `Patch` is the deferred `patchHelper.Patch`. It may fail, and its error is
  aggregated into the result. An error requeues, and a changed status comes
  back as a watch event.
- The environment: `SetVersion`, `AddConfigMap`, `CompleteConfigMap`,
  `UserDelete` and `Removed` (garbage collection; there is no finalizer).
  Only the provider is watched, so ConfigMap changes enqueue nothing.
  `Resync` is the informer's periodic resync.

### `MachineController` (machine_controller_phases.go)

State:

- `mach` is the Machine: deletion timestamp, bootstrap data, the two ready
  flags, `nodeRef`, `errorReason` and the phase;
- `cfg` and `inf` are the bootstrap config and the infrastructure machine,
  each absent, live, deleting or gone, with ready, data, an error reason and
  whether the Machine owns it;
- `queued` is the workqueue entry;
- `faults` counts failed API calls.

Actions:

- `Reconcile` is `reconcileBootstrap` then `reconcileInfrastructure`, each
  through `reconcileExternal`, then the phase (`Phase`, lines 42-72) and the
  error returned (`ReturnErr`, lines 74-83).
  - `reconcileExternal` is a set of outcomes: `Get` fails; not found; delete
    a deleting Machine's object; patch the owner reference, which may fail;
    copy the error reason.
  - The Machine requeues on an error, or when its status changed, because the
    status patch is a watch event.
- The environment:
  - the providers create, fill and ready the objects, report errors, and
    remove deleted ones;
  - the user deletes the Machine;
  - the node joins (`NodeRefSet`);
  - `Resync` is the informer's periodic resync, present when `ResyncOn`. It
    matters because external objects are not watched (the TODO at line 87):
    only the Machine's own events enqueue it.

`MachinePhases` is the phase a user reads in `Status.Phase`. There is none
before the first reconcile. Then the phase moves forward only, through
Pending, Provisioning, Provisioned and Running, and may skip some. Failed is
left only for Deleting, and Deleting is shown only for a deleted Machine and
is final. `Phases == INSTANCE MachinePhases WITH phase <- mach.phase,
deleting <- mach.deleting`, and `PhaseRefinement == Phases!Spec` is checked
as a temporal property. It holds only because every input of the phase chain
is sticky:

- `InfrastructureReady` is never reset;
- `getExternalErrors` only ever sets `ErrorReason`;
- a cleared `BootstrapReady` leaves the phase it had.

### `KubeadmBootstrap` (part_006, part_005, machine_controller_phases.go)

State:

- each machine has a KubeadmConfig with `cfgReady` and `cfgData` (none, init or join), as patched to the API server;
- `pending[m]` is the data a reconcile has generated but not yet patched;
- `pc[m]` is the reconcile's position, so that several reconciles (at most `Workers`) interleave;
- `locked` is `myInitLocker`;
- `machineData`, `machineInfra` and `phase` are the Machine's status;
- the environment's state is `clusterInfra`, `cpInit`, `infraProv` and `nodeRef`.

Actions:

- `Reconcile(m)` is the early-return switch of `Reconcile` (lines 193-305).
  It reads `ControlPlaneInitialized` once. A machine for which the control
  plane is not initialized goes on to `Lock`. Otherwise the reconcile calls
  `Unlock` (line 305) and goes on to join.
- `Lock(m)` is lines 335-347. `InitGen(m)` is the generation in lines
  349-421, where an error unlocks through the deferred function. `JoinGen(m)`
  is `joinWorker` or `joinControlplane`.
- `Patch(m)` is the deferred patch (276-288), which may fail. A failure loses
  the generated data but not the lock.
- `MachineReconcile(m)` is `ReconcileMachine.reconcile` with
  `reconcileBootstrap`, `reconcileInfrastructure` and the phase rules.
- `ClusterInfraReady`, `InfraMachineReady`, `NodeJoins` and
  `ControlPlaneInitialized` are the environment: other controllers and kubelet.
- `Provisioned` is the stutter step of the final state, in which every machine
  is ready and running. The system is meant to stop there; every other state
  has a step.

### `ObjectGraph` and `ObjectMover` (spec 4.3, 4.5; tests in part_002)

The graph builder and the mover are not in `src/`: `unnamed/part_002` holds
only their tests. Both modules are written from the spec, and every
definition is marked `spec_modelled` in the map. The tests fix the
semantics the spec leaves open:

- the principal owns the infrastructure cluster;
- the principal's tenants are those of its direct dependents;
- a template shared by two clusters lists both as tenants.

`ObjectGraph` has no state of its own. An object is a model value with a
constant kind, name and owner references, and a name is the sequence of
its dash-separated tokens. The operators are:

- `addObject(g, o)`: insert or promote `o`, and add each unseen owner as a
  `Virtual` node;
- `setSoftOwnership`: among the clusters whose name plus a suffix is the
  secret's name, the longest one owns the secret;
- `setClusterTenants`: from each cluster, the RECURSIVE breadth-first walk
  `Reach` over reverse edges;
- `setClusterPrincipalTenants`: a principal gets the union of its
  dependents' tenants.

Each is checked against a reference definition of the same result:

- `RefGraph` is the graph of all listed objects built at once;
- `RefTenants` gives the ancestors in a transitive closure (`Closure`, a
  fixpoint over pairs), in place of the walk.

`ObjectMover` is one `move` at a time (spec 5).

State:

- `orig`, `src` and `dst`: the objects at the start, at the source and at
  the destination;
- `srcPaused` and `dstPaused`: the clusters carrying the paused annotation;
- `pc`: the step the invocation is at;
- `seen` and `graph`: the discovery so far;
- `toCreate` and `toDelete`: the partition;
- `outcome`;
- fault and crash counters.

Actions:

- `Start` is the user's `move`, first or after an error.
- `AddObject(o)` is discovery, in any list order.
- `Plan` runs the three passes and `Partition`. A node whose tenants are all
  in the batch is created and deleted. A principal with a tenant in the
  batch is created only. Any other node shared with a cluster outside the
  batch ends the invocation with `SharedNodeAcrossBatches`.
- `Pause` is step 4, `Create(o)` step 5 and `Delete(o)` step 6.
  - `Create(o)` requires o's owners in the batch, explicit and soft, to be at
    the destination already. It skips an object already there. The copy
    carries the source's paused annotation.
  - `Delete(o)` requires that no remaining batch object names o as an
    owner.
- `CreatedAll` ends step 5.
- `Unpause` is step 7.
- `Pause`, `Create` and `Delete` may fail with a `Transient` error past its
  retries. `Abort` then ends the invocation and releases the source's pause
  (spec 9: "release guaranteed on any exit path").
- `Crash` ends it anywhere and releases nothing.

Re-running after a failure shows a gap inside the spec. A principal's
tenants are those of its dependents (4.3.5), and a move of both clusters
deletes the principal after its dependents. If the move fails between
those deletions, the re-run sees the principal as an orphan and leaves it
at the source for good. After a crash at that point, the re-run also has
no cluster to unpause, so the destination clusters stay paused. Spec
4.5.3 says the re-run converges. `MoveConverges` therefore claims
convergence for every object except a principal. The hazard at
part_002:1325 records the rest.

## Runs

| Run | Config | Expect | Shows |
|---|---|---|---|
| upgrade | `MCUpgrader.cfg` | pass | A successful `ApplyPlan` of a planned contract, or a successful `ApplyCustomPlan`, keeps every provider recorded and the inventory equal to the installed components (`SuccessKeepsProviders`). The upgrader refines `UpgradeAbstract` (`UpgradeRefinement`): a query changes nothing, and an upgrade that succeeds keeps a group on one contract and records only released versions. This includes custom plans that would leave a member lagging. |
| upgrade_apply_any_contract | `MCUpgrader_applyany.cfg` | violation | `ApplyPlan` with a contract that Plan dropped as partial upgrades some providers and reports success with mixed contracts. |
| plan_missing_series | `MCUpgrader_nilwrap.cfg` | violation | When the core version has no release series, `Plan` returns no plans and no error (the `Wrapf(nil)` at line 115). |
| cluster_deletion | `MCClusterController.cfg` | pass | With a stale cache and up to two actuator writes, faults and restarts, the controller refines `ClusterLifecycle` (`ClusterRefinement`): `actuator.Delete` runs only when no child exists, the infrastructure is never provisioned again after it, the object leaves the API server only after the infrastructure is released. Every deleted Cluster is eventually removed (`DeletionCompletes`). |
| clusterclass_admission | `MCClusterClassWebhook.cfg` | pass | Over any sequence of admitted requests, the stored ClusterClass keeps every MachineDeployment class ever stored, unchanged, and never holds a nil reference (`MachineDeploymentClassesKept`, `TypeOK`). |
| provider_install | `MCProviderOperator.cfg` | pass | Through failed installs, failed status patches, a ConfigMap created later or without metadata (neither is watched) and a `spec.version` change, the provider settles Ready with its chosen version fully installed. |
| provider_default_version | `MCProviderOperator_default.cfg` | violation | With ConfigMaps `v0.3.9` and `v0.3.10` and no `spec.version`, the provider is installed and Ready at `v0.3.9`: byte order of names is not version order, against the comment at part_005:162-163. |
| bootstrap | `MCKubeadmBootstrap.cfg` | pass | With one worker, so that reconciles are serialised, at most one machine gets init data, even with failing generations and patches. |
| bootstrap_liveness | `MCKubeadmBootstrap_live.cfg` | pass | Under fair scheduling, the control plane initializes and every config becomes ready, even with generation failures. |
| bootstrap_concurrent | `MCKubeadmBootstrap_concurrent.cfg` | violation | With two workers, a joiner's unconditional `Unlock` lets a second control-plane machine initialize. |
| object_move | `MCObjectMover.cfg` | pass | Discovery in every order builds the graph and tenants the listed objects define (virtual owners, longest-name soft ownership, principal tenants). Through a transient error and a crash with re-runs, owner references resolve on both sides. A node leaves the source only when all its tenants are in the batch, so an orphan never moves. Every object but the principal converges. |
| machine_lifecycle | `MCMachineController.cfg` | pass | Through failed `Get`s and patches and objects that appear late, a Machine reaches Running, Failed or Deleting. Bootstrap data is copied only from a config the Machine owns. A deleted Machine's infrastructure is eventually removed. Both hold without the informer resync, on the code's own requeues. If the resync is fair, an infrastructure error reported after Running reaches the Machine. The phase refines `MachinePhases` (`PhaseRefinement`): it only moves forward, and Failed is left only for Deleting. |

Each property of a passing run is broken by a mutant listed in `PROJECT.json`:
a plausible bug in one mapped definition.

## Bounds

- **Upgrader:**
  - Three providers: core, bootstrap and infrastructure.
  - Three versions and two contracts. Each provider has releases on both
    contracts, except that the bootstrap provider has no release 3.
  - At most one transient fault.
  - These bounds cover every interesting case:
    - a plan for the current contract and one for a newer contract;
    - a provider that has nothing to upgrade;
    - a partial contract switch;
    - a custom plan that lags;
    - a failure at each `doUpgrade` step.
- **ClusterController:**
  - Two children, which are enough for one to be already deleting while the
    other is live.
  - `RetrySteps = 5`, the code's value.
  - Two transient faults, two restarts, and two writes of the Cluster by
    the actuator. A write is what makes the cached copy stale at the
    finalizer removal. With two of each, a second write or fault can come
    after the retry that the first one caused, and a restart can come in
    the re-run that follows a restart.
  - 82k states.
- **ClusterClassWebhook:**
  - Specs combine three infrastructure references (own namespace, empty
    namespace, nil) with four control-plane references (two valid, one in
    another namespace, one that is not a template).
  - Up to two of five MachineDeployment classes. They cover two definitions
    of class `a`, a valid `b`, a `b` with a bad apiVersion, and a `b` with a
    nil reference.
  - Together these give every validator a case that fails and one that
    passes, duplicate classes, redefinition, removal and defaulting.
- **ProviderOperator:**
  - Versions v0.3.9, v0.3.10 and v0.4.0. The first two sort in the wrong
    order by name. The third is created later, so a new default appears
    without a watch event.
  - The initial ConfigMaps may lack metadata. One change of `spec.version`,
    and two transient faults, so that a failed install can be followed by a
    failed patch.
  - 2.7k states.
- **KubeadmBootstrap:**
  - Two control-plane machines, both configured with InitConfiguration, so
    that they can compete for init.
  - One or two workers, one of which has preset data (`PresetData`, the
    "bootstrap data already set" branch).
  - At most one generation fault and one patch fault. Each fault path is taken
    at least once, including the lock held across a failed patch.

- **ObjectMover:**
  - Clusters `foo` (c1) and `foo-etcd` (c2), each with an infrastructure
    cluster owned by it and by one principal, as in the test "Two cluster
    with the same principal".
  - Secret `foo-etcd-ca` matches both clusters under the suffixes `etcd-ca`
    and `ca`, and owns up to an object no list returns (a virtual node).
  - A source with and without a template owned by both infrastructure
    clusters: with it, a move of c2 alone is refused.
  - An orphan secret `bar-ca` (o1), which no cluster's name prefixes, in
    the source without the template. It has no tenants and must stay.
  - Batches `{c2}` (the principal stays) and `{c1, c2}` (it moves).
  - One transient fault and one crash: every step can fail, and a re-run
    follows each failure.
  - 48k states, about two and a half minutes, most of it liveness checking.

- **MachineController:**
  - The bootstrap config and the infrastructure machine each start absent or
    live, so that the Machine sees both a late provider and one already done.
  - Three faults. That is enough for a failed owner-reference patch and a
    failed `Get`, followed by a failed `Delete` of a deleting Machine's
    object.
  - 7.7k states.

## Fairness

`KubeadmBootstrap` assumes weak fairness of each machine's reconcile steps,
of the machine controller and of the environment. The justification is that
controller-runtime requeues every reconcile that returns an error or a
`RequeueAfter` (the lock path requeues every 30 s), and that watches on the
Cluster and the Machine trigger reconciles whenever the environment changes.
Faults are bounded, so a retried step eventually succeeds.

`ClusterController` assumes weak fairness of the controller's steps, of the
informer's delivery of events (`CacheSync`), of the garbage collector, and of
the children's own deletion. The workqueue runs a queued key, and an error or
`Requeue` re-adds it. The liveness property also relies on the bound on
actuator writes. An actuator that wrote the Cluster on every `Delete` could,
with every retry beating the informer, keep the finalizer removal conflicting
forever. `ProviderOperator` assumes weak fairness of the reconcile and the patch
(workqueue), of the informer resync, and of the garbage collector. It also
assumes the user eventually adds a ConfigMap's missing metadata. Resync is
needed: a ConfigMap created after a successful reconcile changes the default
version, but nothing watches ConfigMaps. The manager's cache resyncs on its
`SyncPeriod` (controller-runtime's default applies, since the operator's
main is not in `src/`). This resync would also re-run a reconcile whose requeue was lost, so
`EventuallyReady` does not catch a missing requeue after a failed install or
patch. `MachineController` assumes weak fairness of the reconcile, of the
providers' steps and of the node joining, but not of the resync. The resync
action is present, but `EventuallyRunning` and `InfraReleased` hold on the
code's own `RequeueAfter`s and Machine events alone, so a missing requeue
breaks them. `InfraErrorSurfaces` takes `WF_vars(Resync)` as its hypothesis.
Without a resync, an error reported by the infrastructure after the Machine is
Running never reaches the Machine, because external objects are not watched. `Upgrader` is a
command-line tool with no liveness claim. `ObjectMover` assumes weak fairness
of the steps of a running invocation and of the user's re-run after an error
(4.5.3). A crash is bounded and has no fairness. An invocation that ends
`ok` or `SharedNodeAcrossBatches` is final (`Finished`).

## Not modelled, and why

- Several management groups are not modelled. Groups are independent except
  for the nil-wrap path, which one group already shows.
- Contents of the generated cloud-init, files and discovery settings are not
  modelled; they are data with no effect on control.
- In `ObjectMover`: namespaces, `TargetMissingProvider`,
  `ConflictAtDestination` and `OwnerIdentityMismatch`, which are checks with
  no state of their own; the rewrite of owner-reference UIDs at the
  destination; the round trip of spec property 7; and per-call retries, of
  which only the exhaustion (`Transient`) is a step.
- In `ProviderOperator`, `preflightChecks` (not under `src/`), the
  unknown-provider branch, the secret reader and the GitHub repository are
  left out; so are `NewComponents` errors. The list order of ConfigMaps from
  the cache is taken to be by name, the order the comment assumes. That is
  the best case for the code: the finding holds even there.
- Test doubles, generated code, cloud I/O and docs are not modelled.

## Plan for the next modules

1. `ProviderOperator`: the preflight checks among several providers, when
   their source is available.
2. `ObjectMover`: a second batch moved after the first, and the move back
   (spec property 7).
3. The memory repository's `defaultVersion` and `latest` resolution.
