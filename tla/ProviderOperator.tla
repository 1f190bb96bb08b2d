--------------------------- MODULE ProviderOperator ---------------------------
(***************************************************************************)
(* The operator's GenericProviderReconciler (unnamed/part_005 50-330) for   *)
(* one provider whose components come from ConfigMaps selected by          *)
(* spec.fetchConfig.selector, with the MemoryRepository it builds          *)
(* (unnamed/part_003).  A ConfigMap is named after its version ("v1.2.3"); *)
(* the repository's default version is the name of the last ConfigMap in   *)
(* list order, which the model takes to be byte order of the names.        *)
(*                                                                         *)
(* One reconcile of the provider runs at a time: Reconcile is the work up   *)
(* to installer.Install and the Ready condition it sets, Patch the         *)
(* deferred patch of the provider.                                         *)
(***************************************************************************)
EXTENDS Naturals, Sequences, SequencesExt

CONSTANTS
    Versions,           \* versions as <<major, minor, patch>>
    InitialCMs,         \* versions with a ConfigMap at the start
    Added,              \* versions whose ConfigMap may be created later
    SpecVersions,       \* values spec.version is set to
    MaxSpecChanges, MaxFaults

NoVersion == <<>>      \* spec.version is nil

ASSUME InitialCMs \cup Added \subseteq Versions /\ SpecVersions \subseteq Versions

VARIABLES
    exists, deleting, spec, status,   \* the provider object
    cms,        \* per version: "absent" | "nometa" (no metadata key) | "complete"
    installed,  \* [ver, ok]: the components last applied, ok if Install succeeded
    pc,         \* "idle" | "patch"
    cond, err,  \* the Ready condition and error of the running reconcile
    queued, specChanges, faults

vars == <<exists, deleting, spec, status, cms, installed, pc, cond, err,
          queued, specChanges, faults>>

(***************************************************************************)
(* Names and their byte order.                                             *)
(***************************************************************************)
RECURSIVE Digits(_)
Digits(n) == IF n < 10 THEN <<48 + n>> ELSE Digits(n \div 10) \o <<48 + (n % 10)>>

\* "v" major "." minor "." patch, as bytes.
Name(v) == <<118>> \o Digits(v[1]) \o <<46>> \o Digits(v[2]) \o <<46>> \o Digits(v[3])

RECURSIVE ByteLess(_, _)
ByteLess(a, b) ==
    IF a = <<>> THEN b # <<>>
    ELSE IF b = <<>> THEN FALSE
    ELSE IF Head(a) # Head(b) THEN Head(a) < Head(b)
    ELSE ByteLess(Tail(a), Tail(b))

\* The ConfigMaps returned by List, ordered by name.
ListByName(S) == SetToSortSeq(S, LAMBDA a, b : ByteLess(Name(a), Name(b)))

SemverLess(a, b) ==
    \/ a[1] < b[1]
    \/ a[1] = b[1] /\ a[2] < b[2]
    \/ a[1] = b[1] /\ a[2] = b[2] /\ a[3] < b[3]

Highest(S) == CHOOSE v \in S : \A w \in S : w = v \/ SemverLess(w, v)

(***************************************************************************)
(* configmapRepository and the MemoryRepository it fills.                  *)
(***************************************************************************)
Listed == {v \in Versions : cms[v] # "absent"}

\* No ConfigMap, or one without metadata or components, is an error.
RepoOK == Listed # {} /\ \A v \in Listed : cms[v] = "complete"

\* WithDefaultVersion(cm.Name) for each ConfigMap in list order: the last.
DefaultVersion == Last(ListByName(Listed))

\* options.Version: spec.version if set, else repo.DefaultVersion().
Chosen == IF spec # NoVersion THEN spec ELSE DefaultVersion

\* MemoryRepository.GetFile: the version must be one WithFile added.
GetFileOK(v) == v \in Listed

Transient == faults < MaxFaults /\ faults' = faults + 1

InstallNoReady(v) ==
    \/ installed' = [ver |-> v, ok |-> TRUE] /\ cond' = status /\ err' = FALSE
       /\ UNCHANGED faults
    \/ Transient /\ UNCHANGED <<installed, cond>> /\ err' = TRUE
    \/ Transient /\ installed' = [ver |-> v, ok |-> FALSE]
       /\ cond' = "False" /\ err' = TRUE

\* The steps of reconcile after GetFile: EnsureCustomResourceDefinitions and
\* cert-manager's EnsureInstalled fail without touching the condition;
\* installer.Install may fail after applying part of the components and
\* sets Ready False; success sets Ready True.
Install(v) ==
    \/ installed' = [ver |-> v, ok |-> TRUE] /\ cond' = "True" /\ err' = FALSE
       /\ UNCHANGED faults
    \/ Transient /\ UNCHANGED <<installed, cond>> /\ err' = TRUE
    \/ Transient /\ installed' = [ver |-> v, ok |-> FALSE]
       /\ cond' = "False" /\ err' = TRUE

\* GenericProviderReconciler.reconcile, from the repository on.
reconcileProvider ==
    IF ~RepoOK \/ ~GetFileOK(Chosen)
    THEN cond' = status /\ err' = TRUE /\ UNCHANGED <<installed, faults>>
    ELSE Install(Chosen)

\* Reconcile: Get, then nothing for a deleted provider, else reconcile;
\* the deferred patch follows.
Reconcile ==
    /\ pc = "idle" /\ queued /\ queued' = FALSE
    /\ \/ ~exists /\ UNCHANGED <<pc, cond, err, installed, faults>>
       \/ exists /\ deleting /\ pc' = "patch" /\ cond' = status /\ err' = FALSE
          /\ UNCHANGED <<installed, faults>>
       \/ exists /\ ~deleting /\ pc' = "patch" /\ reconcileProvider
    /\ UNCHANGED <<exists, deleting, spec, status, cms, specChanges>>

\* patchHelper.Patch: writes the Ready condition when it changed; a failed
\* patch is added to the returned error.  An error requeues; a status
\* change comes back as a watch event.
Patch ==
    /\ pc = "patch" /\ pc' = "idle"
    /\ \/ /\ exists /\ status' = cond /\ UNCHANGED faults
          /\ queued' = (queued \/ err \/ cond # status)
       \/ ~exists /\ UNCHANGED <<status, faults>> /\ queued' = TRUE
       \/ exists /\ Transient /\ UNCHANGED status /\ queued' = TRUE
    /\ UNCHANGED <<exists, deleting, spec, cms, installed, cond, err, specChanges>>

(***************************************************************************)
(* The environment.  ConfigMaps are not watched (SetupWithManager watches  *)
(* only the provider), so creating or fixing one enqueues nothing; the     *)
(* informer's periodic resync enqueues the provider.                       *)
(***************************************************************************)
SetVersion(v) ==
    /\ exists /\ ~deleting /\ specChanges < MaxSpecChanges /\ spec # v
    /\ spec' = v /\ specChanges' = specChanges + 1 /\ queued' = TRUE
    /\ UNCHANGED <<exists, deleting, status, cms, installed, pc, cond, err, faults>>

AddConfigMap(v) ==
    /\ v \in Added /\ cms[v] = "absent"
    /\ \E s \in {"nometa", "complete"} : cms' = [cms EXCEPT ![v] = s]
    /\ UNCHANGED <<exists, deleting, spec, status, installed, pc, cond, err, queued, specChanges, faults>>

CompleteConfigMap(v) ==
    /\ cms[v] = "nometa" /\ cms' = [cms EXCEPT ![v] = "complete"]
    /\ UNCHANGED <<exists, deleting, spec, status, installed, pc, cond, err, queued, specChanges, faults>>

UserDelete ==
    /\ exists /\ ~deleting /\ deleting' = TRUE /\ queued' = TRUE
    /\ UNCHANGED <<exists, spec, status, cms, installed, pc, cond, err, specChanges, faults>>

\* The garbage collector removes the provider (no finalizers).
Removed ==
    /\ exists /\ deleting /\ exists' = FALSE /\ queued' = TRUE
    /\ UNCHANGED <<deleting, spec, status, cms, installed, pc, cond, err, specChanges, faults>>

Resync ==
    /\ exists /\ ~queued /\ queued' = TRUE
    /\ UNCHANGED <<exists, deleting, spec, status, cms, installed, pc, cond, err, specChanges, faults>>

\* The provider is gone and nothing is left to do.
Quiesced == ~exists /\ pc = "idle" /\ ~queued /\ UNCHANGED vars

Init ==
    /\ exists = TRUE /\ deleting = FALSE /\ spec = NoVersion /\ status = "Unknown"
    /\ cms \in {f \in [Versions -> {"absent", "nometa", "complete"}] :
                  \A v \in Versions : (f[v] = "absent") = (v \notin InitialCMs)}
    /\ installed = [ver |-> NoVersion, ok |-> FALSE]
    /\ pc = "idle" /\ cond = "Unknown" /\ err = FALSE
    /\ queued = TRUE /\ specChanges = 0 /\ faults = 0

Next ==
    \/ Reconcile \/ Patch
    \/ \E v \in SpecVersions : SetVersion(v)
    \/ \E v \in Versions : AddConfigMap(v) \/ CompleteConfigMap(v)
    \/ UserDelete \/ Removed \/ Resync \/ Quiesced

\* The workqueue runs the queued provider; the resync period (10 hours by
\* default) keeps coming; the user eventually fixes a ConfigMap without
\* metadata; the garbage collector removes a deleted provider.
Fairness ==
    /\ WF_vars(Reconcile) /\ WF_vars(Patch) /\ WF_vars(Resync) /\ WF_vars(Removed)
    /\ \A v \in Versions : WF_vars(CompleteConfigMap(v))

Spec == Init /\ [][Next]_vars /\ Fairness

-----------------------------------------------------------------------------

\* A live provider eventually settles Ready with the components of the
\* version it asks for (spec.version, or the repository's default) fully
\* installed, through failed installs, failed patches, ConfigMaps created
\* or fixed later without a watch, and spec changes.
EventuallyReady ==
    <>[](~exists \/ deleting
         \/ (status = "True" /\ installed = [ver |-> Chosen, ok |-> TRUE]))

\* The comment in configmapRepository: with the ConfigMaps ordered by name
\* (version), the default is the highest version; so a provider without
\* spec.version that reports Ready runs the highest version it was offered.
DefaultIsHighest ==
    (spec = NoVersion /\ status = "True" /\ Listed # {})
        => installed.ver = Highest(Listed)

=============================================================================
