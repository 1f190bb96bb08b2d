------------------------- MODULE ClusterClassWebhook -------------------------
(***************************************************************************)
(* The ClusterClass admission webhooks (api/v1alpha4/clusterclass_webhook.go)*)
(* over a sequence of requests for one ClusterClass.  The API server runs   *)
(* the mutating webhook (Default) and then the validating one               *)
(* (ValidateCreate / ValidateUpdate / ValidateDelete); failurePolicy=fail,   *)
(* so a request is stored only when validate returns nil, and a panic of    *)
(* the webhook rejects it.                                                  *)
(*                                                                         *)
(* A reference is a record [ns, kind, api] or Nil; a kind's "ends with     *)
(* template, ignoring case" and an apiVersion's "parses as a group/version" *)
(* are the sets TemplateKinds and ValidAPIs.  Metadata (labels, owner       *)
(* references, finalizers) is a member of Metas.                           *)
(***************************************************************************)
EXTENDS Naturals, Sequences, FiniteSets

CONSTANTS
    Namespaces,     \* namespace values a reference can carry, "" included
    NS,             \* metadata.namespace of the ClusterClass
    Nil,            \* a nil *corev1.ObjectReference
    Kinds, TemplateKinds,
    APIs, ValidAPIs,   \* "" is the empty apiVersion
    Specs,          \* the specs requests carry
    Metas           \* the metadata requests carry

None == [exists |-> FALSE]

VARIABLES
    stored,   \* the ClusterClass in the API server, or None
    gate,     \* the ClusterTopology feature gate of the running webhook
    seenMDs   \* every MachineDeployment class stored since that Create

vars == <<stored, gate, seenMDs>>

Refs(s) == {s.infra, s.cp} \cup UNION {{s.mds[i].bootstrap, s.mds[i].infraRef} : i \in 1..Len(s.mds)}
MDSet(s) == {s.mds[i] : i \in 1..Len(s.mds)}
ClassNames(s) == {s.mds[i].class : i \in 1..Len(s.mds)}

\* Default: every non-nil reference with an empty namespace gets the
\* object's namespace.
DefaultRef(r) == IF r # Nil /\ r.ns = "" THEN [r EXCEPT !.ns = NS] ELSE r
Default(s) ==
    [s EXCEPT !.infra = DefaultRef(@), !.cp = DefaultRef(@),
              !.mds = [i \in 1..Len(@) |->
                         [@[i] EXCEPT !.bootstrap = DefaultRef(@),
                                      !.infraRef = DefaultRef(@)]]]

\* The validators dereference every reference without a nil check.
PanicsNever(s) == FALSE
Panics(s) == Nil \in Refs(s)

\* Each validator returns the references (or classes) it reports.
validateRefNamespace(s) == {r \in Refs(s) \ {Nil} : r.ns # NS}
validateRefTemplates(s) == {r \in Refs(s) \ {Nil} : r.kind \notin TemplateKinds}
validateRefAPIVersions(s) == {r \in Refs(s) \ {Nil} : r.api # "" /\ r.api \notin ValidAPIs}

\* Classes defined more than once and, on update, old classes missing.
validateMachineDeploymentsKeepAll(s, old) ==
    {s.mds[i].class : i \in {i \in 1..Len(s.mds) :
        \E j \in 1..(i - 1) : s.mds[j].class = s.mds[i].class}}

validateMachineDeployments(s, old) ==
    {s.mds[i].class : i \in {i \in 1..Len(s.mds) :
        \E j \in 1..(i - 1) : s.mds[j].class = s.mds[i].class}}
    \cup (IF old = None THEN {} ELSE ClassNames(old.spec) \ ClassNames(s))

\* On update: infrastructure, control plane and every class kept under its
\* name must be deeply equal to the old ones.
Changed(s, old) ==
    {md.class : md \in {md \in MDSet(s) :
        \E o \in MDSet(old.spec) : o.class = md.class /\ o # md}}

validateAdditionalChanges(s, old) ==
    IF old = None THEN {}
    ELSE (IF s.infra # old.spec.infra THEN {"infrastructure"} ELSE {})
         \cup (IF s.cp # old.spec.cp THEN {"controlPlane"} ELSE {})
         \cup Changed(s, old)

\* validate(old) on the defaulted object: "forbidden" when the feature gate
\* is off, "panic" on a nil reference, "invalid" with any field error.
validate(s, old) ==
    IF ~gate THEN "forbidden"
    ELSE IF Panics(s) THEN "panic"
    ELSE IF validateRefNamespace(s) \cup validateRefTemplates(s)
            \cup validateRefAPIVersions(s) = {}
            /\ validateMachineDeployments(s, old) \cup validateAdditionalChanges(s, old) = {}
         THEN "ok" ELSE "invalid"

\* A create request: Default, then ValidateCreate (validate(nil)).
Create(s, m) ==
    LET d == Default(s) IN
    /\ stored = None /\ validate(d, None) = "ok"
    /\ stored' = [exists |-> TRUE, spec |-> d, meta |-> m]
    /\ seenMDs' = MDSet(d)
    /\ UNCHANGED gate

\* An update request: Default, then ValidateUpdate (validate(old)).
Update(s, m) ==
    LET d == Default(s) IN
    /\ stored # None /\ validate(d, stored) = "ok"
    /\ stored' = [exists |-> TRUE, spec |-> d, meta |-> m]
    /\ seenMDs' = seenMDs \cup MDSet(d)
    /\ UNCHANGED gate

\* ValidateDelete accepts every delete.
Delete ==
    /\ stored # None /\ stored' = None
    /\ UNCHANGED <<gate, seenMDs>>

\* The manager restarts with the feature gate switched.
SetGate == gate' = ~gate /\ UNCHANGED <<stored, seenMDs>>

Init == stored = None /\ gate = TRUE /\ seenMDs = {}

Next ==
    \/ \E s \in Specs, m \in Metas : Create(s, m) \/ Update(s, m)
    \/ Delete \/ SetGate

Spec == Init /\ [][Next]_vars

-----------------------------------------------------------------------------

RefT == [ns : Namespaces, kind : Kinds, api : APIs]
MDT == [class : STRING, bootstrap : RefT, infraRef : RefT]
SpecT == [infra : RefT, cp : RefT, mds : Seq(MDT)]

\* A stored ClusterClass has a pointer behind every reference.
TypeOK ==
    /\ gate \in BOOLEAN
    /\ stored = None \/ stored \in [exists : {TRUE}, spec : SpecT, meta : Metas]
    /\ seenMDs \subseteq MDT

\* A MachineDeployment class, once stored, is never removed or redefined
\* while the object lives: validateMachineDeployments keeps the old class
\* names and validateAdditionalChanges keeps the definition under a name.
MachineDeploymentClassesKept == stored # None => seenMDs = MDSet(stored.spec)

=============================================================================
