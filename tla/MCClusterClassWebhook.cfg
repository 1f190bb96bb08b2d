SPECIFICATION Spec
CONSTANTS
    ns1 = ns1
    ns2 = ns2
    nilRef = nilRef
    Namespaces <- MCNamespaces
    NS = ns1
    Nil = nilRef
    Kinds <- MCKinds
    TemplateKinds <- MCTemplateKinds
    APIs <- MCAPIs
    ValidAPIs <- MCValidAPIs
    Specs <- MCSpecs
    Metas <- MCMetas
INVARIANTS
    TypeOK
    MachineDeploymentClassesKept
