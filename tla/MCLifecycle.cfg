\* OpenShift: two CRs one after the other, objects edited and deleted behind
\* the operator's back, a failing JobSetOperator, platform version changes.
SPECIFICATION Spec
CONSTANTS
  b1 = b1 b2 = b2 v1 = v1 boot1 = boot1 boot2 = boot2
  None = none Drifted = drifted Absent = absent
  BadVersion = bad NoVersion = nover NoConfigMap = nocm NoRelease = norel
  Rank <- MCRank Described = {b1} BootRelease <- Boot
  Objects = {"crd", "svc", "dep", "rt", "is"}
  Runtimes = {"rt"} Deployments = {"dep"} Webhooks = {} CRDs = {"crd"}
  ImageStreams = {"is"} Kept = {"crd"} Watched = {"svc", "dep"}
  Namespaced = {"svc", "dep", "is"} Drifting = {"svc", "dep"}
  Builds = {b1} FirstBuild = b1 Manifests <- OneManifest Clash <- NoClash
  LegacyBuilds = {} Versions = {v1}
  OpenShift = TRUE DepStates <- OperatorFails FirstDeps <- Ready
  MaxUid = 2 MaxGen = 2 MaxFaults = 1 MaxEnv = 4
INVARIANTS TypeOK PassInvariant NoOrphans SettledStatus SettledDeployed SettledDependencies
PROPERTIES GCKeepsRendered ImplementsProtocol
CHECK_DEADLOCK FALSE
