\* The CR is deleted while the operator is rolled from one build to the next.
SPECIFICATION RolloutSpec
CONSTANTS
  b1 = b1 b2 = b2 v1 = v1 boot1 = boot1 boot2 = boot2 NewBuild = b2
  None = none Drifted = drifted Absent = absent
  BadVersion = bad NoVersion = nover NoConfigMap = nocm NoRelease = norel
  Rank <- MCRank Described = {b1, b2} BootRelease <- Boot
  Objects = {"crd", "dep", "rt"}
  Runtimes = {"rt"} Deployments = {"dep"} Webhooks = {} CRDs = {"crd"}
  ImageStreams = {} Kept = {"crd"} Watched = {"dep"}
  Namespaced = {"dep"} Drifting = {}
  Builds = {b1, b2} FirstBuild = b1 Manifests <- DropsRole Clash <- NoClash
  LegacyBuilds = {} Versions = {}
  OpenShift = FALSE DepStates <- OneDepState FirstDeps <- Ready
  MaxUid = 1 MaxGen = 1 MaxFaults = 0 MaxEnv = 3
INVARIANTS NothingLeftAfterRollout
CHECK_DEADLOCK FALSE
