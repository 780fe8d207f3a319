\* The platform version stays the same across an upgrade whose first pass fails.
SPECIFICATION Spec
CONSTANTS
  b1 = b1 b2 = b2 v1 = v1 boot1 = boot1 boot2 = boot2
  None = none Drifted = drifted Absent = absent
  BadVersion = bad NoVersion = nover NoConfigMap = nocm NoRelease = norel
  Rank <- MCRank Described = {b1, b2} BootRelease <- Boot
  Objects = {"crd", "role", "dep", "rt"}
  Runtimes = {"rt"} Deployments = {"dep"} Webhooks = {} CRDs = {"crd"}
  ImageStreams = {} Kept = {"crd"} Watched = {"dep"}
  Namespaced = {"dep"} Drifting = {}
  Builds = {b1, b2} FirstBuild = b1 Manifests <- DropsRole Clash <- DeploymentClash
  LegacyBuilds = {} Versions = {v1}
  OpenShift = FALSE DepStates <- OneDepState
  FirstDeps <- Ready
  MaxUid = 1 MaxGen = 1 MaxFaults = 0 MaxEnv = 3
INVARIANTS StaleCollected
CHECK_DEADLOCK FALSE
