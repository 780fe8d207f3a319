\* A request to delete a runtime fails during the finalizer.
SPECIFICATION Spec
CONSTANTS
  b1 = b1 b2 = b2 v1 = v1 boot1 = boot1 boot2 = boot2
  None = none Drifted = drifted Absent = absent
  BadVersion = bad NoVersion = nover NoConfigMap = nocm NoRelease = norel
  Rank <- MCRank Described = {b1} BootRelease <- Boot
  Objects = {"crd", "dep", "rt"}
  Runtimes = {"rt"} Deployments = {"dep"} Webhooks = {} CRDs = {"crd"}
  ImageStreams = {} Kept = {"crd"} Watched = {"dep"}
  Namespaced = {"dep"} Drifting = {}
  Builds = {b1} FirstBuild = b1 Manifests <- OneManifest Clash <- NoClash
  LegacyBuilds = {} Versions = {}
  OpenShift = FALSE DepStates <- OneDepState
  FirstDeps <- Ready
  MaxUid = 1 MaxGen = 1 MaxFaults = 1 MaxEnv = 2
INVARIANTS RuntimesGoneWithCR
CHECK_DEADLOCK FALSE
