\* The operand is gone, its webhook configuration is not, and a runtime still has the legacy finalizer.
SPECIFICATION FairSpec
CONSTANTS
  b1 = b1 b2 = b2 v1 = v1 boot1 = boot1 boot2 = boot2
  None = none Drifted = drifted Absent = absent
  BadVersion = bad NoVersion = nover NoConfigMap = nocm NoRelease = norel
  Rank <- MCRank Described = {b1} BootRelease <- Boot
  Objects = {"crd", "dep", "rt", "vwc"}
  Runtimes = {"rt"} Deployments = {"dep"} Webhooks = {"vwc"} CRDs = {"crd"}
  ImageStreams = {} Kept = {"crd"} Watched = {"dep", "vwc"}
  Namespaced = {"dep"} Drifting = {}
  Builds = {b1} FirstBuild = b1 Manifests <- OneManifest Clash <- NoClash
  LegacyBuilds = {b1} Versions = {}
  OpenShift = FALSE DepStates <- OneDepState
  FirstDeps <- Ready
  MaxUid = 1 MaxGen = 1 MaxFaults = 0 MaxEnv = 4
PROPERTIES DeletionCompletes
CHECK_DEADLOCK FALSE
