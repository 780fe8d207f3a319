\* The second build replaces the first, or is itself replaced: it drops an
\* object, changes an immutable field of the Deployment and ships an operand
\* that no longer marks runtimes. The CR may be deleted at any point of it.
\* There is no platform ConfigMap: the release is the image's own.
SPECIFICATION FairSpec
CONSTANTS
  b1 = b1 b2 = b2 v1 = v1 boot1 = boot1 boot2 = boot2
  None = none Drifted = drifted Absent = absent
  BadVersion = bad NoVersion = nover NoConfigMap = nocm NoRelease = norel
  Rank <- MCRank Described = {b1} BootRelease <- Boot
  Objects = {"crd", "role", "dep", "rt", "vwc"}
  Runtimes = {"rt"} Deployments = {"dep"} Webhooks = {"vwc"} CRDs = {"crd"}
  ImageStreams = {} Kept = {"crd"} Watched = {"dep", "vwc"}
  Namespaced = {"dep"} Drifting = {}
  Builds = {b1, b2} FirstBuild = b1 Manifests <- DropsRole Clash <- DeploymentClash
  LegacyBuilds = {b1} Versions = {}
  OpenShift = FALSE DepStates <- OneDepState FirstDeps <- Ready
  MaxUid = 1 MaxGen = 1 MaxFaults = 1 MaxEnv = 4
INVARIANTS SettledFinalizers SettledDeployed StaleCollected RuntimesDeleted
PROPERTIES Converges DeletionUnblocked
CHECK_DEADLOCK FALSE
