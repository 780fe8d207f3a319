--------------------------- MODULE OperatorProcess ---------------------------
(***************************************************************************)
(* The life of the operator's process (cmd/main.go) around the cluster's   *)
(* TLS profile: it resolves the profile once (internal/tls/profile.go),    *)
(* serves its metrics and configures the operand from what it resolved     *)
(* (applyOperandTLSOptions of manifests.go, internal/tls/metrics.go), and  *)
(* stops when the watcher sees another profile, to be started again by the *)
(* kubelet. The Trainer CR is there throughout; of a pass only the render  *)
(* of the operand's configuration and the two objects it ends up in are    *)
(* modelled here, the rest is TrainerReconciler.                           *)
(***************************************************************************)
EXTENDS OperandTLS

CONSTANTS
  Profiles,        \* the profiles the cluster may be given
  Intermediate,    \* configv1.TLSProfiles[Intermediate], one of them
  UnknownType,     \* a profile of a type this build does not know
  Policies,        \* TLSAdherence values the cluster may be given
  HasAPIServer,    \* the cluster has the APIServer API: it is OpenShift
  MetricsCertPath, \* --metrics-cert-path is set
  Certs,           \* serving certificates, with their keys, one after another
  None, Absent, Edited, SelfSigned,
  MaxFaults, MaxEnv  \* bounds: failed requests and startups, acts of the environment

ASSUME ProfilesAssumption ==
  /\ Intermediate \in Profiles /\ UnknownType \notin Profiles /\ "NoOpinion" \in Policies
  /\ \A p \in Profiles : p.ciphers \in Seq(STRING) /\ p.groups \in Seq(STRING)

ASSUME BoundsAssumption == MaxFaults \in Nat /\ MaxEnv \in Nat

VARIABLES
  api,      \* spec of the APIServer "cluster": policy and profile
  allowed,  \* the operator's role may read it
  proc,     \* "starting", "resolved", "running", "stopping" or "down"
  result,   \* the Result of Resolve, in memory
  queue,    \* the CR's key is in the work queue
  pc,       \* the next object the pass applies, or "idle"
  cm,       \* the operand's configuration in its ConfigMap
  dep,      \* the hash annotation of the operand's Deployment
  pod,      \* what the operand's pod was started from
  mount,    \* the certificate in the mounted secret
  source,   \* where the metrics listener takes its certificate from
  crt,      \* the certificate file the handshake going on has read
  served,   \* how the last handshake ended
  faults, env

process == <<proc, result, queue, pc>>
operand == <<cm, dep, pod>>
metrics == <<mount, source, crt, served>>
vars == <<api, allowed, process, operand, metrics, faults, env>>

NoResult == [profile |-> None, honored |-> FALSE, adherence |-> None,
             fallback |-> FALSE, watchable |-> FALSE, effective |-> None]

Init ==
  /\ api = [policy |-> "NoOpinion", profile |-> Intermediate] /\ allowed = TRUE
  /\ proc = "starting" /\ result = NoResult /\ queue = FALSE /\ pc = "idle"
  /\ cm = Absent /\ dep = Absent /\ pod = None
  /\ mount = None /\ source = None /\ crt = None /\ served = None
  /\ faults = 0 /\ env = 0

Fault == faults < MaxFaults /\ faults' = faults + 1
EnvAct == env < MaxEnv /\ env' = env + 1

\* The process is gone, and with it all it had in memory.
Exits == /\ proc' = "down" /\ result' = NoResult /\ queue' = FALSE /\ pc' = "idle"
         /\ source' = None /\ crt' = None
         /\ UNCHANGED <<mount, served>>
-----------------------------------------------------------------------------
(* Resolve.                                                                *)

\* An unknown policy is honored. (External.)
ShouldHonorClusterTLSProfile(policy) == policy \notin {"NoOpinion", "Legacy"}

\* What LoadWithAdherence returns. (External.)
Loaded(spec, policy, fallback, watchable) ==
  [spec |-> spec, policy |-> policy, fallback |-> fallback, watchable |-> watchable]

Fallback(watchable) == Loaded(Intermediate, "NoOpinion", TRUE, watchable)

\* Mutant: a profile of unknown type is passed on.
LoadWithAdherence_AnyType ==
  IF ~HasAPIServer THEN {Fallback(FALSE)}
  ELSE IF ~allowed \/ (api.profile = UnknownType /\ ShouldHonorClusterTLSProfile(api.policy)) THEN {}
  ELSE {Loaded(api.profile, api.policy, FALSE, TRUE)}

\* When the answer arrives: a profile of unknown type is an error where it is
\* to be honored. (External.)
LoadWithAdherence ==
  IF ~HasAPIServer THEN {Fallback(FALSE)}
  ELSE IF ~allowed THEN {}
  ELSE IF api.profile # UnknownType THEN {Loaded(api.profile, api.policy, FALSE, TRUE)}
  ELSE IF ShouldHonorClusterTLSProfile(api.policy) THEN {}
  ELSE {Loaded(Intermediate, api.policy, FALSE, TRUE)}

\* ConfigFromProfileWithError succeeds: a known version, and of the suites
\* (below TLS 1.3) and groups that are listed at least one is supported.
\* (External.)
Buildable(p) ==
  /\ p.min \in DOMAIN operandMinVersions
  /\ \/ p.ciphers = <<>> \/ p.min = "VersionTLS13"
     \/ \E i \in 1..Len(p.ciphers) : \E id \in resolveCipherID(p.ciphers[i]) : goCipherName(id) # {}
  /\ p.groups = <<>> \/ SupportedGroups(p) # <<>>

Honored(policy, spec) == IF ShouldHonorClusterTLSProfile(policy) THEN spec ELSE Intermediate

ResultOf(l) == [profile |-> l.spec, honored |-> ShouldHonorClusterTLSProfile(l.policy),
                adherence |-> l.policy, fallback |-> l.fallback,
                watchable |-> l.watchable, effective |-> Honored(l.policy, l.spec)]

\* The bootstrap read of at most bootstrapTimeout. A transient error or the
\* timeout means the fallback, watched; what cannot be read, is not understood
\* or cannot be served although it is to be honored ends the process.
Resolve ==
  /\ proc = "starting"
  /\ \/ /\ \E l \in LoadWithAdherence :
             /\ Buildable(Honored(l.policy, l.spec))
             /\ proc' = "resolved" /\ result' = ResultOf(l)
        /\ UNCHANGED <<queue, pc, metrics, faults>>
     \/ /\ \A l \in LoadWithAdherence : ~Buildable(Honored(l.policy, l.spec))
        /\ Exits /\ UNCHANGED faults
     \/ /\ HasAPIServer /\ Fault
        /\ proc' = "resolved" /\ result' = ResultOf(Fallback(TRUE))
        /\ UNCHANGED <<queue, pc, metrics>>
  /\ UNCHANGED <<api, allowed, operand, env>>
-----------------------------------------------------------------------------
(* main, after Resolve.                                                    *)

\* Mutant: the files are looked at once, as controller-runtime would.
MetricsServerOptions_AtListen == IF MetricsCertPath /\ mount # None THEN "files" ELSE "selfsigned"

\* With a certificate path every handshake loads the files; without one the
\* listener makes a certificate of its own.
MetricsServerOptions == IF MetricsCertPath THEN "files" ELSE "selfsigned"

\* Manager, template paths, reconciler, health checks and watcher are set up,
\* then the manager starts: it listens for metrics and the CR is queued.
StartManager ==
  /\ proc = "resolved" /\ proc' = "running"
  /\ queue' = TRUE /\ source' = MetricsServerOptions
  /\ UNCHANGED <<api, allowed, result, pc, operand, mount, crt, served, faults, env>>

SetupFails ==
  /\ proc = "resolved" /\ Fault /\ Exits
  /\ UNCHANGED <<api, allowed, operand, env>>

\* mgr.Start returns once what was running has stopped.
Stopped ==
  /\ proc = "stopping" /\ Exits
  /\ UNCHANGED <<api, allowed, operand, faults, env>>

\* The kubelet starts the container again. (External.)
KubeletRestarts ==
  /\ proc = "down" /\ proc' = "starting"
  /\ UNCHANGED <<api, allowed, result, queue, pc, operand, metrics, faults, env>>

\* The process is killed.
Crash ==
  /\ EnvAct /\ proc # "down" /\ Exits
  /\ UNCHANGED <<api, allowed, operand, faults>>
-----------------------------------------------------------------------------
(* The watcher. Its first event is the initial list, so what changed since *)
(* Resolve counts as a change too.                                         *)

\* Mutant: there is no watcher after a fallback.
SetupWatcher_NotAfterFallback == result.watchable /\ ~result.fallback

SetupWatcher == result.watchable

\* The policy is compared always, the profile where it was honored or where
\* the fallback stands in for it.
newSecurityProfileWatcher ==
  \/ api.policy # result.adherence
  \/ (result.honored \/ result.fallback) /\ api.profile # result.profile

\* The watcher has something to cancel the manager for; it cannot compare a
\* profile it cannot read.
SeesChange == /\ proc = "running" /\ SetupWatcher
              /\ allowed /\ api.profile # UnknownType
              /\ newSecurityProfileWatcher

\* The pass that is running may still get on while the manager stops.
WatcherCancels ==
  /\ SeesChange /\ proc' = "stopping"
  /\ UNCHANGED <<api, allowed, result, queue, pc, operand, metrics, faults, env>>
-----------------------------------------------------------------------------
(* The pass: the operand's configuration.                                  *)

\* Mutant: the hash is of the template's configuration.
configHash_Template(config) == [sha256 |-> "controller_manager_config.yaml"]

\* SHA-256 of the marshalled configuration: different for different ones.
configHash(config) == [sha256 |-> config]

RenderedConfig == TranslateProfile(result.effective)

StartPass ==
  /\ proc = "running" /\ pc = "idle" /\ queue
  /\ queue' = FALSE
  /\ pc' = "configmap"
  /\ UNCHANGED <<api, allowed, proc, result, operand, metrics, faults, env>>

RenderFails == pc = "configmap" /\ RenderedConfig = TranslationError

\* The pass gives up with an error and is queued again: the manager is
\* stopping, the render failed (Resolve has refused the profiles it would fail
\* on), or a request did.
PassFails ==
  /\ pc # "idle"
  /\ IF proc = "stopping" \/ RenderFails THEN UNCHANGED faults ELSE Fault
  /\ pc' = "idle" /\ queue' = TRUE
  /\ UNCHANGED <<api, allowed, proc, result, operand, metrics, env>>

\* applyOperandTLSOptions puts the translated profile into the ConfigMap, which
\* keeps its name, and the hash of it into the Deployment's pod template. The
\* ConfigMap is applied first; a change of it queues the CR.
ApplyConfigMap ==
  /\ pc = "configmap" /\ ~RenderFails
  /\ cm' = RenderedConfig
  /\ queue' = (queue \/ cm' # cm)
  /\ pc' = "deployment"
  /\ UNCHANGED <<api, allowed, proc, result, dep, pod, metrics, faults, env>>

ApplyDeployment ==
  /\ pc = "deployment"
  /\ dep' = configHash(RenderedConfig)
  /\ queue' = (queue \/ dep' # dep)
  /\ pc' = "idle"
  /\ UNCHANGED <<api, allowed, proc, result, cm, pod, metrics, faults, env>>

\* The operand reads its configuration once, when it starts, and exits where
\* it does not accept it. A new pod replaces the old one when it is up, after
\* a change of the Deployment's template or when there is none. (External.)
RollPod ==
  /\ dep # Absent /\ cm # Absent
  /\ pod # None => pod.hash # dep
  /\ cm # Edited => Accepts(cm)
  /\ pod' = [hash |-> dep, config |-> cm]
  /\ UNCHANGED <<api, allowed, process, cm, dep, metrics, faults, env>>
-----------------------------------------------------------------------------
(* The metrics listener: loadMetricsCertificate, once per handshake.       *)

\* tls.crt is read, or there is none.
ClientHello ==
  /\ proc = "running" /\ crt = None
  /\ IF source = "files" /\ mount # None
       THEN crt' = mount /\ UNCHANGED served
       ELSE served' = (IF source = "files" THEN "failed" ELSE SelfSigned) /\ UNCHANGED crt
  /\ UNCHANGED <<api, allowed, process, operand, mount, source, faults, env>>

\* tls.key is read; LoadX509KeyPair refuses one of another certificate.
ReadKey ==
  /\ crt # None /\ crt' = None
  /\ served' = IF mount = crt THEN crt ELSE "failed"
  /\ UNCHANGED <<api, allowed, process, operand, mount, source, faults, env>>
-----------------------------------------------------------------------------
(* The environment.                                                        *)

ChangeAPIServer(policy, profile) ==
  /\ EnvAct /\ HasAPIServer
  /\ api' = [policy |-> policy, profile |-> profile] /\ api' # api
  /\ UNCHANGED <<allowed, process, operand, metrics, faults>>

ChangeRole ==
  /\ EnvAct /\ allowed' = ~allowed
  /\ UNCHANGED <<api, process, operand, metrics, faults>>

\* Somebody edits or deletes the ConfigMap; ConfigMaps are watched.
DriftConfigMap(c) ==
  /\ EnvAct /\ cm # Absent /\ c # cm
  /\ cm' = c /\ queue' = (queue \/ proc = "running")
  /\ UNCHANGED <<api, allowed, proc, result, pc, dep, pod, metrics, faults>>

PodLost ==
  /\ EnvAct /\ pod # None /\ pod' = None
  /\ UNCHANGED <<api, allowed, process, cm, dep, metrics, faults>>

\* service-ca writes the secret, later another certificate.
RotateCertificate(c) ==
  /\ EnvAct /\ c # mount /\ mount' = c
  /\ UNCHANGED <<api, allowed, process, operand, source, crt, served, faults>>
-----------------------------------------------------------------------------
Startup == Resolve \/ StartManager \/ SetupFails \/ Stopped \/ KubeletRestarts
Pass == StartPass \/ PassFails \/ ApplyConfigMap \/ ApplyDeployment
Handshake == ClientHello \/ ReadKey

Environment ==
  \/ Crash \/ ChangeRole \/ PodLost
  \/ \E policy \in Policies, profile \in Profiles \cup {UnknownType} :
       ChangeAPIServer(policy, profile)
  \/ \E c \in {Edited, Absent} : DriftConfigMap(c)
  \/ \E c \in Certs : RotateCertificate(c)

Next == Startup \/ WatcherCancels \/ Pass \/ RollPod \/ Handshake \/ Environment

\* The process, its workers, the kubelet and the Deployment controller go on
\* while they have something to do, and Prometheus keeps scraping.
Fairness == /\ WF_vars(Startup) /\ WF_vars(WatcherCancels) /\ WF_vars(Pass)
            /\ WF_vars(RollPod) /\ WF_vars(Handshake)

Spec == Init /\ [][Next]_vars

FairSpec == Spec /\ Fairness
-----------------------------------------------------------------------------
(* Properties.                                                             *)

Results == [profile : Profiles, honored : BOOLEAN, adherence : Policies,
            fallback : BOOLEAN, watchable : BOOLEAN, effective : Profiles] \cup {NoResult}

Configs == {TranslateProfile(p) : p \in Profiles} \ {TranslationError}

\* Every variable has its type.
TypeOK ==
  /\ api \in [policy : Policies, profile : Profiles \cup {UnknownType}]
  /\ allowed \in BOOLEAN
  /\ proc \in {"starting", "resolved", "running", "stopping", "down"}
  /\ result \in Results /\ queue \in BOOLEAN
  /\ pc \in {"idle", "configmap", "deployment"}
  /\ cm \in Configs \cup {Absent, Edited}
  /\ dep \in {configHash(c) : c \in Configs} \cup {Absent}
  /\ pod \in [hash : {configHash(c) : c \in Configs}, config : Configs \cup {Edited}] \cup {None}
  /\ mount \in Certs \cup {None} /\ source \in {None, "files", "selfsigned"}
  /\ crt \in Certs \cup {None} /\ served \in Certs \cup {None, "failed", SelfSigned}
  /\ faults \in 0..MaxFaults /\ env \in 0..MaxEnv

\* The profile the cluster asks its components to serve.
Asked == Honored(api.policy, api.profile)

Understood == HasAPIServer /\ allowed /\ api.profile # UnknownType /\ Buildable(Asked)

\* Nothing is left to do for the operator and the Deployment controller.
Quiet == /\ proc = "running" /\ ~SeesChange /\ pc = "idle" /\ ~queue
         /\ pod # None /\ pod.hash = dep

\* The pod read the configuration that its template's hash stands for, not one
\* that was in the ConfigMap before or after that.
StartedFromHashed == pod.config # Edited /\ pod.hash = configHash(pod.config)

\* An operand at rest serves what the cluster asks for now, although the
\* operator reads the profile once, when it starts: whatever changed between
\* the read and the watch, failed half-way or was edited meanwhile.
OperandFollowsProfile ==
  Quiet /\ Understood /\ StartedFromHashed => Serves(pod.config, Asked)

\* The same of every pod nobody else configured: a change of the rendered
\* configuration rolls the pods that run another one.
ConfigChangesRollPods ==
  Quiet /\ Understood /\ pod.config # Edited => Serves(pod.config, Asked)

\* The operand is never handed a configuration it exits on, whatever suites a
\* profile lists that the operator's own endpoint may serve.
OperandStarts == cm \notin {Absent, Edited} => Accepts(cm)

\* Once the cluster's profile stays and can be served, the operator stops
\* restarting for it and the operand comes to serve it.
ProfileTakesEffect ==
  <>[]Understood =>
    <>[](/\ Understood /\ proc = "running" /\ pod # None
         /\ StartedFromHashed => Serves(pod.config, Asked))

\* Once a serving certificate stays mounted, every scrape is answered with it,
\* wherever in the process's life it was mounted or replaced.
CertificateServed ==
  \A c \in Certs : <>[](mount = c /\ proc = "running") => <>[](served = c)
=============================================================================
