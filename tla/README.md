# TLA+ model of the Trainer operator

The Trainer operator reconciles one cluster-scoped custom resource, `Trainer`
(`default-trainer`), into the Kubeflow Trainer operand: CRDs, roles, a Service,
a controller Deployment, validating webhooks, training runtimes and, on
OpenShift, image streams. This directory holds TLA+ modules of its reconcile
loop, dependency checks, manifest rendering and TLS profile handling, TLC runs
over small instances, and proofs checked by TLAPS of all their safety properties
for every size of the system.

## Inventory

| Part | State it keeps | Operations | Where |
|---|---|---|---|
| Reconciler | `Reconciler.Release` in memory; the request of the running pass | the actions `checkDependencies`, `ensureNamespace`, `updateReleases`, `renderManifests`, deploy with `withImmutableFieldRecovery`, availability, `stripRuntimeFinalizers`, garbage collection; the finalizer `cleanup` | `internal/controller/trainer_controller.go` |
| Dependency checks | none; the reason of the `Degraded` condition | OLM operator, JobSetOperator CR, its health, JobSet CRD | `internal/controller/dependencies.go` |
| Work directory | a copy of each template on an `emptyDir` volume, with its `params.env` | copy, image overrides, static parameters, kustomize rendering | `internal/controller/manifests.go`, `params.go` |
| Framework | work queue, informer caches, the CR's finalizer and status | runs the actions, deploys, collects, writes the status | `odh-platform-utilities`, `controller-runtime` (not in the repository) |
| API server, operand | objects, their finalizers and annotations; pods | admission, deletion with finalizers, rollout; an old operand marks runtimes in use | Kubernetes, the upstream trainer |
| TLS profile | the `Result` read at startup | `Resolve`, `SetupWatcher` and its two callbacks, restart on change | `internal/tls/profile.go` |
| Operand TLS options | the operand's ConfigMap and the hash annotation of its Deployment | `TranslateProfile`, `applyOperandTLSOptions` | `internal/tls/operand.go`, `internal/controller/manifests.go` |
| Metrics options | where the listener takes its certificate from; the mounted files | `MetricsServerOptions`, `loadMetricsCertificate` per handshake | `internal/tls/metrics.go` |
| Entry point, API types | whether the process starts, runs, stops or is down | start, failing start, shutdown | `cmd/main.go`, `api/v1alpha1` |

How they interact. A watch event (the CR, Deployments, Services, ConfigMaps,
webhook configurations, the JobSetOperator, the platform ConfigMap) puts the
CR's key in the work queue. The single worker takes it, reads the CR from a
cache that may be stale, copies `Reconciler.Release` into the request and runs
the actions in order; the first error ends the pass, the status is written all
the same and the key is queued again. `updateReleases` changes
`Reconciler.Release` in the middle of a pass. A deleted CR runs `cleanup`
instead, and its finalizer is removed when `cleanup` succeeds. The process reads
the cluster's TLS profile once, before the manager exists; metrics listener and
operand configuration are built from that `Result`, and a watcher that sees the
cluster differ from it cancels the manager's context, so that the kubelet starts
the process again.

What is hard here, and what correctness means for each part:

* Reconciler: requests are separate steps, so anybody may act between them; any
  request may fail; the process may die anywhere; the cached CR lags. Correct
  when nothing outlives its CR, nothing a pass rendered is collected by it, an
  operator at rest has deployed its build and reports the truth, deletions
  complete and passes settle.
* Dependency checks: four reads at four moments, errors reported like absence.
  Correct when a verdict is backed by what was seen and never outlives its
  cause.
* Work directory: survives the process, not the pod; written twice per pass.
  Correct when no failure tears `params.env`, and what is rendered is what the
  pass was asked for.
* Process and TLS profile: the profile changes between the read and the watch, the
  read fails or times out, ConfigMap and Deployment are two requests, and a pod
  reads its configuration only once. Correct when the operand ends up serving what
  the cluster asks for, never gets a configuration it refuses, and scrapes see the
  mounted certificate.
* Rollout of the operator: no leader election, so two processes share a CR.
  Correct when a CR deleted meanwhile leaves nothing behind.

`PROJECT.json` lists the hazards one by one, at their lines.

## Modules

| Module | Models |
|---|---|
| `Dependencies` | the four dependency checks as operators over one snapshot |
| `DependencyCheck` | `checkDependencies` one API read at a time, over a changing cluster |
| `TrainerReconciler` | the pass, the finalizer, the framework around them, the API server, the pods and the environment |
| `FinalizerProtocol` | abstract: what the finalizer promises the owner of a CR; `TrainerReconciler` implements it |
| `TrainerReconcilerProofs` | theorems about `TrainerReconciler`: types, orphans, the collector, the refinement |
| `TrainerSettledProofs` | theorems about `TrainerReconciler` at rest, and about the runtimes |
| `Rollout` | two `TrainerReconciler` processes over one cluster |
| `WorkDir` | the file operations of rendering one resource set |
| `OperandTLS` | `TranslateProfile` and its helpers as operators, with a reference definition of what they are for |
| `OperatorProcess` | the process around the TLS profile: start, watcher, shutdown, the operand's configuration and pods, the metrics listener |
| `DependencyCheckProofs`, `WorkDirProofs`, `OperandTLSProofs`, `OperatorProcessProofs` | theorems about the module they are named after |
| `MCDependencyCheck`, `MCTrainer`, `MCRollout`, `MCWorkDir`, `MCOperatorProcess` | instances for TLC |

### TrainerReconciler

State and its counterpart: `cr` the Trainer object in the API server, `seen` the
informer's copy, `objs` the rendered objects with what is stamped on them
(release, uid and generation of the owner), the build whose content they have
(`by`) and that created them (`born`, for immutable fields), the legacy
finalizer and the deletion timestamp; `pods` whose pods serve for each
Deployment; `ns` the applications namespace; `deps` the snapshot of
`Dependencies`; `platform` the platform ConfigMap; `build` the operator image;
`release` is `Reconciler.Release`; `queue` the work queue; `pc` and `rr` the
running pass and its `ReconciliationRequest`.

Each action of the code is an action of the model with its name. The deploy step
is three actions: `Deploy` (all applied), `DeployStops` (the first rejected or
failed object in apply order ends it) and `DeployRecovers`
(`withImmutableFieldRecovery` deletes the rendered Deployments and returns the
error). `removeRuntimeFinalizers` serves both of its callers. A failed request is
a disjunct with `Fault`, counted against `MaxFaults`; where the code reports it
is part of the disjunct. `checkDependencies` is one step here, over a snapshot;
`DependencyCheck` justifies that (`StepsAgreeWithSnapshot`).

What is assumed of the framework, which is not in the repository, read off how
`NewReconciler` configures it and what the tests say about it:

* a pass works on the cached CR and on a copy of `Reconciler.Release` taken at its start;
* the finalizer is written before the actions run, and the pass goes on with the CR
  as the update returned it (the tests see the first pass's status written);
  writes of the CR and of its
  status are checked against the version that was read, and a conflict queues the
  key again;
* events of the CR are its creation, deletion, termination and generation changes
  (not status changes);
* objects are applied in a fixed order, webhook configurations after the
  Deployment, and the first error ends the deploy; the deploy cache never skips a
  needed apply;
* the collector deletes objects whose stamp differs from the request's release,
  uid or generation, and in `cleanup` everything; runtimes are unremovable, and
  kinds the role may not delete (`Kept`: CRDs, namespaces, network policies) stay;
* the operand's webhook rejects creates and updates of runtimes while no operand
  pod serves (`failurePolicy: Fail`).

The environment creates, changes and deletes the CR, edits and deletes objects
and the namespace, changes the platform ConfigMap and the dependencies, marks
runtimes as an old operand does, takes pods down and restarts the operator with
any build. Users do not remove the operator's finalizer by hand, and
`spec.appNamespace` does not change.

`FinalizerProtocol` says the same without passes, caches and stamps: a CR is
absent, unheld, held or deleting, and a footprint grows only while it is held or
deleting and is empty when it is released. `Protocol` maps the state of
`TrainerReconciler` to it (`cr` with its finalizer to `holder`, the collectable
objects that exist to `footprint`), and `ImplementsProtocol` says every step is
one of the protocol or a stutter.

### Rollout

`Rollout` extends `TrainerReconciler` (the old process) and instantiates it once
more (`New`) with its own cache, build, release, queue and pass over the same
cluster. `StartNew` and `StopOld` are the two ends of a rolling update of the
operator's Deployment, which has one replica and the default strategy. A step of
one process is an event for the other; events of the cluster reach both. Deploying
is one step here as in `TrainerReconciler`, so the interleavings of `Rollout` are
a subset of the real ones: enough for a counterexample, and no passing claim about
two processes rests on it. Objects are taken to have no owner reference that would
delete them with their CR, since `NewReconciler` watches and does not own them.

### OperandTLS and OperatorProcess

`OperandTLS` keeps the code's operators: a name resolves through library-go's two
tables, given as constants, to at most one ID, an ID to at most one Go name; RC4
and TLS 1.3 suites are dropped, an empty list is left out, groups without a curve
ID are skipped unless none is left. `Serves` is the reference: the profile's minimum
version, exactly its servable suites and supported curves, each in its order of
preference; Go's defaults (`DefaultSuites`, `DefaultCurves`), which crypto/tls takes
for a list that is left out (`Effective`), where the profile leaves no suite to name
or has no groups. `Accepts` is the operand's validation.

State of `OperatorProcess`: `api` the APIServer's policy and profile, `allowed`
whether the role may read it, `proc` and `result` the process and the `Result` of
`Resolve`, `queue` and `pc` the pass, `cm`, `dep` and `pod` the operand's
configuration, the hash annotation and what the running pod was started from,
`mount`, `source`, `crt` and `served` the metrics certificate. `Resolve` is one
step at the moment its read is answered; `StartManager` is the rest of `main` up to
`mgr.Start`, `SetupFails` any of its exits; `WatcherCancels` is either callback. Of
a pass only the two applies that carry the configuration are modelled, the
ConfigMap first (`WithApplyOrder`), and the CR is there throughout.

What is assumed of libraries, from how the code and `profile_test.go` use them:
the policies `NoOpinion` and `Legacy` do not honor the profile, any other does;
without the APIServer API the profile is Intermediate and not watched; a transient
error or the timeout falls back to Intermediate, watched; a forbidden read, and an
unknown type of profile that is to be honored, are errors; the watcher compares
with its first list, so a change before it started counts. A pod exits on a
configuration it does not accept. Kubelet and Deployment controller restart and
replace.

After a fallback the policy is `NoOpinion` and the watcher compares the profile
too: the restart it causes changes nothing the operator serves unless the policy
changed as well, which the policy callback catches by itself.

### DependencyCheck

`deps` may change between any two reads; `held` and `failed` remember which
checks would have held or failed at some moment of the pass. `GetSingleton`
counts instances, whatever their name. A pass runs only when the CR is in `queue`: a
failed check or request returns an error and puts it back (`degradeDependency`), a
change of the JobSetOperator objects or their status is an event
(`JobSetOperatorEvent`, the same as in `TrainerReconciler`), and `Event` stands for
every other watched object, which may never change again. Nothing else brings a pass.

### WorkDir

One resource set with a namespace parameter (the operand's manifests, which has
all the steps; the other sets skip `applyStaticParams`). `work` says how far
each entry of the template was copied, `params` what `params.env` holds,
`tmp` the temporary file that is renamed over it. An entry that is a directory
(`Directories`) is made at once, a file may be left truncated. The process may die in
any step; a new pod starts with an empty volume. As in `DependencyCheck` a pass needs
the CR in `queue`: a failed pass, a new process and a change of the CR put it there.

## Runs

`tlc -config <cfg> <module>`; all runs pass or fail as listed, the longest in about two minutes.

| Run (cfg) | Shows |
|---|---|
| `dependency_check` (`MCDependencyCheck`) | `VerdictJustified`: a verdict is backed by the pass. `StepsAgreeWithSnapshot`: the stepwise code and the snapshot operators agree. `DiagnosisConverges`: a reported reason follows the cluster. |
| `lifecycle` (`MCLifecycle`) | On OpenShift, two CRs in succession with drift, a deleted namespace, a failing JobSetOperator and platform versions: `NoOrphans`, `GCKeepsRendered`, `SettledStatus`, `SettledDeployed`, `SettledDependencies`, and `PassInvariant`, the inductive invariant of the proofs. |
| `upgrade` (`MCUpgrade`) | A standalone upgrade (the release is the image's own) with an immutable Deployment field, a dropped object, a build without readable metadata, old pods that mark runtimes and a failed request: `SettledDeployed`, `SettledFinalizers`, `StaleCollected`, `Converges`. The CR may be deleted at any point: `DeletionUnblocked` (it goes unless the webhook rejects the strip for good) and `RuntimesDeleted` (with the runtimes, unless a request failed). |
| `workdir` (`MCWorkDir`) | `ParamsNeverTorn`, `RenderFaithful` and `RenderSucceeds` with failures and deaths everywhere, the copy included; the last two speak of whole copies and of behaviours whose copy was not cut short. |
| `process` (`MCOperatorProcess`) | `OperandFollowsProfile` and `ProfileTakesEffect`: the operand comes to serve what the cluster asks for, whenever it changed and whatever failed. `OperandStarts`: it is never handed a configuration it exits on. `CertificateServed`: scrapes come to be answered with the mounted certificate. |

`DiagnosisConverges` has one exception: where OLM's operator or the JobSet CRD goes
away after the pass that found it, `DependenciesAvailable` may stay, because nothing
watches them and a successful pass is not queued again. Without the exception TLC
refutes it with just that behaviour. Every other wrong reason gives way: a failed
diagnosis is made again, and the JobSetOperator is watched.

`SettledDeployed` excepts what no pass can vouch for (`NotVouchedFor`): objects
somebody else changes that the operator does not watch, and the runtimes of a CR
that follows another one while a build's operand marks runtimes. Without the second
exception it does not hold, as the attempt to prove it showed and TLC confirmed (the
instance of `upgrade` with `MaxUid = 2`): an old operand marks a runtime between the
strip and the delete of `cleanup`, so it is left terminating when the CR goes. For
the next CR it is applied as it is; once the webhook answers again a pass strips it,
it disappears, and as runtimes are not watched the operator rests without it, its CR
Ready.

Seven runs end in a counterexample; each is a place where the code and what the
repository says about it differ (details in `PROJECT.json`, findings):

| Run | Counterexample |
|---|---|
| `stuck_deletion` | The namespace, and with it the operand, is deleted; the webhook configuration stays and rejects the update that strips a runtime's legacy finalizer; the CR never finishes deleting. |
| `runtime_leak` | One failed delete of a runtime in `cleanup` is skipped; the CR goes, the runtime stays. |
| `stale_kept` | The first pass of a new image fails after `updateReleases`; with an unchanged platform version the dropped object carries the current release and is never collected. |
| `recovery` | A runtime, not a Deployment, has the immutable field; the recovery deletes the Deployment. |
| `workdir_copy` | A half-copied template is taken for a finished one, and no later pass renders. |
| `config_roll` | A pod starts after the ConfigMap of profile B was applied and before the Deployment was; the profile goes back to A; the hash never changes and the pod keeps B. `OperandFollowsProfile` therefore speaks of pods that read what their template's hash stands for. |
| `overlap` | The old process is about to deploy when the new one runs `cleanup` for the deleted CR; it deploys after the collection, and nothing removes the operand. |

### Bounds

* `MaxEnv` (3 or 4) bounds acts of the environment. The scenarios behind the
  hazards take two to four: create, change, delete, create again; create, set the
  platform version, upgrade, mark a runtime.
* `MaxFaults` is 1 (2 in `WorkDir`): one failure at any request, on top of crashes, which count
  as acts. `RuntimesDeleted` speaks of no failed request because `runtime_leak` shows
  what one does.
* `MaxUid = 2` gives a successor CR with a stale cache of the first; `MaxGen = 2`
  a spec change during a pass.
* One object per kind that behaves differently: a CRD (kept), a Service or a role
  (collected), the Deployment, a runtime, a webhook configuration, an image stream.
  A second object of a kind would add no new guard.
* `WorkDir`: a directory and three files with `params.env` in the middle of the walk,
  three keys.
  `MaxCopyFaults` bounds failures of the copy apart from the others;
  `RenderSucceeds` excepts a copy that was cut short, and `workdir_copy` shows why.

* `OperatorProcess`: three acts let a profile change, change back and something
  fail in between. Four profiles: the default, an old one with RC4, 3DES and a
  suite Go does not have, a TLS 1.2 one with no suite left to name and a group this
  build lacks, and one with no supported group at all; the first and last TLS 1.3 IDs; two policies; two
  certificates.
* `Rollout`: three acts (create, delete, and one between).

The model's own bounds appear only as guards on faults, acts, uids and
generations; the proofs hold for every value.

`CHECK_DEADLOCK FALSE` in the `MCTrainer`, `MCRollout` and `MCOperatorProcess` runs: an operator with an empty queue
rests until the environment acts.

### Fairness

`FairSpec` assumes weak fairness of the worker (controller-runtime takes queued
keys and runs a pass to its end), of the informer (`SyncCache`) and of the
Deployment controller (`PodsFollow`). Nothing makes the environment act, and
faults are finite. `DependencyCheck` and `WorkDir` assume the same of the worker and
nothing else: a pass begins only if the CR is queued and then runs to its end; after a
successful pass there may never be another. `OperatorProcess` assumes weak fairness of
the process (start, shutdown and the kubelet's restart), of its watcher and its
worker, of the Deployment controller, and of the handshakes, since Prometheus
scrapes periodically. `Crash` is an act of the environment and bounded with it.

## Proofs

Every invariant and every action property of the passing runs is proved, for all
sets of objects, builds, versions, profiles, files and dependency states and all
bounds. TLC checked the inductive invariants on the runs' instances before they
were proved.

### TrainerReconciler

From `ObjectsAssumption` (Deployments, runtimes and manifests are among the
objects), `InitialAssumption` and `BoundsAssumption`, in `TrainerReconcilerProofs`:

* `TypeCorrect`: `Spec => []TypeOK`.
* `PassInvariantHolds`: `Spec => []PassInvariant`, inductive relative to `TypeOK`.
* `OrphanFreedom`: `Spec => []NoOrphans`.
* `CollectionIsSafe`: `Spec => GCKeepsRendered`.
* `FinalizerPromiseKept`: `Spec => ImplementsProtocol`, the refinement.

`NoOrphans` alone is not inductive: it says nothing of a pass that is about to
apply objects while the CR disappears. `PassInvariant` adds what the code relies
on. `FinalizerGuards`: while no CR holds the finalizer nothing collectable
exists; a live pass runs only while the CR holds it; a pass about to remove it
has collected everything. `CopiesInOrder` and `PassMatchesCR`: the uid in the
request is at most the cached one, which is at most the CR's, and a cached
deletion is a deletion of the CR or of a predecessor, so a pass over a stale copy
can neither start applying under a CR without the finalizer nor collect for
somebody else. `DeployedStamped`: after the deploy step every rendered object
that exists carries the request's stamp, whatever `updateReleases` wrote to
`Reconciler.Release`; the collector compares with the request, so it spares them.
The invariant is split over three lemmas: the actions of a pass
(`ActionsKeepInvariant`), the steps that touch the CR or its copies
(`CRStepsKeepInvariant`) and the rest of the cluster (`ClusterKeepsInvariant`).
The refinement follows the same split (`PassStepsAllowed`, `CRStepsAllowed`,
`ClusterStepsAllowed`) on top of the invariant: a step of a live pass is a `Grow`
because the CR holds the finalizer by `FinalizerGuards`, everything that deletes
is a `Shrink`, and the finalizer's removal is a `Release` because the pass that
performs it has collected everything.

`TrainerSettledProofs` adds three assumptions the repository justifies.
`OperandAssumption`: every build ships the operand's Deployments, which are
namespaced and watched. `RuntimesAssumption`: every build ships a CRD for the
runtimes, which nobody else touches, and runtimes are not watched (the watches are
those of `NewReconciler`). `VersionsAssumption` and `AbsentAssumption` tell special
values from ordinary ones.

* `RestIsDeployed`, `RestIsReported`, `RestIsHealthy`, `RestIsUnmarked`: the four
  `Settled...` invariants. They say something of an operator that does nothing, so
  their invariant must say what every step on the way leaves behind.
  `PassSettles`: what each action of the running pass has brought about (healthy
  dependencies, current releases, deployed objects, known availability, unmarked
  runtimes) is still true, or the CR is queued again. `RestSettles`: with nothing
  running and nothing queued all of that is true of the copy in the cache, and the
  status says so unless the CR has moved on. The proof is one lemma per group of
  steps: the cluster may break a result only with an event (`ClusterSettles`), a
  failed action claims nothing (`FailureClaimsNothing`), each action establishes
  its own result and keeps the earlier ones (`DeploySettles`, `StripSettles`,
  `CollectionSettles`, ...), and `WriteStatus` succeeds only against the CR it read
  (`WriteStatusSettles`).
* `CopyInvariantHolds` strengthens `CopiesInOrder`: the pass's copy, the cache's and
  the CR follow each other in uid, generation and deletion.
* `RuntimesGoWithCR`: `RuntimesDeleted`, from `RuntimeInvariant`: a runtime that
  terminates belongs to a past CR, and as long as no request failed there is none
  left but terminating ones once the finalizer is about to go.
* `RestIsCollected`: `StaleCollected`, under the hypothesis `OwnReleases`: every
  build has a release of its own and no platform ConfigMap sets another, as in a
  standalone installation and in the run `upgrade`. Without it the property is
  false: that is the run `stale_kept`. `StaleInvariant` says that every object
  carries the release of a build that renders it.

### DependencyCheck

From `CondSetsAssumption` and `BoundAssumption`: `TypeCorrect`,
`VerdictIsJustified`, `StepsMatchSnapshot`. `CheckInvariant` adds that the history
variables include the present while a pass runs, and that a pass which has come to
a check saw every required check before it hold. The second theorem is what lets
`TrainerReconciler` check the dependencies in one step.

### WorkDir

From `TemplateAssumption` (the template has a `params.env` with the two keys, and
the special values are not images or namespaces) and `BoundsAssumption`:
`TypeCorrect`, `NeverTorn`, `RendersFaithfully`. `WorkInvariant`: a whole
`params.env`, and the temporary file about to replace it, have every key and only
values this operator writes; what the steps of the running pass wrote is in it.
Nothing is assumed about the copy: what is not whole is not claimed about.

### OperandTLS and OperatorProcess

From `TablesAssumption`, which says of the tables of Go and library-go what the code
takes for granted: Go lists a suite once, no secure suite is RC4, a suite name that
is an alias too is an alias of the same suite, and curves have their own IDs.

* `TranslationAccepted` and `TranslationServes`: for every profile that
  `TranslateProfile` translates, the operand accepts the result and serves what the
  profile asks for, Go's defaults included where a list is left out. Suites and curves
  are filtered lists; `FilterKeepsOrder` says a
  filtered list has all the elements it should, in order, with a strictly
  increasing map of positions as the witness. The provers cannot instantiate the
  library's induction theorems for it, so `FilterDefined` and `FilterKeepsOrder`
  argue by the least index at which the claim would fail (`LeastNumber`, from the
  well-foundedness of the natural numbers). For that reason `Filtered` is a
  recursive function. `ServableIsPassedOn` and `PassedOnIsServable` then show that
  exactly the servable suites get through, by the one name Go has for each.
* `TypeCorrect`, `OperandAlwaysStarts`, `OperandAtRestFollows` of `OperatorProcess`,
  from `ProfilesAssumption` (profiles have lists of ciphers and groups; Intermediate
  is one of them) and `BoundsAssumption`. `ProcessInvariant`: a process that is past
  `Resolve` has a result whose effective profile follows from its policy; a pass
  belongs to such a process; and with no pass running and none queued the
  Deployment has the hash of what this process renders. A watcher with nothing to
  cancel then means the effective profile is the one asked for (`EffectiveIsAsked`),
  a pod that read what its hash stands for has its translation, and
  `TranslationServes` does the rest.

### Only model-checked

Liveness, which is out of the prover's reach: `DiagnosisConverges`, `Converges`,
`DeletionUnblocked`, `RenderSucceeds`, `ProfileTakesEffect`, `CertificateServed`.
`Rollout` has no passing claim. The counterexamples are TLC's.

## Not modelled

Flags other than the certificate path, health endpoints, authentication of metrics
scrapes, generated code, log and message texts, the text of the manifests and of the
YAML around the operand's `tls` section.

The time a namespace spends terminating: `DeleteNamespace`
takes the namespace and what is in it at once. While it terminates the API server
refuses to create objects in it, so a deploy fails and is queued again, which is what
`DeployStops` does at any object; the end of the deletion is the event that matters.

A change of `spec.appNamespace`: the collector is told the new namespace, and
whether it leaves the objects of the old one behind depends on the library, which
is not in the repository. For the same reason the scope of the cache
(`APPLICATIONS_NAMESPACE`) is taken to cover the namespace of the CR. The release
list is one version per kind of entry, not a list (`appendOrUpdateRelease`).

## Plan

Done: all modules above, the refinement, and proofs of every safety property of the
passing runs. Left: an abstract specification of `OperatorProcess` (a served profile
that only ever is one the cluster had) with its refinement.
