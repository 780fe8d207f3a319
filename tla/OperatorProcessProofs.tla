------------------------ MODULE OperatorProcessProofs ------------------------
(***************************************************************************)
(* TLAPS proofs about OperatorProcess, for every set of profiles and       *)
(* policies and any number of faults and acts of the environment: its      *)
(* types, that the operand is only ever handed a configuration it starts   *)
(* with, and that an operand at rest serves what the cluster asks for.     *)
(***************************************************************************)
EXTENDS OperatorProcess, OperandTLSProofs

\* A Result of Resolve: the effective profile is the cluster's where its policy
\* has it honored, Intermediate otherwise.
Resolution(r) ==
  /\ r \in [profile : Profiles, honored : BOOLEAN, adherence : Policies,
            fallback : BOOLEAN, watchable : BOOLEAN, effective : Profiles]
  /\ r.honored <=> ShouldHonorClusterTLSProfile(r.adherence)
  /\ r.effective = Honored(r.adherence, r.profile)
  /\ HasAPIServer => r.watchable

\* The process has what Resolve returned in memory until it exits.
ResultKept == proc \in {"resolved", "running", "stopping"} => Resolution(result)

\* A pass belongs to a process that has resolved its profile, and has rendered
\* it by the time it gets to the Deployment.
PassKept ==
  /\ pc # "idle" => proc \in {"running", "stopping"}
  /\ pc = "deployment" => RenderedConfig # TranslationError

\* With no pass running and none queued, the Deployment has the hash of what
\* this process renders: what ConfigMap events, failed passes and the start of
\* the process itself queue again are exactly the cases in which it may not.
HashCurrent ==
  proc = "running" /\ pc = "idle" /\ ~queue =>
    RenderedConfig # TranslationError /\ dep = configHash(RenderedConfig)

ProcessInvariant == TypeOK /\ ResultKept /\ PassKept /\ HashCurrent
-----------------------------------------------------------------------------
(* The parts.                                                              *)

\* A loaded profile and policy are made into a resolution.
LEMMA LoadResolves ==
  ASSUME NEW spec \in Profiles, NEW policy \in Policies,
         NEW fallback \in BOOLEAN, NEW watchable \in BOOLEAN, HasAPIServer => watchable
  PROVE  Resolution(ResultOf(Loaded(spec, policy, fallback, watchable)))
<1> DEFINE l == Loaded(spec, policy, fallback, watchable)
           r == ResultOf(l)
<1>1. l.spec = spec /\ l.policy = policy /\ l.fallback = fallback /\ l.watchable = watchable
  BY DEF Loaded
<1> HIDE DEF l
<1>2. Honored(policy, spec) \in Profiles
  BY ProfilesAssumption DEF Honored
<1>3. ShouldHonorClusterTLSProfile(policy) \in BOOLEAN
  BY DEF ShouldHonorClusterTLSProfile
<1>4. /\ r = [profile |-> spec, honored |-> ShouldHonorClusterTLSProfile(policy),
              adherence |-> policy, fallback |-> fallback,
              watchable |-> watchable, effective |-> Honored(policy, spec)]
      /\ r.profile = spec /\ r.adherence = policy /\ r.watchable = watchable
      /\ r.honored = ShouldHonorClusterTLSProfile(policy)
      /\ r.effective = Honored(policy, spec)
  BY <1>1, Zenon DEF ResultOf
<1> HIDE DEF r
<1>5. r \in [profile : Profiles, honored : BOOLEAN, adherence : Policies,
            fallback : BOOLEAN, watchable : BOOLEAN, effective : Profiles]
  BY <1>2, <1>3, <1>4, Zenon
<1>6. Resolution(r)
  BY <1>4, <1>5, Zenon DEF Resolution
<1> QED
  BY <1>6 DEF r, l

\* So is the fallback,
LEMMA FallbackResolves ==
  ASSUME NEW watchable \in BOOLEAN, HasAPIServer => watchable
  PROVE  Resolution(ResultOf(Fallback(watchable)))
BY LoadResolves, ProfilesAssumption DEF Fallback

\* and every answer of the cluster.
LEMMA AnswerResolves ==
  ASSUME TypeOK, NEW l \in LoadWithAdherence
  PROVE  Resolution(ResultOf(l))
<1>1. CASE ~HasAPIServer
  <2>1. l = Fallback(FALSE)
    BY <1>1 DEF LoadWithAdherence
  <2> QED
    BY <1>1, <2>1, FallbackResolves
<1>2. CASE HasAPIServer /\ api.profile # UnknownType
  <2>1. l = Loaded(api.profile, api.policy, FALSE, TRUE)
    BY <1>2 DEF LoadWithAdherence
  <2>2. api.profile \in Profiles /\ api.policy \in Policies
    BY <1>2 DEF TypeOK
  <2> QED
    BY <2>1, <2>2, LoadResolves
<1>3. CASE HasAPIServer /\ api.profile = UnknownType
  <2>1. l = Loaded(Intermediate, api.policy, FALSE, TRUE)
    BY <1>3 DEF LoadWithAdherence
  <2>2. api.policy \in Policies
    BY DEF TypeOK
  <2> QED
    BY <2>1, <2>2, LoadResolves, ProfilesAssumption
<1> QED
  BY <1>1, <1>2, <1>3

\* Resolve either resolves the profile or ends the process.
LEMMA ResolveKeeps ==
  ASSUME TypeOK, Resolve
  PROVE  \/ proc' = "resolved" /\ Resolution(result') /\ UNCHANGED <<queue, pc, metrics>>
         \/ Exits
<1>1. ASSUME NEW l \in LoadWithAdherence, result' = ResultOf(l) PROVE Resolution(result')
  BY <1>1, AnswerResolves
<1>2. Resolution(ResultOf(Fallback(TRUE)))
  BY FallbackResolves
<1> QED
  BY <1>1, <1>2, Zenon DEF Resolve
\* A resolved profile that can be translated is rendered into one of the
\* configurations of the profiles.
LEMMA RendersConfig ==
  ASSUME Resolution(result), RenderedConfig # TranslationError
  PROVE  RenderedConfig \in Configs
<1>1. result.effective \in Profiles
  BY DEF Resolution
<1> QED
  BY <1>1 DEF RenderedConfig, Configs

\* What Resolve returns is one of the Results.
LEMMA ResolutionTyped ==
  ASSUME NEW r, Resolution(r)
  PROVE  r \in Results
BY DEF Resolution, Results

\* The counters stay within their bounds.
LEMMA CountersTyped ==
  ASSUME TypeOK
  PROVE  /\ Fault => faults' \in 0..MaxFaults
         /\ EnvAct => env' \in 0..MaxEnv
BY BoundsAssumption DEF TypeOK, Fault, EnvAct

\* The variables a process loses when it exits have their types.
LEMMA ExitTyped ==
  ASSUME TypeOK, Exits
  PROVE  /\ proc' \in {"starting", "resolved", "running", "stopping", "down"}
         /\ result' \in Results /\ queue' \in BOOLEAN
         /\ pc' \in {"idle", "configmap", "deployment"}
         /\ mount' \in Certs \cup {None} /\ source' \in {None, "files", "selfsigned"}
         /\ crt' \in Certs \cup {None} /\ served' \in Certs \cup {None, "failed", SelfSigned}
BY DEF TypeOK, Exits, Results

\* Every variable starts with its type,
LEMMA TypeInit ==
  ASSUME Init
  PROVE  TypeOK
<1>1. api \in [policy : Policies, profile : Profiles \cup {UnknownType}]
  BY ProfilesAssumption DEF Init
<1>2. result \in Results
  BY DEF Init, Results
<1>3. faults \in 0..MaxFaults /\ env \in 0..MaxEnv
  BY BoundsAssumption DEF Init
<1>4. allowed \in BOOLEAN /\ queue \in BOOLEAN
  BY DEF Init
<1> QED
  BY <1>1, <1>2, <1>3, <1>4, Zenon DEF Init, TypeOK

\* and every step keeps it, given that a pass has a resolved profile to render.
LEMMA TypeStep ==
  ASSUME ProcessInvariant, [Next]_vars
  PROVE  TypeOK'
<1> USE DEF process, operand, metrics
<1>0. TypeOK /\ ResultKept /\ PassKept
  BY DEF ProcessInvariant
<1>1. CASE Resolve
  <2>1. CASE Exits
    <3>1. UNCHANGED <<api, allowed, operand, env>> /\ faults' \in 0..MaxFaults
      BY <1>0, <1>1, CountersTyped DEF Resolve, TypeOK
    <3> QED
      BY <1>0, <2>1, <3>1, ExitTyped DEF TypeOK
  <2>2. CASE proc' = "resolved" /\ Resolution(result') /\ UNCHANGED <<queue, pc, metrics>>
    <3>1. UNCHANGED <<api, allowed, operand, env>> /\ faults' \in 0..MaxFaults
      BY <1>0, <1>1, CountersTyped DEF Resolve, TypeOK
    <3>2. result' \in Results
      BY <2>2, ResolutionTyped
    <3> QED
      BY <1>0, <2>2, <3>1, <3>2 DEF TypeOK
  <2> QED
    BY <1>0, <1>1, <2>1, <2>2, ResolveKeeps
<1>2. CASE StartManager
  BY <1>0, <1>2 DEF StartManager, MetricsServerOptions, TypeOK
<1>3. CASE SetupFails
  <2>1. Exits /\ UNCHANGED <<api, allowed, operand, env>> /\ faults' \in 0..MaxFaults
    BY <1>0, <1>3, CountersTyped DEF SetupFails
  <2> QED
    BY <1>0, <2>1, ExitTyped DEF TypeOK
<1>4. CASE Stopped
  <2>1. Exits /\ UNCHANGED <<api, allowed, operand, faults, env>>
    BY <1>4 DEF Stopped
  <2> QED
    BY <1>0, <2>1, ExitTyped DEF TypeOK
<1>5. CASE KubeletRestarts
  BY <1>0, <1>5 DEF KubeletRestarts, TypeOK
<1>6. CASE Crash
  <2>1. Exits /\ UNCHANGED <<api, allowed, operand, faults>> /\ env' \in 0..MaxEnv
    BY <1>0, <1>6, CountersTyped DEF Crash
  <2> QED
    BY <1>0, <2>1, ExitTyped DEF TypeOK
<1>7. CASE WatcherCancels
  BY <1>0, <1>7 DEF WatcherCancels, TypeOK
<1>8. CASE StartPass
  BY <1>0, <1>8 DEF StartPass, TypeOK
<1>9. CASE PassFails
  <2>1. faults' \in 0..MaxFaults
    BY <1>0, <1>9, CountersTyped DEF PassFails, TypeOK
  <2> QED
    BY <1>0, <1>9, <2>1 DEF PassFails, TypeOK
<1>10. CASE ApplyConfigMap
  <2>1. RenderedConfig \in Configs
    BY <1>0, <1>10, RendersConfig DEF ApplyConfigMap, RenderFails, ResultKept, PassKept
  <2>2. queue' \in BOOLEAN
    BY <1>10 DEF ApplyConfigMap
  <2> QED
    BY <1>0, <1>10, <2>1, <2>2 DEF ApplyConfigMap, TypeOK
<1>11. CASE ApplyDeployment
  <2>1. RenderedConfig \in Configs
    BY <1>0, <1>11, RendersConfig DEF ApplyDeployment, ResultKept, PassKept
  <2>2. queue' \in BOOLEAN
    BY <1>11 DEF ApplyDeployment
  <2> QED
    BY <1>0, <1>11, <2>1, <2>2 DEF ApplyDeployment, TypeOK
<1>12. CASE RollPod
  <2>1. dep \in {configHash(c) : c \in Configs} /\ cm \in Configs \cup {Edited}
    BY <1>0, <1>12 DEF RollPod, TypeOK
  <2>2. pod' \in [hash : {configHash(c) : c \in Configs}, config : Configs \cup {Edited}]
    BY <1>12, <2>1 DEF RollPod
  <2> QED
    BY <1>0, <1>12, <2>2 DEF RollPod, TypeOK
<1>13. CASE ClientHello
  BY <1>0, <1>13 DEF ClientHello, TypeOK
<1>14. CASE ReadKey
  BY <1>0, <1>14 DEF ReadKey, TypeOK
<1>15. ASSUME NEW policy \in Policies, NEW profile \in Profiles \cup {UnknownType},
              ChangeAPIServer(policy, profile)
       PROVE  TypeOK'
  <2>1. env' \in 0..MaxEnv
    BY <1>0, <1>15, CountersTyped DEF ChangeAPIServer
  <2>2. api' \in [policy : Policies, profile : Profiles \cup {UnknownType}]
    BY <1>15 DEF ChangeAPIServer
  <2> QED
    BY <1>0, <1>15, <2>1, <2>2 DEF ChangeAPIServer, TypeOK
<1>16. CASE ChangeRole
  <2>1. env' \in 0..MaxEnv
    BY <1>0, <1>16, CountersTyped DEF ChangeRole
  <2> QED
    BY <1>0, <1>16, <2>1 DEF ChangeRole, TypeOK
<1>17. ASSUME NEW c \in {Edited, Absent}, DriftConfigMap(c) PROVE TypeOK'
  <2>1. env' \in 0..MaxEnv
    BY <1>0, <1>17, CountersTyped DEF DriftConfigMap
  <2>2. queue' \in BOOLEAN
    BY <1>17 DEF DriftConfigMap
  <2> QED
    BY <1>0, <1>17, <2>1, <2>2 DEF DriftConfigMap, TypeOK
<1>18. CASE PodLost
  <2>1. env' \in 0..MaxEnv
    BY <1>0, <1>18, CountersTyped DEF PodLost
  <2> QED
    BY <1>0, <1>18, <2>1 DEF PodLost, TypeOK
<1>19. ASSUME NEW c \in Certs, RotateCertificate(c) PROVE TypeOK'
  <2>1. env' \in 0..MaxEnv
    BY <1>0, <1>19, CountersTyped DEF RotateCertificate
  <2> QED
    BY <1>0, <1>19, <2>1 DEF RotateCertificate, TypeOK
<1>20. CASE UNCHANGED vars
  BY <1>0, <1>20 DEF vars, TypeOK
<1> QED
  BY <1>1, <1>2, <1>3, <1>4, <1>5, <1>6, <1>7, <1>8, <1>9, <1>10, <1>11, <1>12, <1>13,
     <1>14, <1>15, <1>16, <1>17, <1>18, <1>19, <1>20
     DEF Next, Startup, Pass, Handshake, Environment
-----------------------------------------------------------------------------
(* The inductive invariant.                                                *)

\* A step in which neither the process nor the Deployment changes.
LEMMA ElsewhereKeeps ==
  ASSUME ProcessInvariant, UNCHANGED <<proc, result, pc, dep>>, ~queue' => ~queue
  PROVE  (ResultKept /\ PassKept /\ HashCurrent)'
BY DEF ProcessInvariant, ResultKept, PassKept, HashCurrent, RenderedConfig

\* Nothing is claimed of a process that is down.
LEMMA ExitKeeps ==
  ASSUME Exits
  PROVE  (ResultKept /\ PassKept /\ HashCurrent)'
BY DEF Exits, ResultKept, PassKept, HashCurrent

\* Every step keeps the invariant: one that ends a pass, or the process, either
\* leaves the current hash in the Deployment or the CR in the queue.
LEMMA ProcessStep ==
  ASSUME ProcessInvariant, [Next]_vars
  PROVE  ProcessInvariant'
<1> USE DEF process, operand, metrics
<1>0. TypeOK /\ ResultKept /\ PassKept /\ HashCurrent
  BY DEF ProcessInvariant
<1>t. TypeOK'
  BY TypeStep
<1> SUFFICES (ResultKept /\ PassKept /\ HashCurrent)'
  BY <1>t DEF ProcessInvariant
<1>1. CASE Resolve
  <2>1. CASE proc' = "resolved" /\ Resolution(result') /\ UNCHANGED <<queue, pc, metrics>>
    <3>1. pc' = "idle"
      BY <1>0, <1>1, <2>1 DEF Resolve, PassKept, TypeOK
    <3> QED
      BY <2>1, <3>1 DEF ResultKept, PassKept, HashCurrent
  <2> QED
    BY <1>0, <1>1, <2>1, ResolveKeeps, ExitKeeps
<1>2. CASE StartManager
  <2>1. proc' = "running" /\ queue' = TRUE /\ UNCHANGED <<result, pc>> /\ Resolution(result)
    BY <1>0, <1>2 DEF StartManager, ResultKept
  <2> QED
    BY <1>0, <1>t, <2>1 DEF ResultKept, PassKept, HashCurrent, RenderedConfig
<1>3. CASE SetupFails \/ Stopped \/ Crash
  BY <1>3, ExitKeeps DEF SetupFails, Stopped, Crash
<1>4. CASE KubeletRestarts
  <2>1. proc' = "starting" /\ pc' = "idle"
    BY <1>0, <1>4 DEF KubeletRestarts, PassKept, TypeOK
  <2> QED
    BY <2>1 DEF ResultKept, PassKept, HashCurrent
<1>5. CASE WatcherCancels
  <2>1. proc = "running" /\ proc' = "stopping" /\ UNCHANGED <<result, pc>>
    BY <1>5 DEF WatcherCancels, SeesChange
  <2> QED
    BY <1>0, <2>1 DEF ResultKept, PassKept, HashCurrent, RenderedConfig
<1>6. CASE StartPass
  BY <1>0, <1>6 DEF StartPass, ResultKept, PassKept, HashCurrent, RenderedConfig
<1>7. CASE PassFails
  BY <1>0, <1>7 DEF PassFails, ResultKept, PassKept, HashCurrent, RenderedConfig
<1>8. CASE ApplyConfigMap
  BY <1>0, <1>8 DEF ApplyConfigMap, RenderFails, ResultKept, PassKept, HashCurrent, RenderedConfig
<1>9. CASE ApplyDeployment
  <2>1. dep' = configHash(RenderedConfig) /\ RenderedConfig # TranslationError
    BY <1>0, <1>9 DEF ApplyDeployment, PassKept
  <2>2. RenderedConfig' = RenderedConfig /\ UNCHANGED <<proc, result>> /\ pc' = "idle"
    BY <1>9 DEF ApplyDeployment, RenderedConfig
  <2> QED
    BY <1>0, <2>1, <2>2 DEF ResultKept, PassKept, HashCurrent, configHash
<1>10. CASE \/ RollPod \/ Handshake \/ ChangeRole \/ PodLost
            \/ \E policy \in Policies, profile \in Profiles \cup {UnknownType} :
                 ChangeAPIServer(policy, profile)
            \/ \E c \in Certs : RotateCertificate(c)
  <2>1. UNCHANGED <<proc, result, queue, pc, dep>>
    BY <1>10 DEF RollPod, Handshake, ClientHello, ReadKey, ChangeRole, PodLost,
                 ChangeAPIServer, RotateCertificate
  <2> QED
    BY <2>1, ElsewhereKeeps
<1>11. ASSUME NEW c \in {Edited, Absent}, DriftConfigMap(c)
       PROVE  (ResultKept /\ PassKept /\ HashCurrent)'
  <2>1. UNCHANGED <<proc, result, pc, dep>> /\ (~queue' => ~queue)
    BY <1>11 DEF DriftConfigMap
  <2> QED
    BY <2>1, ElsewhereKeeps
<1>12. CASE UNCHANGED vars
  <2>1. UNCHANGED <<proc, result, queue, pc, dep>>
    BY <1>12 DEF vars
  <2> QED
    BY <2>1, ElsewhereKeeps
<1> QED
  BY <1>1, <1>2, <1>3, <1>4, <1>5, <1>6, <1>7, <1>8, <1>9, <1>10, <1>11, <1>12
     DEF Next, Startup, Pass, Environment

\* The invariant holds in every reachable state: what a process renders is what
\* it resolved, and at rest the Deployment has the hash of it.
THEOREM ProcessInvariantHolds == Spec => []ProcessInvariant
<1>1. Init => ProcessInvariant
  <2>1. Init => ResultKept /\ PassKept /\ HashCurrent
    BY DEF Init, ResultKept, PassKept, HashCurrent
  <2> QED
    BY <2>1, TypeInit DEF ProcessInvariant
<1>2. ProcessInvariant /\ [Next]_vars => ProcessInvariant'
  BY ProcessStep
<1> QED
  BY <1>1, <1>2, PTL DEF Spec
-----------------------------------------------------------------------------
(* The properties.                                                         *)

\* Every variable has its type: a process that renders has a resolved profile,
\* and what is applied is the translation of one.
THEOREM TypeCorrect == Spec => []TypeOK
BY ProcessInvariantHolds, PTL DEF ProcessInvariant

\* A configuration made of any of the profiles is one the operand starts with.
LEMMA ConfigsAccepted ==
  ASSUME NEW c \in Configs
  PROVE  Accepts(c)
<1>1. PICK p \in Profiles : c = TranslateProfile(p) /\ TranslateProfile(p) # TranslationError
  BY DEF Configs
<1>2. p.ciphers \in Seq(STRING)
  BY ProfilesAssumption
<1> QED
  BY <1>1, <1>2, TranslationAccepted

\* The operand is never handed a configuration it exits on: whatever the
\* profiles list, RC4 suites, TLS 1.3 suites and unknown names are left out by
\* TranslateProfile, and the ConfigMap has nothing else.
THEOREM OperandAlwaysStarts == Spec => []OperandStarts
<1>1. ProcessInvariant => OperandStarts
  BY ConfigsAccepted DEF ProcessInvariant, TypeOK, OperandStarts
<1> QED
  BY <1>1, ProcessInvariantHolds, PTL

\* A process whose watcher has nothing to cancel it for works with the profile
\* the cluster asks for, whether that is the cluster's own or Intermediate.
LEMMA EffectiveIsAsked ==
  ASSUME ProcessInvariant, Quiet, Understood
  PROVE  result.effective = Asked
<1>1. proc = "running" /\ ~SeesChange /\ Resolution(result)
  BY DEF ProcessInvariant, Quiet, ResultKept
<1>2. ~newSecurityProfileWatcher
  BY <1>1 DEF SeesChange, Understood, SetupWatcher, Resolution
<1>3. api.policy = result.adherence
  BY <1>2 DEF newSecurityProfileWatcher
<1>4. CASE ShouldHonorClusterTLSProfile(result.adherence)
  <2>1. api.profile = result.profile
    BY <1>1, <1>2, <1>4 DEF newSecurityProfileWatcher, Resolution
  <2> QED
    BY <1>1, <1>3, <2>1 DEF Asked, Resolution
<1>5. CASE ~ShouldHonorClusterTLSProfile(result.adherence)
  BY <1>1, <1>3, <1>5 DEF Asked, Resolution, Honored
<1> QED
  BY <1>4, <1>5

\* An operand at rest serves what the cluster asks for now, although the
\* operator reads the profile once: what the watcher compares and what queues
\* a pass cover every way in which the two could come apart, except a pod that
\* was started from another configuration than its hash stands for.
THEOREM OperandAtRestFollows == Spec => []OperandFollowsProfile
<1>1. ASSUME ProcessInvariant, Quiet, Understood, StartedFromHashed
      PROVE  Serves(pod.config, Asked)
  <2>1. RenderedConfig # TranslationError /\ dep = configHash(RenderedConfig)
    BY <1>1 DEF ProcessInvariant, HashCurrent, Quiet
  <2>2. configHash(pod.config) = configHash(RenderedConfig)
    BY <1>1, <2>1 DEF Quiet, StartedFromHashed
  <2>3. pod.config = RenderedConfig
    BY <2>2 DEF configHash
  <2>4. pod.config = TranslateProfile(Asked) /\ TranslateProfile(Asked) # TranslationError
    BY <1>1, <2>1, <2>3, EffectiveIsAsked DEF RenderedConfig
  <2>5. Asked \in Profiles
    BY <1>1, EffectiveIsAsked DEF ProcessInvariant, ResultKept, Quiet, Resolution
  <2>6. Asked.ciphers \in Seq(STRING) /\ Asked.groups \in Seq(STRING)
    BY <2>5, ProfilesAssumption
  <2> QED
    BY <2>4, <2>6, TranslationServes
<1>2. ProcessInvariant => OperandFollowsProfile
  BY <1>1 DEF OperandFollowsProfile
<1> QED
  BY <1>2, ProcessInvariantHolds, PTL
=============================================================================
