------------------------------- MODULE WorkDir -------------------------------
(***************************************************************************)
(* One resource set of renderManifests on disk (renderResourceSet,         *)
(* ensureWorkDir, copyDir, copyFile of manifests.go; applyParamOverrides,  *)
(* applyStaticParams, readParams, writeParams of params.go). The work      *)
(* directory is an emptyDir volume: it outlives the operator's process and *)
(* goes with its pod. A pass runs when the CR is queued; every file        *)
(* operation may fail, and the process may die between any two of them.    *)
(***************************************************************************)
EXTENDS Naturals, Sequences

CONSTANTS
  Files,          \* the template's entries, a sequence in the order of the walk
  Directories,    \* the entries that are directories
  ParamsEnv,      \* the one that is params.env
  Keys, ImageKey, NamespaceKey,
  Images,         \* what a RELATED_IMAGE variable may hold
  Namespaces,     \* what spec.appNamespace may be
  Template,       \* the value every key has in the template
  Unset, Missing, \* an empty variable; a key the file does not have
  MaxCopyFaults,  \* bound on failures and deaths while the template is copied
  MaxFaults,      \* bound on failures and deaths elsewhere
  MaxEnv          \* bound on namespace changes and new pods

\* Every resource set has a params.env, with different keys for the image and
\* the namespace; an empty variable is no image, a missing key no value.
ASSUME TemplateAssumption ==
  /\ Len(Files) \in Nat
  /\ \E i \in 1..Len(Files) : Files[i] = ParamsEnv
  /\ ParamsEnv \notin Directories
  /\ {ImageKey, NamespaceKey} \subseteq Keys /\ ImageKey # NamespaceKey
  /\ Unset \notin Images /\ Missing \notin Images \cup Namespaces \cup {Template}

ASSUME BoundsAssumption ==
  MaxCopyFaults \in Nat /\ MaxFaults \in Nat /\ MaxEnv \in Nat

VARIABLES
  image,    \* the RELATED_IMAGE variable of the pod
  spec,     \* appNamespace of the CR
  work,     \* [file -> "none", "partial" or "full"] in the work directory
  params,   \* content of params.env in the work directory
  tmp,      \* content of params.env.tmp; {} while there is none
  queue,    \* the CR waits in the controller's queue
  pc,       \* the next file operation of the pass
  at,       \* the file copyDir copies next
  want,     \* the namespace the pass renders for
  out,      \* outcome of the last pass
  copyFaults, faults, env

vars == <<image, spec, work, params, tmp, queue, pc, at, want, out, copyFaults, faults, env>>

Values == Images \cup Namespaces \cup {Template}
Contents == [Keys -> Values \cup {Missing}]
Steps == {"idle", "ensureWorkDir", "copyDir", "overrides", "renameOverrides",
          "static", "renameStatic", "render"}
Outcomes == [kind : {"none", "failed", "rendered"}, complete : BOOLEAN,
             params : Contents, ns : Namespaces, image : Images \cup {Unset}]

FileSet == {Files[i] : i \in 1..Len(Files)}
EmptyDir == [f \in FileSet |-> "none"]
NoKeys == [k \in Keys |-> Missing]
Outcome(kind) == [kind |-> kind, complete |-> \A f \in FileSet : work[f] = "full",
                  params |-> params, ns |-> want, image |-> image]

Init ==
  /\ image \in Images \cup {Unset} /\ spec \in Namespaces
  /\ work = EmptyDir /\ params = NoKeys /\ tmp = {}
  /\ queue = TRUE /\ pc = "idle" /\ at = 1 /\ want = spec /\ out = Outcome("none")
  /\ copyFaults = 0 /\ faults = 0 /\ env = 0

Fault == faults < MaxFaults /\ faults' = faults + 1 /\ UNCHANGED copyFaults
CopyFault == copyFaults < MaxCopyFaults /\ copyFaults' = copyFaults + 1 /\ UNCHANGED faults
NoFault == UNCHANGED <<copyFaults, faults>>

\* renderManifests returns the error; the pass ends and is queued again.
Fails == pc' = "idle" /\ queue' = TRUE /\ out' = Outcome("failed")

\* Mutant: the namespace is resolved once.
Begin_Once ==
  /\ pc = "idle" /\ queue
  /\ pc' = "ensureWorkDir" /\ queue' = FALSE
  /\ NoFault
  /\ UNCHANGED <<image, spec, work, params, tmp, at, want, out, env>>

\* The worker takes the CR from the queue; the pass takes its namespace from it.
Begin ==
  /\ pc = "idle" /\ queue
  /\ pc' = "ensureWorkDir" /\ queue' = FALSE
  /\ want' = spec
  /\ NoFault
  /\ UNCHANGED <<image, spec, work, params, tmp, at, out, env>>

Go(p) == pc' = p /\ UNCHANGED <<queue, out>>

\* A directory with an entry is taken for a finished copy.
ensureWorkDir ==
  /\ pc = "ensureWorkDir"
  /\ Go(IF work # EmptyDir THEN "overrides" ELSE "copyDir")
  /\ at' = 1
  /\ NoFault
  /\ UNCHANGED <<image, spec, work, params, tmp, want, env>>

\* What a copy of params.env that stops early leaves of it.
Truncated(f) == IF f = ParamsEnv
                  THEN {[k \in Keys |-> IF k \in K THEN Template ELSE Missing] :
                          K \in SUBSET Keys}
                  ELSE {params}

\* A copy that stops leaves the entry out or, unless it is a directory, which
\* MkdirAll makes at once, as far as it got.
CutShort(f) ==
  \/ UNCHANGED <<work, params>>
  \/ /\ f \notin Directories
     /\ work' = [work EXCEPT ![f] = "partial"] /\ params' \in Truncated(f)

LastFile(i) == i = Len(Files)

\* One entry of the walk: copyFile, or MkdirAll for a directory.
copyFile(f) ==
  /\ pc = "copyDir" /\ f = Files[at]
  /\ \/ /\ work' = [work EXCEPT ![f] = "full"]
        /\ params' = IF f = ParamsEnv THEN [k \in Keys |-> Template] ELSE params
        /\ at' = IF LastFile(at) THEN 1 ELSE at + 1
        /\ Go(IF LastFile(at) THEN "overrides" ELSE "copyDir")
        /\ NoFault
     \/ CopyFault /\ CutShort(f) /\ Fails /\ UNCHANGED at
  /\ UNCHANGED <<image, spec, tmp, want, env>>

\* Mutant: the file is written in place.
FailedWrite_InPlace == params' = NoKeys /\ tmp' = {}

\* A failed write removes the temporary file. (A failed read or create, the
\* other way to fail, leaves everything.)
FailedWrite == tmp' = {} /\ UNCHANGED params

\* Writing params.env.tmp, then renaming it over params.env, unless there is no
\* params.env. A failed rename leaves the temporary file.
writeParams(from, to, next, new) ==
  \/ /\ pc = from /\ work[ParamsEnv] = "none"
     /\ Go(next) /\ NoFault /\ UNCHANGED <<params, tmp>>
  \/ /\ pc = from /\ work[ParamsEnv] # "none"
     /\ \/ tmp' = {new} /\ Go(to) /\ NoFault /\ UNCHANGED params
        \/ (FailedWrite \/ UNCHANGED <<params, tmp>>) /\ Fails /\ Fault
  \/ /\ pc = to
     /\ \/ params' \in tmp /\ tmp' = {} /\ Go(next) /\ NoFault
        \/ Fails /\ Fault /\ UNCHANGED <<params, tmp>>

\* Mutant: an empty variable is written as well.
Overridden_Empty == [params EXCEPT ![ImageKey] = image]

\* An empty variable leaves the file's value.
Overridden == IF image = Unset THEN params ELSE [params EXCEPT ![ImageKey] = image]

applyParamOverrides ==
  /\ writeParams("overrides", "renameOverrides", "static", Overridden)
  /\ UNCHANGED <<image, spec, work, at, want, env>>

\* Mutant: a namespace that was filled in before stays.
Static_Once == IF params[NamespaceKey] = Template THEN [params EXCEPT ![NamespaceKey] = want]
                                                  ELSE params

Static == [params EXCEPT ![NamespaceKey] = want]

applyStaticParams ==
  /\ writeParams("static", "renameStatic", "render", Static)
  /\ UNCHANGED <<image, spec, work, at, want, env>>

\* kustomize renders what the directory holds. Without a file it is told to
\* read it fails; what it makes of a truncated one depends on where it ends.
renderOverlay ==
  /\ pc = "render"
  /\ \/ /\ \A f \in FileSet : work[f] # "none"
        /\ pc' = "idle" /\ out' = Outcome("rendered")
        /\ NoFault /\ UNCHANGED queue
     \/ (\E f \in FileSet : work[f] # "full") /\ Fails /\ NoFault
     \/ Fails /\ Fault
  /\ UNCHANGED <<image, spec, work, params, tmp, at, want, env>>

\* A new process lists the CR and queues it.
Restarts == pc' = "idle" /\ queue' = TRUE /\ out' = [out EXCEPT !.kind = "none"]

\* The process dies: a file being copied or written stays as far as it got.
Crash ==
  /\ pc # "idle"
  /\ Restarts
  /\ \/ pc = "copyDir" /\ CopyFault /\ CutShort(Files[at]) /\ UNCHANGED tmp
     \/ /\ pc \in {"overrides", "static"} /\ work[ParamsEnv] # "none" /\ Fault
        /\ tmp' = {NoKeys} /\ UNCHANGED <<work, params>>
     \/ pc # "copyDir" /\ Fault /\ UNCHANGED <<work, params, tmp>>
  /\ UNCHANGED <<image, spec, at, want, env>>

\* A new pod: an empty volume, perhaps another image.
NewPod ==
  /\ env < MaxEnv /\ env' = env + 1
  /\ image' \in Images \cup {Unset}
  /\ work' = EmptyDir /\ params' = NoKeys /\ tmp' = {}
  /\ Restarts /\ NoFault
  /\ UNCHANGED <<spec, at, want>>

\* A user changes the CR, which is watched.
ChangeNamespace ==
  /\ env < MaxEnv /\ env' = env + 1
  /\ spec' \in Namespaces \ {spec}
  /\ queue' = TRUE
  /\ NoFault
  /\ UNCHANGED <<image, work, params, tmp, pc, at, want, out>>

\* An event of another watched object. (External.)
Event ==
  /\ ~queue /\ queue' = TRUE
  /\ NoFault
  /\ UNCHANGED <<image, spec, work, params, tmp, pc, at, want, out, env>>

Pass == \/ Begin \/ ensureWorkDir \/ (\E f \in FileSet : copyFile(f))
        \/ applyParamOverrides \/ applyStaticParams \/ renderOverlay

Next == Pass \/ Crash \/ NewPod \/ ChangeNamespace \/ Event

\* The worker goes on while there is a pass to make; no other step is fair.
Spec == Init /\ [][Next]_vars /\ WF_vars(Pass)
-----------------------------------------------------------------------------
\* Every variable has its type.
TypeOK ==
  /\ image \in Images \cup {Unset} /\ spec \in Namespaces /\ want \in Namespaces
  /\ work \in [FileSet -> {"none", "partial", "full"}]
  /\ params \in Contents /\ tmp \in SUBSET Contents
  /\ queue \in BOOLEAN /\ pc \in Steps /\ at \in 1..Len(Files) /\ out \in Outcomes
  /\ copyFaults \in 0..MaxCopyFaults /\ faults \in 0..MaxFaults /\ env \in 0..MaxEnv

\* Failures and deaths while parameters are written never cost params.env a
\* key: a copied params.env has them all in every state, so the next pass
\* starts from a whole file (writeParams renames a finished temporary file).
ParamsNeverTorn ==
  work[ParamsEnv] = "full" => \A k \in Keys : params[k] # Missing

\* What a pass renders from a whole copy is what it was asked for: the
\* namespace the pass started with, the pod's image, whatever earlier passes
\* with another namespace, or dead ones, left in the work directory.
RenderFaithful ==
  out.kind = "rendered" /\ out.complete =>
    /\ out.params[NamespaceKey] = out.ns
    /\ out.params[ImageKey] = IF out.image = Unset THEN Template ELSE out.image
    /\ \A k \in Keys \ {ImageKey, NamespaceKey} : out.params[k] = Template

\* A copy that was begun and is neither finished nor going on.
HalfCopied == pc # "copyDir" /\ work # EmptyDir /\ \E f \in FileSet : work[f] # "full"

\* The last pass rendered for the CR's namespace and this pod's image.
Rendered == out.kind = "rendered" /\ out.ns = spec /\ out.image = image

\* The templates end up rendered for the CR as it is, unless a copy was cut
\* short: no other failure, and no death, leaves the work directory in a state
\* that later passes cannot use, and none is left without a pass that repairs
\* it.
RenderSucceeds == <>[]~HalfCopied => <>[]Rendered

\* The same without the exception: every pod comes to render its templates.
EveryPodRenders == <>[]Rendered
=============================================================================
