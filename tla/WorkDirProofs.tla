---------------------------- MODULE WorkDirProofs ----------------------------
(***************************************************************************)
(* TLAPS proofs about WorkDir, for every template, set of keys, images and *)
(* namespaces and every bound: types, that no failure tears params.env,    *)
(* and that what is rendered is what the pass was asked for.               *)
(***************************************************************************)
EXTENDS WorkDir, TLAPS

\* The image the pod asks for, the template's own where it asks for none.
Effective == IF image = Unset THEN Template ELSE image

\* A params.env that only this operator has written since it was copied.
Sound(p) == /\ p \in [Keys -> Values]
            /\ p[ImageKey] \in {Template, Effective}
            /\ \A k \in Keys \ {ImageKey, NamespaceKey} : p[k] = Template

\* A whole copy of params.env stays sound, and so does the temporary file that
\* is about to replace it.
CopySound ==
  work[ParamsEnv] = "full" =>
    /\ Sound(params)
    /\ pc \in {"renameOverrides", "renameStatic"} => \A t \in tmp : Sound(t)

\* What the steps of the pass have written to it so far is in it.
PassWritten ==
  work[ParamsEnv] = "full" =>
    /\ pc = "renameOverrides" => \A t \in tmp : t[ImageKey] = Effective
    /\ pc \in {"static", "renameStatic", "render"} => params[ImageKey] = Effective
    /\ pc = "renameStatic" =>
         \A t \in tmp : t[ImageKey] = Effective /\ t[NamespaceKey] = want
    /\ pc = "render" => params[NamespaceKey] = want

WorkInvariant == CopySound /\ PassWritten /\ RenderFaithful
-----------------------------------------------------------------------------
(* Types.                                                                  *)

\* The template has a params.env, and a first file.
LEMMA TemplateFacts == ParamsEnv \in FileSet /\ 1 \in 1..Len(Files)
  BY TemplateAssumption DEF FileSet

\* An outcome describes the directory, the pass and the pod it came from.
LEMMA OutcomeType ==
  ASSUME TypeOK, NEW kind \in {"none", "failed", "rendered"}
  PROVE  Outcome(kind) \in Outcomes
  BY DEF TypeOK, Outcome, Outcomes

\* Failures and deaths stay within their bounds.
LEMMA FaultType ==
  ASSUME TypeOK, Fault \/ CopyFault \/ NoFault
  PROVE  copyFaults' \in 0..MaxCopyFaults /\ faults' \in 0..MaxFaults
  BY BoundsAssumption DEF TypeOK, Fault, CopyFault, NoFault

\* What is left of a file whose copy stopped is still a file with keys.
LEMMA TruncatedType ==
  ASSUME TypeOK, NEW f PROVE Truncated(f) \subseteq Contents
  BY DEF TypeOK, Truncated, Contents, Values

\* An entry whose copy stopped is still an entry.
LEMMA CutShortType ==
  ASSUME TypeOK, NEW f \in FileSet, CutShort(f)
  PROVE  work' \in [FileSet -> {"none", "partial", "full"}] /\ params' \in Contents
  BY TruncatedType DEF TypeOK, CutShort

\* A new process forgets the outcome of the last pass.
LEMMA RestartsType ==
  ASSUME TypeOK, Restarts
  PROVE  queue' \in BOOLEAN /\ pc' \in Steps /\ out' \in Outcomes
  BY DEF TypeOK, Restarts, Outcomes, Steps

\* A rewrite of params.env leaves well-typed files and stays in the pass.
LEMMA WriteParamsType ==
  ASSUME TypeOK, NEW from \in Steps, NEW to \in Steps, NEW next \in Steps,
         NEW new \in Contents, writeParams(from, to, next, new)
  PROVE  /\ params' \in Contents /\ tmp' \in SUBSET Contents
         /\ queue' \in BOOLEAN /\ pc' \in Steps /\ out' \in Outcomes
         /\ copyFaults' \in 0..MaxCopyFaults /\ faults' \in 0..MaxFaults
<1>1. params' \in Contents /\ tmp' \in SUBSET Contents
  BY DEF writeParams, FailedWrite, TypeOK
<1>2. queue' \in BOOLEAN /\ pc' \in Steps /\ out' \in Outcomes
  BY OutcomeType DEF writeParams, Go, Fails, TypeOK, Steps
<1>3. Fault \/ NoFault
  BY DEF writeParams
<1> QED
  BY <1>1, <1>2, <1>3, FaultType

\* Every variable keeps its type through failures, deaths and new pods.
THEOREM TypeCorrect == Spec => []TypeOK
<1>1. Init => TypeOK
  <2> SUFFICES ASSUME Init PROVE TypeOK
    OBVIOUS
  <2>1. params \in Contents /\ work \in [FileSet -> {"none", "partial", "full"}]
    BY DEF Init, NoKeys, EmptyDir, Contents
  <2>2. out \in Outcomes
    BY <2>1 DEF Init, Outcome, Outcomes
  <2> QED
    BY <2>1, <2>2, TemplateFacts, BoundsAssumption DEF Init, TypeOK, Steps
<1>2. TypeOK /\ [Next]_vars => TypeOK'
  <2> SUFFICES ASSUME TypeOK, [Next]_vars PROVE TypeOK'
    OBVIOUS
  <2>1. CASE UNCHANGED vars
    BY <2>1 DEF vars, TypeOK
  <2>2. CASE Begin \/ ensureWorkDir \/ Event
    BY <2>2, TemplateFacts DEF Begin, ensureWorkDir, Event, Go, NoFault, TypeOK, Steps
  <2>3. ASSUME NEW f \in FileSet, copyFile(f) PROVE TypeOK'
    <3>1. work' \in [FileSet -> {"none", "partial", "full"}]
      BY <2>3, CutShortType DEF copyFile, TypeOK
    <3>2. params' \in Contents
      BY <2>3, CutShortType DEF copyFile, TypeOK, Contents, Values
    <3>3. at' \in 1..Len(Files)
      BY <2>3, TemplateFacts, TemplateAssumption DEF copyFile, LastFile, TypeOK
    <3>4. queue' \in BOOLEAN /\ pc' \in Steps /\ out' \in Outcomes
      BY <2>3, OutcomeType DEF copyFile, Go, Fails, TypeOK, Steps
    <3>5. copyFaults' \in 0..MaxCopyFaults /\ faults' \in 0..MaxFaults
      BY <2>3, FaultType DEF copyFile
    <3> QED
      BY <2>3, <3>1, <3>2, <3>3, <3>4, <3>5 DEF copyFile, TypeOK
  <2>4. CASE applyParamOverrides
    <3>1. Overridden \in Contents
      BY DEF Overridden, TypeOK, Contents, Values
    <3>2. writeParams("overrides", "renameOverrides", "static", Overridden)
      BY <2>4 DEF applyParamOverrides
    <3>3. {"overrides", "renameOverrides", "static"} \subseteq Steps
      BY DEF Steps
    <3> QED
      BY <2>4, <3>1, <3>2, <3>3, WriteParamsType DEF applyParamOverrides, TypeOK
  <2>5. CASE applyStaticParams
    <3>1. Static \in Contents
      BY DEF Static, TypeOK, Contents, Values
    <3>2. writeParams("static", "renameStatic", "render", Static)
      BY <2>5 DEF applyStaticParams
    <3>3. {"static", "renameStatic", "render"} \subseteq Steps
      BY DEF Steps
    <3> QED
      BY <2>5, <3>1, <3>2, <3>3, WriteParamsType DEF applyStaticParams, TypeOK
  <2>6. CASE renderOverlay
    BY <2>6, OutcomeType, FaultType DEF renderOverlay, Fails, TypeOK, Steps
  <2>7. CASE Crash
    <3>0. Files[at] \in FileSet
      BY DEF TypeOK, FileSet
    <3>1. work' \in [FileSet -> {"none", "partial", "full"}] /\ params' \in Contents
      BY <2>7, <3>0, CutShortType DEF Crash, TypeOK
    <3>2. tmp' \in SUBSET Contents
      BY <2>7 DEF Crash, TypeOK, NoKeys, Contents
    <3>3. copyFaults' \in 0..MaxCopyFaults /\ faults' \in 0..MaxFaults
      BY <2>7, FaultType DEF Crash
    <3> QED
      BY <2>7, <3>1, <3>2, <3>3, RestartsType DEF Crash, TypeOK
  <2>8. CASE NewPod
    <3>1. work' \in [FileSet -> {"none", "partial", "full"}] /\ params' \in Contents
      BY <2>8 DEF NewPod, EmptyDir, NoKeys, Contents
    <3> QED
      BY <2>8, <3>1, BoundsAssumption, RestartsType DEF NewPod, NoFault, TypeOK
  <2>9. CASE ChangeNamespace
    BY <2>9, BoundsAssumption DEF ChangeNamespace, NoFault, TypeOK
  <2> QED
    BY <2>1, <2>2, <2>3, <2>4, <2>5, <2>6, <2>7, <2>8, <2>9 DEF Next, Pass
<1> QED
  BY <1>1, <1>2, PTL DEF Spec
-----------------------------------------------------------------------------
(* The inductive invariant.                                                *)

\* A step that leaves the pod, the pass's namespace, the files and the last
\* outcome alone keeps the invariant if it enters no step of the pass that
\* something must have been written for.
LEMMA KeepsWork ==
  ASSUME WorkInvariant, UNCHANGED <<image, want, work, params, out>>,
         pc' \in {"renameOverrides", "static", "renameStatic", "render"} =>
           UNCHANGED <<pc, tmp>>
  PROVE  WorkInvariant'
<1>1. CopySound'
  BY DEF WorkInvariant, CopySound, Sound, Effective
<1>2. PassWritten'
  BY DEF WorkInvariant, PassWritten, Effective
<1>3. RenderFaithful'
  BY DEF WorkInvariant, RenderFaithful
<1> QED
  BY <1>1, <1>2, <1>3 DEF WorkInvariant

\* A step that ends the pass with a failure or a death does the same, whatever
\* it leaves in the temporary file.
LEMMA KeepsWorkWhenEnded ==
  ASSUME TypeOK, WorkInvariant, UNCHANGED <<image, want, work, params>>,
         pc' = "idle", out' = Outcome("failed") \/ Restarts
  PROVE  WorkInvariant'
<1>1. CopySound'
  BY DEF WorkInvariant, CopySound, Sound, Effective
<1>2. PassWritten'
  BY DEF PassWritten
<1>3. RenderFaithful'
  BY DEF WorkInvariant, RenderFaithful, Outcome, Restarts, TypeOK, Outcomes
<1> QED
  BY <1>1, <1>2, <1>3 DEF WorkInvariant

\* Copying a file makes params.env the template's, or leaves it not whole.
LEMMA CopyKeepsWork ==
  ASSUME TypeOK, WorkInvariant, pc = "copyDir", NEW f \in FileSet,
         UNCHANGED <<image, want, tmp>>,
         UNCHANGED out \/ out' = Outcome("failed") \/ Restarts,
         pc' \in {"idle", "copyDir", "overrides"},
         \/ /\ work' = [work EXCEPT ![f] = "full"]
            /\ params' = IF f = ParamsEnv THEN [k \in Keys |-> Template] ELSE params
         \/ CutShort(f)
  PROVE  WorkInvariant'
<1>1. CopySound'
  <2> SUFFICES ASSUME work'[ParamsEnv] = "full" PROVE Sound(params)'
    BY DEF CopySound
  <2>1. CASE UNCHANGED params /\ work[ParamsEnv] = "full"
    BY <2>1 DEF WorkInvariant, CopySound, Sound, Effective
  <2>2. CASE params' = [k \in Keys |-> Template]
    BY <2>2, TemplateAssumption DEF Sound, Values
  <2> QED
    BY <2>1, <2>2, TemplateFacts DEF CutShort, Truncated, TypeOK
<1>2. PassWritten'
  BY DEF PassWritten
<1>3. RenderFaithful'
  BY DEF WorkInvariant, RenderFaithful, Outcome, Restarts, TypeOK, Outcomes
<1> QED
  BY <1>1, <1>2, <1>3 DEF WorkInvariant

\* The invariant holds in every reachable state.
LEMMA WorkInvariantHolds == Spec => []WorkInvariant
<1>1. Init => WorkInvariant
  BY TemplateFacts
  DEF Init, EmptyDir, Outcome, WorkInvariant, CopySound, PassWritten, RenderFaithful
<1>2. TypeOK /\ WorkInvariant /\ [Next]_vars => WorkInvariant'
  <2> SUFFICES ASSUME TypeOK, WorkInvariant, [Next]_vars PROVE WorkInvariant'
    OBVIOUS
  <2>1. CASE UNCHANGED vars \/ Event
    BY <2>1, KeepsWork DEF vars, Event
  <2>2. CASE Begin
    <3>1. pc' = "ensureWorkDir" /\ UNCHANGED <<image, work, params, tmp, out>>
      BY <2>2 DEF Begin
    <3>2. CopySound' /\ PassWritten' /\ RenderFaithful'
      BY <3>1 DEF WorkInvariant, CopySound, PassWritten, RenderFaithful, Sound, Effective
    <3> QED
      BY <3>2 DEF WorkInvariant
  <2>3. CASE ensureWorkDir
    BY <2>3, KeepsWork DEF ensureWorkDir, Go
  <2>4. ASSUME NEW f \in FileSet, copyFile(f) PROVE WorkInvariant'
    BY <2>4, CopyKeepsWork DEF copyFile, Go, Fails
  <2>5. CASE applyParamOverrides
    <3>1. UNCHANGED <<image, want, work>>
      BY <2>5 DEF applyParamOverrides
    <3>2. CASE pc = "overrides" /\ work[ParamsEnv] = "none" /\ pc' = "static" /\ UNCHANGED <<params, out>>
      BY <3>1, <3>2 DEF WorkInvariant, CopySound, PassWritten, RenderFaithful
    <3>3. CASE pc = "overrides" /\ tmp' = {Overridden} /\ pc' = "renameOverrides"
               /\ UNCHANGED <<params, out>>
      <4>1. work[ParamsEnv] = "full" => Sound(Overridden) /\ Overridden[ImageKey] = Effective
        BY TemplateAssumption
        DEF WorkInvariant, CopySound, Sound, Overridden, Effective, Values, TypeOK
      <4>2. CopySound' /\ PassWritten' /\ RenderFaithful'
        BY <3>1, <3>3, <4>1
        DEF WorkInvariant, CopySound, PassWritten, RenderFaithful, Sound, Effective
      <4> QED
        BY <4>2 DEF WorkInvariant
    <3>4. CASE pc = "renameOverrides" /\ params' \in tmp /\ pc' = "static" /\ UNCHANGED out
      <4>1. CopySound' /\ PassWritten' /\ RenderFaithful'
        BY <3>1, <3>4
        DEF WorkInvariant, CopySound, PassWritten, RenderFaithful, Sound, Effective
      <4> QED
        BY <4>1 DEF WorkInvariant
    <3>5. CASE UNCHANGED params /\ Fails
      BY <3>1, <3>5, KeepsWorkWhenEnded DEF Fails
    <3> QED
      BY <2>5, <3>2, <3>3, <3>4, <3>5
      DEF applyParamOverrides, writeParams, FailedWrite, Go
  <2>6. CASE applyStaticParams
    <3>1. UNCHANGED <<image, want, work>>
      BY <2>6 DEF applyStaticParams
    <3>2. CASE pc = "static" /\ work[ParamsEnv] = "none" /\ pc' = "render" /\ UNCHANGED <<params, out>>
      BY <3>1, <3>2 DEF WorkInvariant, CopySound, PassWritten, RenderFaithful
    <3>3. CASE pc = "static" /\ tmp' = {Static} /\ pc' = "renameStatic"
               /\ UNCHANGED <<params, out>>
      <4>1. work[ParamsEnv] = "full" =>
              Sound(Static) /\ Static[ImageKey] = Effective /\ Static[NamespaceKey] = want
        BY <3>3, TemplateAssumption
        DEF WorkInvariant, CopySound, PassWritten, Sound, Static, Effective, Values, TypeOK
      <4>2. CopySound' /\ PassWritten' /\ RenderFaithful'
        BY <3>1, <3>3, <4>1
        DEF WorkInvariant, CopySound, PassWritten, RenderFaithful, Sound, Effective
      <4> QED
        BY <4>2 DEF WorkInvariant
    <3>4. CASE pc = "renameStatic" /\ params' \in tmp /\ pc' = "render" /\ UNCHANGED out
      <4>1. CopySound' /\ PassWritten' /\ RenderFaithful'
        BY <3>1, <3>4
        DEF WorkInvariant, CopySound, PassWritten, RenderFaithful, Sound, Effective
      <4> QED
        BY <4>1 DEF WorkInvariant
    <3>5. CASE UNCHANGED params /\ Fails
      BY <3>1, <3>5, KeepsWorkWhenEnded DEF Fails
    <3> QED
      BY <2>6, <3>2, <3>3, <3>4, <3>5
      DEF applyStaticParams, writeParams, FailedWrite, Go
  <2>7. CASE renderOverlay
    <3>1. /\ pc = "render" /\ pc' = "idle" /\ UNCHANGED <<image, want, work, params>>
          /\ out' \in {Outcome("failed"), Outcome("rendered")}
      BY <2>7 DEF renderOverlay, Fails
    <3>2. CASE out' = Outcome("failed")
      BY <3>1, <3>2, KeepsWorkWhenEnded
    <3>3. CASE out' = Outcome("rendered")
      <4>1. CopySound' /\ PassWritten'
        BY <3>1 DEF WorkInvariant, CopySound, PassWritten, Sound, Effective
      <4>2. RenderFaithful'
        BY <3>1, <3>3, TemplateFacts
        DEF WorkInvariant, CopySound, PassWritten, RenderFaithful, Outcome, Sound, Effective
      <4> QED
        BY <4>1, <4>2 DEF WorkInvariant
    <3> QED
      BY <3>1, <3>2, <3>3
  <2>8. CASE Crash
    <3>1. CASE pc = "copyDir"
      <4>1. Files[at] \in FileSet
        BY DEF TypeOK, FileSet
      <4> QED
        BY <2>8, <3>1, <4>1, CopyKeepsWork DEF Crash, Restarts
    <3>2. CASE pc # "copyDir"
      BY <2>8, <3>2, KeepsWorkWhenEnded DEF Crash, Restarts
    <3> QED
      BY <3>1, <3>2
  <2>9. CASE NewPod
    <3>1. work'[ParamsEnv] = "none" /\ out'.kind = "none"
      BY <2>9, TemplateFacts DEF NewPod, EmptyDir, Restarts, TypeOK, Outcomes
    <3> QED
      BY <3>1 DEF WorkInvariant, CopySound, PassWritten, RenderFaithful
  <2>10. CASE ChangeNamespace
    BY <2>10, KeepsWork DEF ChangeNamespace
  <2> QED
    BY <2>1, <2>2, <2>3, <2>4, <2>5, <2>6, <2>7, <2>8, <2>9, <2>10 DEF Next, Pass
<1> QED
  BY <1>1, <1>2, TypeCorrect, PTL DEF Spec

\* No failure or death while parameters are written costs a whole params.env a
\* key: writeParams finishes a temporary file before it renames it.
THEOREM NeverTorn == Spec => []ParamsNeverTorn
<1>1. WorkInvariant => ParamsNeverTorn
  BY TemplateAssumption DEF WorkInvariant, CopySound, Sound, ParamsNeverTorn, Values
<1> QED
  BY <1>1, WorkInvariantHolds, PTL

\* What is rendered from a whole copy has the namespace and the image of its
\* own pass, whatever earlier passes left in the work directory.
THEOREM RendersFaithfully == Spec => []RenderFaithful
<1>1. WorkInvariant => RenderFaithful
  BY DEF WorkInvariant
<1> QED
  BY <1>1, WorkInvariantHolds, PTL
=============================================================================
