SPECIFICATION Spec
CONSTANTS
  CondSets <- MCCondSets
  MaxFaults = 1
INVARIANTS TypeOK VerdictJustified StepsAgreeWithSnapshot
PROPERTIES DiagnosisConverges
