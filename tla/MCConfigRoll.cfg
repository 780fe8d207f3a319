\* The profile changes and changes back while a pod is being replaced.
SPECIFICATION Spec
CONSTANTS
  c1 = c1 c2 = c2
  CipherSuite <- MCCipherSuite OpenSSLToIANA <- MCOpenSSL
  SecureSuites <- MCSecure InsecureSuites <- MCInsecure RC4Names = {"RSA_RC4"}
  DefaultSuites <- MCDefaultSuites DefaultCurves <- MCDefaultCurves
  CurveIDs <- MCCurves TranslationError = translationError
  Profiles <- MCProfiles Intermediate <- MCIntermediate UnknownType = unknownType
  Policies = {"NoOpinion", "Strict"}
  HasAPIServer = TRUE MetricsCertPath = TRUE Certs = {}
  None = none Absent = absent Edited = edited SelfSigned = selfSigned
  MaxFaults = 0 MaxEnv = 3
INVARIANTS ConfigChangesRollPods
CHECK_DEADLOCK FALSE
