\* A cluster whose TLS profile, adherence policy, roles and certificates change
\* at any point of the operator's start and of its passes.
SPECIFICATION FairSpec
CONSTANTS
  c1 = c1 c2 = c2
  CipherSuite <- MCCipherSuite OpenSSLToIANA <- MCOpenSSL
  SecureSuites <- MCSecure InsecureSuites <- MCInsecure RC4Names = {"RSA_RC4"}
  DefaultSuites <- MCDefaultSuites DefaultCurves <- MCDefaultCurves
  CurveIDs <- MCCurves TranslationError = translationError
  Profiles <- MCProfiles Intermediate <- MCIntermediate UnknownType = unknownType
  Policies = {"NoOpinion", "Strict"}
  HasAPIServer = TRUE MetricsCertPath = TRUE Certs = {c1, c2}
  None = none Absent = absent Edited = edited SelfSigned = selfSigned
  MaxFaults = 1 MaxEnv = 3
INVARIANTS TypeOK OperandFollowsProfile OperandStarts
PROPERTIES ProfileTakesEffect CertificateServed
CHECK_DEADLOCK FALSE
