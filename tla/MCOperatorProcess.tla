-------------------------- MODULE MCOperatorProcess --------------------------
(* An instance of OperatorProcess for TLC.                                   *)
EXTENDS OperatorProcess

CONSTANTS c1, c2

\* A suite Go serves, one it serves for old clients, an RC4 one and the first
\* and the last of TLS 1.3; an alias of the first, one of the second, and one
\* for a suite that library-go names but Go does not have.
MCCipherSuite == [ECDHE_AES128 |-> 49199, RSA_3DES |-> 10, RSA_RC4 |-> 5,
                  AES_128_GCM |-> 4865, AES_128_CCM |-> 4868]
MCOpenSSL == [alias_AES128 |-> "ECDHE_AES128", alias_3DES |-> "RSA_3DES",
              alias_SHA384 |-> "ECDHE_AES256_SHA384"]
MCSecure == [id \in {49199, 4865, 4868} |->
               CASE id = 49199 -> "ECDHE_AES128" [] id = 4865 -> "AES_128_GCM"
                 [] id = 4868 -> "AES_128_CCM"]
MCInsecure == [id \in {10, 5} |-> IF id = 10 THEN "RSA_3DES" ELSE "RSA_RC4"]
MCCurves == [X25519 |-> 29, secp256r1 |-> 23]
MCDefaultSuites == <<"ECDHE_AES128">>
MCDefaultCurves == <<29, 23>>

MCIntermediate == [min |-> "VersionTLS12", ciphers |-> <<"AES_128_GCM", "alias_AES128">>,
                   groups |-> <<"X25519", "secp256r1">>]
Old == [min |-> "VersionTLS10", groups |-> <<>>,
        ciphers |-> <<"alias_SHA384", "RSA_3DES", "RSA_RC4", "alias_AES128">>]
\* Below TLS 1.3, with no suite left to name: Go's defaults.
Custom == [min |-> "VersionTLS12", ciphers |-> <<"AES_128_GCM", "RSA_RC4", "AES_128_CCM">>,
           groups |-> <<"secp256r1", "future", "X25519">>]
NoGroup == [MCIntermediate EXCEPT !.groups = <<"future">>]

MCProfiles == {MCIntermediate, Old, Custom, NoGroup}
=============================================================================
