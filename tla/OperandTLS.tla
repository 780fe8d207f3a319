----------------------------- MODULE OperandTLS -----------------------------
(***************************************************************************)
(* The translation of a cluster TLS profile into the tls section of the    *)
(* operand's controller_manager_config.yaml (internal/tls/operand.go).     *)
(* The tables of openshift/library-go and of the Go runtime are constants. *)
(***************************************************************************)
EXTENDS Naturals, Sequences

CONSTANTS
  CipherSuite,     \* library-go: [suite name -> ID]
  OpenSSLToIANA,   \* library-go: [OpenSSL alias -> suite name]
  SecureSuites,    \* tls.CipherSuites: [ID -> Go name]
  InsecureSuites,  \* tls.InsecureCipherSuites: [ID -> Go name]
  RC4Names,        \* the Go names that contain "RC4"
  CurveIDs,        \* [TLS group -> curve ID] of the groups this build supports
  DefaultSuites,   \* what Go serves up to TLS 1.2 when it is given no suites
  DefaultCurves,   \* and when it is given no curves
  TranslationError

\* The tables: Go lists a suite once, RC4 among the insecure ones; where a suite
\* name is an alias too, it is of the same suite; groups have their own IDs.
ASSUME TablesAssumption ==
  /\ DOMAIN SecureSuites \cap DOMAIN InsecureSuites = {}
  /\ DOMAIN SecureSuites \cup DOMAIN InsecureSuites \subseteq Nat
  /\ \A id \in DOMAIN SecureSuites : SecureSuites[id] \notin RC4Names
  /\ \A name \in DOMAIN CipherSuite \cap DOMAIN OpenSSLToIANA :
       /\ OpenSSLToIANA[name] \in DOMAIN CipherSuite
       /\ CipherSuite[OpenSSLToIANA[name]] = CipherSuite[name]
  /\ \A g, h \in DOMAIN CurveIDs : CurveIDs[g] = CurveIDs[h] => g = h

\* The outcome of a lookup is the set of its results: none or one.
Lookup(table, x) == IF x \in DOMAIN table THEN {table[x]} ELSE {}

operandMinVersions == [VersionTLS10 |-> "1.0", VersionTLS11 |-> "1.1",
                       VersionTLS12 |-> "1.2", VersionTLS13 |-> "1.3"]

\* A suite name first, then an OpenSSL alias of one.
resolveCipherID(name) ==
  IF name \in DOMAIN CipherSuite THEN {CipherSuite[name]}
  ELSE UNION {Lookup(CipherSuite, iana) : iana \in Lookup(OpenSSLToIANA, name)}

goCipherName(id) == Lookup(SecureSuites, id) \cup Lookup(InsecureSuites, id)

\* Mutant: no suite is taken for RC4.
rc4CipherIDs_Empty == {}

rc4CipherIDs == {id \in DOMAIN InsecureSuites : InsecureSuites[id] \in RC4Names}

\* 0x1301 to 0x1304.
isTLS13CipherID(id) == 4865 <= id /\ id <= 4868

\* The names the operand is given for one cipher of the profile: none or one.
OperandSuites(name) ==
  UNION {goCipherName(id) : id \in {i \in resolveCipherID(name) :
                                      i \notin rc4CipherIDs /\ ~isTLS13CipherID(i)}}

\* The loops append what they keep of a list, in its order.
Filtered(s, S) ==
  LET F[i \in 0..Len(s)] == IF i = 0 THEN <<>>
                            ELSE IF s[i] \in S THEN Append(F[i - 1], s[i])
                            ELSE F[i - 1]
  IN  F[Len(s)]

\* The curve IDs of the groups that have one, in the profile's order; none at
\* all for a profile with groups is an error. (External.)
SupportedGroups(p) == Filtered(p.groups, DOMAIN CurveIDs)

CurvePreferencesFromSpec(p) ==
  IF p.groups # <<>> /\ SupportedGroups(p) = <<>> THEN TranslationError
  ELSE [i \in 1..Len(SupportedGroups(p)) |-> CurveIDs[SupportedGroups(p)[i]]]

\* An empty list of suites or curves is left out of the file: the operand then
\* takes Go's defaults. A version without a name is left out too.
TranslateProfile(p) ==
  LET named == {p.ciphers[i] : i \in 1..Len(p.ciphers)}
      names == Filtered(p.ciphers, {name \in named : OperandSuites(name) # {}})
  IN  IF CurvePreferencesFromSpec(p) = TranslationError THEN TranslationError
      ELSE [minVersion |-> IF p.min \in DOMAIN operandMinVersions
                             THEN operandMinVersions[p.min] ELSE "",
            curvePreferences |-> CurvePreferencesFromSpec(p),
            cipherSuites |-> [i \in 1..Len(names) |->
                                CHOOSE n \in OperandSuites(names[i]) : TRUE]]
-----------------------------------------------------------------------------
(* What the translation is for, without its steps.                         *)

\* The suites a profile names, by any of their names.
Names(name, id) == \/ name \in DOMAIN CipherSuite /\ CipherSuite[name] = id
                   \/ /\ name \in DOMAIN OpenSSLToIANA
                      /\ OpenSSLToIANA[name] \in DOMAIN CipherSuite
                      /\ CipherSuite[OpenSSLToIANA[name]] = id

GoName(id) == CHOOSE n \in goCipherName(id) : TRUE

\* The operand's validation at startup. (External.)
Accepts(opts) ==
  /\ opts.minVersion \in {"", "1.0", "1.1", "1.2", "1.3"}
  /\ \A i \in 1..Len(opts.cipherSuites) :
       /\ opts.cipherSuites[i] \notin RC4Names
       /\ \E id \in (DOMAIN SecureSuites \cup DOMAIN InsecureSuites) \ 4865..4868 :
            opts.cipherSuites[i] \in goCipherName(id)

\* The suites of profile p that an operand may be told to serve, ranked by
\* their first mention.
Offered(p) == {id \in (DOMAIN SecureSuites \cup DOMAIN InsecureSuites) \ 4865..4868 :
                 /\ GoName(id) \notin RC4Names
                 /\ \E i \in 1..Len(p.ciphers) : Names(p.ciphers[i], id)}

\* crypto/tls takes its defaults for a list that is left out. (External.)
Effective(list, defaults) == IF Len(list) = 0 THEN defaults ELSE list

\* The suites of an operand are exactly the profile's, in its order of
\* preference; Go's defaults where the profile leaves none to name.
ServesSuites(suites, p) ==
  IF Offered(p) = {} THEN suites = DefaultSuites
  ELSE /\ {suites[i] : i \in 1..Len(suites)} = {GoName(id) : id \in Offered(p)}
       /\ \A i, j \in 1..Len(suites) : i < j =>
            \E k, l \in 1..Len(p.ciphers) :
              /\ k < l
              /\ \E id \in Offered(p) : Names(p.ciphers[k], id) /\ GoName(id) = suites[i]
              /\ \E id \in Offered(p) : Names(p.ciphers[l], id) /\ GoName(id) = suites[j]

\* The same of its curves; Go's defaults only where the profile has no groups.
ServesCurves(curves, p) ==
  IF p.groups = <<>> THEN curves = DefaultCurves
  ELSE /\ \A g \in DOMAIN CurveIDs :
            (\E k \in 1..Len(p.groups) : p.groups[k] = g)
              <=> \E i \in 1..Len(curves) : curves[i] = CurveIDs[g]
       /\ \A i \in 1..Len(curves) : \E g \in DOMAIN CurveIDs : curves[i] = CurveIDs[g]
       /\ \A i, j \in 1..Len(curves) : i < j =>
            \E k, l \in 1..Len(p.groups) :
              /\ k < l /\ {p.groups[k], p.groups[l]} \subseteq DOMAIN CurveIDs
              /\ curves[i] = CurveIDs[p.groups[k]] /\ curves[j] = CurveIDs[p.groups[l]]

\* An operand started with these options serves what the profile asks for: its
\* minimum version, its suites and its curves, none added, none lost and in
\* the profile's order, and Go's defaults where the profile leaves the choice.
Serves(opts, p) ==
  /\ p.min \in DOMAIN operandMinVersions => opts.minVersion = operandMinVersions[p.min]
  /\ ServesSuites(Effective(opts.cipherSuites, DefaultSuites), p)
  /\ ServesCurves(Effective(opts.curvePreferences, DefaultCurves), p)
=============================================================================
