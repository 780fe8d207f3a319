-------------------------- MODULE OperandTLSProofs --------------------------
(***************************************************************************)
(* TLAPS proofs about OperandTLS, for every table of cipher suites and     *)
(* curves and every profile: the operand accepts what TranslateProfile     *)
(* hands it, and serves with it what the profile asks for.                 *)
(***************************************************************************)
EXTENDS OperandTLS, WellFoundedInduction, TLAPS

-----------------------------------------------------------------------------
(* Filtering a list.                                                       *)

\* A set of numbers has a least one, the form of induction used here.
LEMMA LeastNumber ==
  ASSUME NEW T, T \subseteq Nat, T # {}
  PROVE  \E x \in T : \A y \in T : x <= y
<1> DEFINE R == OpToRel(<, Nat)
<1>1. IsWellFoundedOn(R, Nat)
  BY NatLessThanWellFounded
<1>2. \A x, y \in Nat : y < x => <<y, x>> \in R
  BY Zenon DEF OpToRel
<1> HIDE DEF R
<1>3. PICK x \in T : \A y \in T : ~(<<y, x>> \in R)
  BY <1>1, WFMin
<1>4. ASSUME NEW y \in T PROVE x <= y
  <2>1. x \in Nat /\ y \in Nat /\ ~(y < x)
    BY <1>2, <1>3
  <2> QED
    BY <2>1
<1> QED
  BY <1>4

\* The list as it grows.
Grows(f, s, S, n) ==
  /\ f[0] = <<>>
  /\ \A i \in 1..n : f[i] = IF s[i] \in S THEN Append(f[i - 1], s[i]) ELSE f[i - 1]

\* The growth of the list is a function, so its definition defines something.
LEMMA FilterDefined ==
  ASSUME NEW T, NEW s \in Seq(T), NEW S
  PROVE  \E f \in [0..Len(s) -> Seq(T)] :
           Grows(f, s, S, Len(s)) /\ Filtered(s, S) = f[Len(s)]
<1> DEFINE Body(f) == [i \in 0..Len(s) |-> IF i = 0 THEN <<>>
                                           ELSE IF s[i] \in S THEN Append(f[i - 1], s[i])
                                           ELSE f[i - 1]]
<1> DEFINE Good(n) == \E f \in [0..n -> Seq(T)] : Grows(f, s, S, n)
<1>0. Len(s) \in Nat /\ \A i \in 1..Len(s) : s[i] \in T
  OBVIOUS
<1>1. Good(0)
  <2> DEFINE f == [i \in 0..0 |-> <<>>]
  <2>1. f \in [0..0 -> Seq(T)] /\ f[0] = <<>>
    OBVIOUS
  <2>2. Grows(f, s, S, 0)
    <3> HIDE DEF f
    <3> QED
      BY <2>1 DEF Grows
  <2> QED
    BY <2>1, <2>2
<1>2. ASSUME NEW n \in Nat, n < Len(s), Good(n) PROVE Good(n + 1)
  <2>1. PICK f \in [0..n -> Seq(T)] : Grows(f, s, S, n)
    BY <1>2
  <2> DEFINE last == IF s[n + 1] \in S THEN Append(f[n], s[n + 1]) ELSE f[n]
             g == [i \in 0..(n + 1) |-> IF i <= n THEN f[i] ELSE last]
  <2>2. last \in Seq(T)
    BY <1>0, <1>2
  <2>3. g \in [0..(n + 1) -> Seq(T)]
    BY <2>2
  <2>4. (\A i \in 0..n : g[i] = f[i]) /\ g[n + 1] = last
    BY <1>2
  <2>5. Grows(g, s, S, n + 1)
    <3> HIDE DEF g
    <3>1. g[0] = <<>>
      BY <1>2, <2>1, <2>4 DEF Grows
    <3>2. ASSUME NEW i \in 1..(n + 1)
          PROVE  g[i] = IF s[i] \in S THEN Append(g[i - 1], s[i]) ELSE g[i - 1]
      <4>1. CASE i \in 1..n
        <5>1. g[i] = f[i] /\ g[i - 1] = f[i - 1]
          BY <2>4, <4>1
        <5> QED
          BY <2>1, <4>1, <5>1 DEF Grows
      <4>2. CASE i = n + 1
        BY <2>4, <4>2
      <4> QED
        BY <1>2, <4>1, <4>2
    <3> QED
      BY <3>1, <3>2 DEF Grows
  <2> QED
    BY <2>3, <2>5
<1> HIDE DEF Good
<1>3. Good(Len(s))
  <2> SUFFICES ASSUME ~Good(Len(s)) PROVE FALSE
    OBVIOUS
  <2> DEFINE Bad == {n \in 0..Len(s) : ~Good(n)}
  <2>0. Bad \subseteq Nat /\ Bad # {}
    BY <1>0
  <2>1. PICK n \in Bad : \A m \in Bad : n <= m
    BY <2>0, LeastNumber
  <2>2. n # 0 /\ n - 1 \in Nat /\ n - 1 < Len(s) /\ n - 1 \notin Bad
    BY <1>0, <1>1, <2>1
  <2>3. Good(n - 1)
    BY <1>0, <2>1, <2>2
  <2> QED
    BY <1>0, <1>2, <2>1, <2>2, <2>3
<1>4. PICK f \in [0..Len(s) -> Seq(T)] : Grows(f, s, S, Len(s))
  BY <1>3 DEF Good
<1>5. ASSUME NEW i \in 0..Len(s) PROVE f[i] = Body(f)[i]
  <2>1. CASE i = 0
    BY <1>0, <1>4, <2>1 DEF Grows
  <2>2. CASE i \in 1..Len(s)
    <3>1. f[i] = IF s[i] \in S THEN Append(f[i - 1], s[i]) ELSE f[i - 1]
      BY <1>4, <2>2 DEF Grows
    <3>2. Body(f)[i] = IF s[i] \in S THEN Append(f[i - 1], s[i]) ELSE f[i - 1]
      BY <1>0, <2>2
    <3> QED
      BY <3>1, <3>2
  <2> QED
    BY <1>0, <2>1, <2>2
<1>6. f = Body(f)
  BY <1>5
<1> DEFINE F == CHOOSE x : x = Body(x)
<1>7. F = Body(F)
  BY <1>6
<1>8. Filtered(s, S) = F[Len(s)]
  BY DEF Filtered
<1>9. F[Len(s)] = f[Len(s)]
  <2> SUFFICES ASSUME F[Len(s)] # f[Len(s)] PROVE FALSE
    OBVIOUS
  <2>0. \A i \in 0..Len(s) : F[i] = Body(F)[i]
    BY <1>7
  <2> HIDE DEF F
  <2> DEFINE Bad == {n \in 0..Len(s) : F[n] # f[n]}
  <2>1. Bad \subseteq Nat /\ Bad # {}
    BY <1>0
  <2>2. PICK n \in Bad : \A m \in Bad : n <= m
    BY <2>1, LeastNumber
  <2>3. n # 0
    BY <1>0, <1>5, <2>0, <2>2
  <2>4. n - 1 \in 0..Len(s) /\ n - 1 \notin Bad
    BY <1>0, <2>2, <2>3
  <2>5. F[n - 1] = f[n - 1]
    BY <2>4
  <2> QED
    BY <1>0, <1>5, <2>0, <2>2, <2>3, <2>5
<1> QED
  BY <1>4, <1>8, <1>9

\* r consists of the first n elements of s that are in S: pos says which.
Picks(pos, r, s, S, n) ==
  /\ pos \in [1..Len(r) -> 1..n]
  /\ \A i \in 1..Len(r) : r[i] = s[pos[i]] /\ s[pos[i]] \in S
  /\ \A i, j \in 1..Len(r) : i < j => pos[i] < pos[j]
  /\ \A k \in 1..n : s[k] \in S => \E i \in 1..Len(r) : pos[i] = k

\* The filtered list has the elements that are in S, all of them, in order.
LEMMA FilterKeepsOrder ==
  ASSUME NEW T, NEW s \in Seq(T), NEW S
  PROVE  /\ Filtered(s, S) \in Seq(T)
         /\ \E pos : Picks(pos, Filtered(s, S), s, S, Len(s))
<1>0. Len(s) \in Nat /\ \A i \in 1..Len(s) : s[i] \in T
  OBVIOUS
<1>1. PICK f \in [0..Len(s) -> Seq(T)] :
        Grows(f, s, S, Len(s)) /\ Filtered(s, S) = f[Len(s)]
  BY FilterDefined
<1> DEFINE Good(n) == \E pos : Picks(pos, f[n], s, S, n)
<1>2. Good(0)
  <2> DEFINE pos == [i \in {} |-> 0]
  <2>1. f[0] = <<>> /\ Len(f[0]) = 0
    BY <1>1 DEF Grows
  <2>2. pos \in [1..0 -> 1..0]
    OBVIOUS
  <2>3. Picks(pos, f[0], s, S, 0)
    <3> HIDE DEF pos
    <3> QED
      BY <2>1, <2>2 DEF Picks
  <2> QED
    BY <2>3
<1>3. ASSUME NEW n \in Nat, n < Len(s), Good(n) PROVE Good(n + 1)
  <2>0. n \in 0..Len(s) /\ n + 1 \in 1..Len(s) /\ f[n] \in Seq(T)
    BY <1>0, <1>3
  <2>1. PICK pos : Picks(pos, f[n], s, S, n)
    BY <1>3
  <2>2. f[n + 1] = IF s[n + 1] \in S THEN Append(f[n], s[n + 1]) ELSE f[n]
    <3>1. f[n + 1] = IF s[n + 1] \in S THEN Append(f[n + 1 - 1], s[n + 1]) ELSE f[n + 1 - 1]
      BY <1>1, <2>0 DEF Grows
    <3> QED
      BY <2>0, <3>1
  <2>3. CASE s[n + 1] \notin S
    <3>1. f[n + 1] = f[n]
      BY <2>2, <2>3
    <3>2. pos \in [1..Len(f[n]) -> 1..(n + 1)]
      BY <1>3, <2>1 DEF Picks
    <3>3. \A k \in 1..(n + 1) : s[k] \in S => k \in 1..n
      BY <1>3, <2>3
    <3>4. Picks(pos, f[n + 1], s, S, n + 1)
      BY <2>1, <3>1, <3>2, <3>3 DEF Picks
    <3> QED
      BY <3>4
  <2>4. CASE s[n + 1] \in S
    <3> DEFINE l == Len(f[n])
               q == [i \in 1..(l + 1) |-> IF i <= l THEN pos[i] ELSE n + 1]
    <3>0. l \in Nat
      BY <2>0
    <3>1. /\ Len(f[n + 1]) = l + 1
          /\ f[n + 1][l + 1] = s[n + 1]
          /\ \A i \in 1..l : f[n + 1][i] = f[n][i]
      BY <2>0, <2>2, <2>4
    <3>2. \A i \in 1..l : pos[i] \in 1..n
      BY <2>1 DEF Picks
    <3>3. q \in [1..(l + 1) -> 1..(n + 1)]
      BY <1>3, <3>0, <3>2
    <3>4. (\A i \in 1..l : q[i] = pos[i]) /\ q[l + 1] = n + 1
      BY <3>0
    <3> HIDE DEF q, l
    <3>5. ASSUME NEW i \in 1..(l + 1)
          PROVE  f[n + 1][i] = s[q[i]] /\ s[q[i]] \in S
      <4>1. CASE i \in 1..l
        BY <2>1, <3>1, <3>4, <4>1 DEF Picks, l
      <4>2. CASE i = l + 1
        BY <2>4, <3>1, <3>4, <4>2
      <4> QED
        BY <3>0, <4>1, <4>2
    <3>6. ASSUME NEW i \in 1..(l + 1), NEW j \in 1..(l + 1), i < j PROVE q[i] < q[j]
      <4>1. CASE j \in 1..l
        <5>1. i \in 1..l
          BY <3>0, <3>6, <4>1
        <5> QED
          BY <2>1, <3>4, <3>6, <4>1, <5>1 DEF Picks, l
      <4>2. CASE j = l + 1
        <5>1. i \in 1..l
          BY <3>0, <3>6, <4>2
        <5> QED
          BY <1>3, <3>2, <3>4, <4>2, <5>1
      <4> QED
        BY <3>0, <4>1, <4>2
    <3>7. ASSUME NEW k \in 1..(n + 1), s[k] \in S PROVE \E i \in 1..(l + 1) : q[i] = k
      <4>1. CASE k \in 1..n
        <5>1. PICK i \in 1..l : pos[i] = k
          BY <2>1, <3>7, <4>1 DEF Picks, l
        <5> QED
          BY <3>0, <3>4, <5>1
      <4>2. CASE k = n + 1
        BY <3>0, <3>4, <4>2
      <4> QED
        BY <1>3, <4>1, <4>2
    <3>8. Picks(q, f[n + 1], s, S, n + 1)
      BY <3>1, <3>3, <3>5, <3>6, <3>7 DEF Picks
    <3> QED
      BY <3>8
  <2> QED
    BY <2>3, <2>4
<1> HIDE DEF Good
<1>4. Good(Len(s))
  <2> SUFFICES ASSUME ~Good(Len(s)) PROVE FALSE
    OBVIOUS
  <2> DEFINE Bad == {n \in 0..Len(s) : ~Good(n)}
  <2>0. Bad \subseteq Nat /\ Bad # {}
    BY <1>0
  <2>1. PICK n \in Bad : \A m \in Bad : n <= m
    BY <2>0, LeastNumber
  <2>2. n # 0 /\ n - 1 \in Nat /\ n - 1 < Len(s) /\ n - 1 \notin Bad
    BY <1>0, <1>2, <2>1
  <2>3. Good(n - 1)
    BY <1>0, <2>1, <2>2
  <2> QED
    BY <1>0, <1>3, <2>1, <2>2, <2>3
<1> QED
  BY <1>0, <1>1, <1>4 DEF Good
-----------------------------------------------------------------------------
(* The suites.                                                             *)

\* The suites of Go's tables that the operand may be told to serve.
Servable == {id \in (DOMAIN SecureSuites \cup DOMAIN InsecureSuites) \ 4865..4868 :
               GoName(id) \notin RC4Names}

\* Go lists a suite under one name.
LEMMA OneName ==
  ASSUME NEW id \in DOMAIN SecureSuites \cup DOMAIN InsecureSuites
  PROVE  goCipherName(id) = {GoName(id)}
<1>1. CASE id \in DOMAIN SecureSuites
  <2>1. goCipherName(id) = {SecureSuites[id]}
    BY <1>1, TablesAssumption DEF goCipherName, Lookup
  <2> QED
    BY <2>1 DEF GoName
<1>2. CASE id \in DOMAIN InsecureSuites
  <2>1. goCipherName(id) = {InsecureSuites[id]}
    BY <1>2, TablesAssumption DEF goCipherName, Lookup
  <2> QED
    BY <2>1 DEF GoName
<1> QED
  BY <1>1, <1>2

\* rc4CipherIDs has the IDs whose Go name is one of RC4.
LEMMA RC4ByName ==
  ASSUME NEW id \in DOMAIN SecureSuites \cup DOMAIN InsecureSuites
  PROVE  id \in rc4CipherIDs <=> GoName(id) \in RC4Names
<1>1. CASE id \in DOMAIN SecureSuites
  <2>1. goCipherName(id) = {SecureSuites[id]} /\ id \notin DOMAIN InsecureSuites
    BY <1>1, TablesAssumption DEF goCipherName, Lookup
  <2>2. GoName(id) = SecureSuites[id]
    BY <2>1 DEF GoName
  <2> QED
    BY <1>1, <2>1, <2>2, TablesAssumption DEF rc4CipherIDs
<1>2. CASE id \in DOMAIN InsecureSuites
  <2>1. goCipherName(id) = {InsecureSuites[id]}
    BY <1>2, TablesAssumption DEF goCipherName, Lookup
  <2>2. GoName(id) = InsecureSuites[id]
    BY <2>1 DEF GoName
  <2> QED
    BY <1>2, <2>2 DEF rc4CipherIDs
<1> QED
  BY <1>1, <1>2

\* resolveCipherID finds the one suite that a name stands for, if there is one.
LEMMA ResolvesNames ==
  ASSUME NEW name, NEW id, Names(name, id)
  PROVE  resolveCipherID(name) = {id}
<1>1. CASE name \in DOMAIN CipherSuite
  BY <1>1, TablesAssumption DEF Names, resolveCipherID
<1>2. CASE name \notin DOMAIN CipherSuite
  <2>1. /\ name \in DOMAIN OpenSSLToIANA
        /\ OpenSSLToIANA[name] \in DOMAIN CipherSuite
        /\ CipherSuite[OpenSSLToIANA[name]] = id
    BY <1>2 DEF Names
  <2> QED
    BY <1>2, <2>1 DEF resolveCipherID, Lookup
<1> QED
  BY <1>1, <1>2

\* It finds nothing that the name does not stand for.
LEMMA ResolvedIsNamed ==
  ASSUME NEW name, NEW id \in resolveCipherID(name)
  PROVE  Names(name, id)
<1>1. CASE name \in DOMAIN CipherSuite
  BY <1>1 DEF Names, resolveCipherID
<1>2. CASE name \notin DOMAIN CipherSuite
  <2>1. PICK iana \in Lookup(OpenSSLToIANA, name) : id \in Lookup(CipherSuite, iana)
    BY <1>2 DEF resolveCipherID
  <2> QED
    BY <2>1 DEF Names, Lookup
<1> QED
  BY <1>1, <1>2

\* A cipher that stands for a suite the operand may serve is passed on by the
\* name Go has for it,
LEMMA ServableIsPassedOn ==
  ASSUME NEW name, NEW id \in Servable, Names(name, id)
  PROVE  OperandSuites(name) = {GoName(id)}
<1>1. id \in DOMAIN SecureSuites \cup DOMAIN InsecureSuites /\ id \in Nat
  BY TablesAssumption DEF Servable
<1>2. id \notin rc4CipherIDs
  BY <1>1, RC4ByName DEF Servable
<1>3. ~isTLS13CipherID(id)
  BY <1>1 DEF Servable, isTLS13CipherID
<1>4. {i \in resolveCipherID(name) : i \notin rc4CipherIDs /\ ~isTLS13CipherID(i)} = {id}
  BY <1>2, <1>3, ResolvesNames
<1>5. goCipherName(id) = {GoName(id)}
  BY <1>1, OneName
<1> QED
  BY <1>4, <1>5 DEF OperandSuites

\* and no other cipher is passed on.
LEMMA PassedOnIsServable ==
  ASSUME NEW name, OperandSuites(name) # {}
  PROVE  \E id \in Servable : Names(name, id)
<1>1. PICK id \in resolveCipherID(name) :
        /\ id \notin rc4CipherIDs /\ ~isTLS13CipherID(id)
        /\ goCipherName(id) # {}
  BY DEF OperandSuites
<1>2. id \in DOMAIN SecureSuites \cup DOMAIN InsecureSuites
  BY <1>1 DEF goCipherName, Lookup
<1>3. id \in Nat
  BY <1>2, TablesAssumption
<1>4. id \notin 4865..4868
  BY <1>1, <1>3 DEF isTLS13CipherID
<1>5. GoName(id) \notin RC4Names
  BY <1>1, <1>2, RC4ByName
<1> QED
  BY <1>1, <1>2, <1>4, <1>5, ResolvedIsNamed DEF Servable
-----------------------------------------------------------------------------
(* The translation.                                                        *)

\* The ciphers that have a suite for the operand.
Kept(p) == {name \in {p.ciphers[i] : i \in 1..Len(p.ciphers)} : OperandSuites(name) # {}}

\* The suite each cipher of a list is passed on as.
SuitesFor(names) ==
  [i \in 1..Len(names) |-> CHOOSE n \in OperandSuites(names[i]) : TRUE]

\* What the translation is where it succeeds.
LEMMA Translated ==
  ASSUME NEW p, TranslateProfile(p) # TranslationError
  PROVE  /\ TranslateProfile(p).minVersion = IF p.min \in DOMAIN operandMinVersions
                                               THEN operandMinVersions[p.min] ELSE ""
         /\ TranslateProfile(p).curvePreferences =
              [i \in 1..Len(SupportedGroups(p)) |-> CurveIDs[SupportedGroups(p)[i]]]
         /\ TranslateProfile(p).cipherSuites = SuitesFor(Filtered(p.ciphers, Kept(p)))
<1>1. CurvePreferencesFromSpec(p) # TranslationError
  BY DEF TranslateProfile
<1>2. CurvePreferencesFromSpec(p) =
        [i \in 1..Len(SupportedGroups(p)) |-> CurveIDs[SupportedGroups(p)[i]]]
  BY <1>1 DEF CurvePreferencesFromSpec
<1> DEFINE options ==
        [minVersion |-> IF p.min \in DOMAIN operandMinVersions
                          THEN operandMinVersions[p.min] ELSE "",
         curvePreferences |-> CurvePreferencesFromSpec(p),
         cipherSuites |-> SuitesFor(Filtered(p.ciphers, Kept(p)))]
<1>3. TranslateProfile(p) =
        IF CurvePreferencesFromSpec(p) = TranslationError THEN TranslationError ELSE options
  BY DEF TranslateProfile, Kept, SuitesFor
<1>4. TranslateProfile(p) = options
  <2> HIDE DEF options
  <2> QED
    BY <1>1, <1>3
<1>5. /\ options.minVersion = IF p.min \in DOMAIN operandMinVersions
                                THEN operandMinVersions[p.min] ELSE ""
      /\ options.curvePreferences = CurvePreferencesFromSpec(p)
      /\ options.cipherSuites = SuitesFor(Filtered(p.ciphers, Kept(p)))
  BY Zenon
<1> HIDE DEF options
<1> QED
  BY <1>2, <1>4, <1>5, Zenon

\* The versions' names are the operand's.
LEMMA VersionNames ==
  ASSUME NEW v \in DOMAIN operandMinVersions
  PROVE  operandMinVersions[v] \in {"1.0", "1.1", "1.2", "1.3"}
<1>1. v \in {"VersionTLS10", "VersionTLS11", "VersionTLS12", "VersionTLS13"}
  BY DEF operandMinVersions
<1> QED
  BY <1>1 DEF operandMinVersions

\* The list of suites: pos says which cipher of the profile each comes from.
LEMMA SuitesTranslated ==
  ASSUME NEW T, NEW p, p.ciphers \in Seq(T), TranslateProfile(p) # TranslationError
  PROVE  LET suites == TranslateProfile(p).cipherSuites IN
         /\ Len(suites) \in Nat
         /\ \E pos \in [1..Len(suites) -> 1..Len(p.ciphers)] :
              /\ \A i, j \in 1..Len(suites) : i < j => pos[i] < pos[j]
              /\ \A i \in 1..Len(suites) :
                   \E id \in Servable : Names(p.ciphers[pos[i]], id) /\ suites[i] = GoName(id)
              /\ \A k \in 1..Len(p.ciphers) :
                   (\E id \in Servable : Names(p.ciphers[k], id))
                     => \E i \in 1..Len(suites) : pos[i] = k
<1> DEFINE names == Filtered(p.ciphers, Kept(p))
           suites == TranslateProfile(p).cipherSuites
<1>1. names \in Seq(T) /\ \E pos : Picks(pos, names, p.ciphers, Kept(p), Len(p.ciphers))
  BY FilterKeepsOrder
<1>2. PICK pos : Picks(pos, names, p.ciphers, Kept(p), Len(p.ciphers))
  BY <1>1
<1>3. suites = [i \in 1..Len(names) |-> CHOOSE n \in OperandSuites(names[i]) : TRUE]
  BY Translated DEF SuitesFor
<1>4. Len(names) \in Nat
  BY <1>1
<1>5. Len(suites) = Len(names)
  BY <1>3, <1>4
<1>6. \A i \in 1..Len(names) : suites[i] = CHOOSE n \in OperandSuites(names[i]) : TRUE
  BY <1>3
<1> HIDE DEF names, suites
<1>7. ASSUME NEW i \in 1..Len(suites)
      PROVE  \E id \in Servable : Names(p.ciphers[pos[i]], id) /\ suites[i] = GoName(id)
  <2>1. names[i] = p.ciphers[pos[i]] /\ names[i] \in Kept(p)
    BY <1>2, <1>5 DEF Picks
  <2>2. PICK id \in Servable : Names(names[i], id)
    BY <2>1, PassedOnIsServable DEF Kept
  <2>3. OperandSuites(names[i]) = {GoName(id)}
    BY <2>2, ServableIsPassedOn
  <2>4. suites[i] = GoName(id)
    BY <1>5, <1>6, <2>3
  <2> QED
    BY <2>1, <2>2, <2>4
<1>8. ASSUME NEW k \in 1..Len(p.ciphers), NEW id \in Servable, Names(p.ciphers[k], id)
      PROVE  \E i \in 1..Len(suites) : pos[i] = k
  <2>1. OperandSuites(p.ciphers[k]) # {}
    BY <1>8, ServableIsPassedOn
  <2>2. p.ciphers[k] \in Kept(p)
    BY <2>1 DEF Kept
  <2> QED
    BY <1>2, <1>5, <2>2 DEF Picks
<1>9. /\ pos \in [1..Len(suites) -> 1..Len(p.ciphers)]
      /\ \A i, j \in 1..Len(suites) : i < j => pos[i] < pos[j]
  BY <1>2, <1>5 DEF Picks
<1>10. \A k \in 1..Len(p.ciphers) :
         (\E id \in Servable : Names(p.ciphers[k], id)) => \E i \in 1..Len(suites) : pos[i] = k
  BY <1>8
<1>11. \A i \in 1..Len(suites) :
         \E id \in Servable : Names(p.ciphers[pos[i]], id) /\ suites[i] = GoName(id)
  BY <1>7
<1> QED
  BY <1>4, <1>5, <1>9, <1>10, <1>11 DEF suites

\* The operand accepts what TranslateProfile makes of any profile, whatever
\* ciphers the profile lists: no RC4 suite, no TLS 1.3 one and no name that Go
\* does not have is passed on.
THEOREM TranslationAccepted ==
  ASSUME NEW T, NEW p, p.ciphers \in Seq(T), TranslateProfile(p) # TranslationError
  PROVE  Accepts(TranslateProfile(p))
<1> DEFINE opts == TranslateProfile(p)
           suites == opts.cipherSuites
<1>1. opts.minVersion \in {"", "1.0", "1.1", "1.2", "1.3"}
  <2>1. opts.minVersion = IF p.min \in DOMAIN operandMinVersions
                            THEN operandMinVersions[p.min] ELSE ""
    BY Translated
  <2> QED
    BY <2>1, VersionNames
<1>2. ASSUME NEW i \in 1..Len(suites)
      PROVE  /\ suites[i] \notin RC4Names
             /\ \E id \in (DOMAIN SecureSuites \cup DOMAIN InsecureSuites) \ 4865..4868 :
                  suites[i] \in goCipherName(id)
  <2>1. PICK id \in Servable : suites[i] = GoName(id)
    BY SuitesTranslated
  <2>2. goCipherName(id) = {GoName(id)}
    BY OneName DEF Servable
  <2> QED
    BY <2>1, <2>2 DEF Servable
<1> QED
  BY <1>1, <1>2 DEF Accepts

\* The list of curves: the profile's groups that this build supports, in order;
\* none only where the profile has no groups.
LEMMA CurvesServed ==
  ASSUME NEW T, NEW p, p.groups \in Seq(T), TranslateProfile(p) # TranslationError
  PROVE  ServesCurves(Effective(TranslateProfile(p).curvePreferences, DefaultCurves), p)
<1> DEFINE curves == TranslateProfile(p).curvePreferences
           groups == SupportedGroups(p)
<1>1. groups \in Seq(T) /\ \E at : Picks(at, groups, p.groups, DOMAIN CurveIDs, Len(p.groups))
  BY FilterKeepsOrder DEF SupportedGroups
<1>2. PICK at : Picks(at, groups, p.groups, DOMAIN CurveIDs, Len(p.groups))
  BY <1>1
<1>3. curves = [i \in 1..Len(groups) |-> CurveIDs[groups[i]]]
  BY Translated
<1>4. Len(groups) \in Nat
  BY <1>1
<1>5. Len(curves) = Len(groups) /\ \A i \in 1..Len(groups) : curves[i] = CurveIDs[groups[i]]
  BY <1>3, <1>4
<1>6. p.groups # <<>> => groups # <<>>
  BY DEF TranslateProfile, CurvePreferencesFromSpec
<1> HIDE DEF curves, groups
<1>7. ASSUME NEW i \in 1..Len(curves)
      PROVE  /\ at[i] \in 1..Len(p.groups) /\ p.groups[at[i]] \in DOMAIN CurveIDs
             /\ groups[i] = p.groups[at[i]] /\ curves[i] = CurveIDs[p.groups[at[i]]]
  BY <1>2, <1>5 DEF Picks
<1>8. CASE p.groups = <<>>
  <2>1. Len(p.groups) = 0
    BY <1>8
  <2>2. Len(curves) = 0
    BY <1>4, <1>5, <1>7, <2>1
  <2> QED
    BY <1>8, <2>2 DEF ServesCurves, Effective, curves
<1>9. CASE p.groups # <<>>
  <2>1. Len(curves) # 0
    BY <1>1, <1>5, <1>6, <1>9
  <2>2. Effective(curves, DefaultCurves) = curves
    BY <2>1 DEF Effective
  <2>3. ASSUME NEW g \in DOMAIN CurveIDs, NEW k \in 1..Len(p.groups), p.groups[k] = g
        PROVE  \E n \in 1..Len(curves) : curves[n] = CurveIDs[g]
    <3>1. PICK n \in 1..Len(groups) : at[n] = k
      BY <1>2, <2>3 DEF Picks
    <3> QED
      BY <1>5, <1>7, <2>3, <3>1
  <2>4. ASSUME NEW g \in DOMAIN CurveIDs, NEW n \in 1..Len(curves), curves[n] = CurveIDs[g]
        PROVE  \E k \in 1..Len(p.groups) : p.groups[k] = g
    <3>1. p.groups[at[n]] = g
      BY <1>7, <2>4, TablesAssumption
    <3> QED
      BY <1>7, <3>1
  <2>5. \A i \in 1..Len(curves) : \E g \in DOMAIN CurveIDs : curves[i] = CurveIDs[g]
    BY <1>7
  <2>6. ASSUME NEW i \in 1..Len(curves), NEW j \in 1..Len(curves), i < j
        PROVE  \E k, l \in 1..Len(p.groups) :
                 /\ k < l /\ {p.groups[k], p.groups[l]} \subseteq DOMAIN CurveIDs
                 /\ curves[i] = CurveIDs[p.groups[k]] /\ curves[j] = CurveIDs[p.groups[l]]
    <3>1. at[i] < at[j]
      BY <1>2, <1>5, <2>6 DEF Picks
    <3> QED
      BY <1>7, <3>1
  <2>7. \A g \in DOMAIN CurveIDs :
          (\E k \in 1..Len(p.groups) : p.groups[k] = g)
            <=> \E i \in 1..Len(curves) : curves[i] = CurveIDs[g]
    BY <2>3, <2>4
  <2>8. ServesCurves(curves, p)
    BY <1>9, <2>5, <2>6, <2>7 DEF ServesCurves
  <2> QED
    BY <2>2, <2>8 DEF curves
<1> QED
  BY <1>8, <1>9

\* With what TranslateProfile makes of any profile, the operand serves what the
\* profile asks for: its minimum version, its suites and its curves, none added,
\* none lost and in the profile's order, and Go's defaults where no suite of the
\* profile is left, or it has no groups.
THEOREM TranslationServes ==
  ASSUME NEW T, NEW p, p.ciphers \in Seq(T), p.groups \in Seq(T),
         TranslateProfile(p) # TranslationError
  PROVE  Serves(TranslateProfile(p), p)
<1> DEFINE opts == TranslateProfile(p)
           suites == opts.cipherSuites
           curves == opts.curvePreferences
<1>1. p.min \in DOMAIN operandMinVersions => opts.minVersion = operandMinVersions[p.min]
  BY Translated
<1>2. PICK pos \in [1..Len(suites) -> 1..Len(p.ciphers)] :
        /\ \A i, j \in 1..Len(suites) : i < j => pos[i] < pos[j]
        /\ \A i \in 1..Len(suites) :
             \E id \in Servable : Names(p.ciphers[pos[i]], id) /\ suites[i] = GoName(id)
        /\ \A k \in 1..Len(p.ciphers) :
             (\E id \in Servable : Names(p.ciphers[k], id)) => \E i \in 1..Len(suites) : pos[i] = k
  BY SuitesTranslated
<1>3. \A id : id \in Offered(p) <=>
        id \in Servable /\ \E k \in 1..Len(p.ciphers) : Names(p.ciphers[k], id)
  BY DEF Offered, Servable
<1>0. Len(suites) \in Nat
  BY SuitesTranslated
<1> HIDE DEF suites
<1>4. ASSUME NEW i \in 1..Len(suites)
      PROVE  \E id \in Offered(p) : Names(p.ciphers[pos[i]], id) /\ GoName(id) = suites[i]
  <2>1. PICK id \in Servable : Names(p.ciphers[pos[i]], id) /\ suites[i] = GoName(id)
    BY <1>2
  <2>2. pos[i] \in 1..Len(p.ciphers)
    BY <1>2
  <2> QED
    BY <1>3, <2>1, <2>2
<1>5. ASSUME NEW id \in Offered(p)
      PROVE  \E i \in 1..Len(suites) : suites[i] = GoName(id)
  <2>1. PICK k \in 1..Len(p.ciphers) : id \in Servable /\ Names(p.ciphers[k], id)
    BY <1>3
  <2>2. PICK i \in 1..Len(suites) : pos[i] = k
    BY <1>2, <2>1
  <2>3. PICK other \in Servable : Names(p.ciphers[k], other) /\ suites[i] = GoName(other)
    BY <1>2, <2>2
  <2>4. OperandSuites(p.ciphers[k]) = {GoName(id)}
    BY <2>1, ServableIsPassedOn
  <2>5. OperandSuites(p.ciphers[k]) = {GoName(other)}
    BY <2>3, ServableIsPassedOn
  <2> QED
    BY <2>3, <2>4, <2>5
<1>6. {suites[i] : i \in 1..Len(suites)} = {GoName(id) : id \in Offered(p)}
  <2>1. ASSUME NEW i \in 1..Len(suites) PROVE suites[i] \in {GoName(id) : id \in Offered(p)}
    BY <1>4
  <2>2. ASSUME NEW id \in Offered(p) PROVE GoName(id) \in {suites[i] : i \in 1..Len(suites)}
    BY <1>5
  <2> QED
    BY <2>1, <2>2
<1>7. ASSUME NEW i \in 1..Len(suites), NEW j \in 1..Len(suites), i < j
      PROVE  \E k, l \in 1..Len(p.ciphers) :
               /\ k < l
               /\ \E id \in Offered(p) : Names(p.ciphers[k], id) /\ GoName(id) = suites[i]
               /\ \E id \in Offered(p) : Names(p.ciphers[l], id) /\ GoName(id) = suites[j]
  <2>1. pos[i] \in 1..Len(p.ciphers) /\ pos[j] \in 1..Len(p.ciphers) /\ pos[i] < pos[j]
    BY <1>2, <1>7
  <2>2. \E id \in Offered(p) : Names(p.ciphers[pos[i]], id) /\ GoName(id) = suites[i]
    BY <1>4
  <2>3. \E id \in Offered(p) : Names(p.ciphers[pos[j]], id) /\ GoName(id) = suites[j]
    BY <1>4
  <2> QED
    BY <2>1, <2>2, <2>3
<1>8. ServesSuites(Effective(suites, DefaultSuites), p)
  <2>1. CASE Offered(p) = {}
    <3>1. Len(suites) = 0
      BY <1>0, <1>4, <2>1
    <3> QED
      BY <2>1, <3>1 DEF ServesSuites, Effective
  <2>2. CASE Offered(p) # {}
    <3>1. Len(suites) # 0
      BY <1>0, <1>5, <2>2
    <3>2. Effective(suites, DefaultSuites) = suites
      BY <3>1 DEF Effective
    <3>3. \A i, j \in 1..Len(suites) : i < j =>
            \E k, l \in 1..Len(p.ciphers) :
              /\ k < l
              /\ \E id \in Offered(p) : Names(p.ciphers[k], id) /\ GoName(id) = suites[i]
              /\ \E id \in Offered(p) : Names(p.ciphers[l], id) /\ GoName(id) = suites[j]
      BY <1>7
    <3>4. ServesSuites(suites, p)
      BY <1>6, <2>2, <3>3, Zenon DEF ServesSuites
    <3> QED
      BY <3>2, <3>4, Zenon
  <2> QED
    BY <2>1, <2>2
<1>9. ServesCurves(Effective(curves, DefaultCurves), p)
  BY CurvesServed
<1> QED
  BY <1>1, <1>8, <1>9 DEF Serves, suites
=============================================================================
