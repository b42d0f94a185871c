-------------------------- MODULE AliasMap_proofs --------------------------
(***************************************************************************)
(* Proofs about the alias map for every set of models and every derivation *)
(* of aliases that gives each model one of its own.                        *)
(***************************************************************************)
EXTENDS AliasMap, TLAPS, WellFoundedInduction

-----------------------------------------------------------------------------
(***************************************************************************)
(* The inductive invariant: both directions of the map agree, every name   *)
(* in the map and in the file was derived for its model, and while nothing *)
(* was forgotten the map holds every pair that was shown.                  *)
(***************************************************************************)

Sound(names) ==
  /\ \A m \in Models : names[m] # Nothing =>
       /\ names[m] \notin Denied
       /\ \E n \in 0..MaxNonce : names[m] = Derive[m][n]
  /\ \A m, k \in Models : names[m] = names[k] /\ names[m] # Nothing => m = k

ListedAreNamed == \A m \in listed \ unnamed : realToAlias[m] # Nothing

Remembered == ~forgotten => \A p \in shown : realToAlias[p[2]] = p[1]

AliasInv ==
  /\ TypeOK
  /\ AliasesAreExact
  /\ Sound(realToAlias)
  /\ aliasFile # Nothing => Sound(aliasFile)
  /\ ListedAreNamed
  /\ Remembered

-----------------------------------------------------------------------------
\* What binding a name does.

Less == {ss \in Nat \X Nat : ss[1] < ss[2]}

\* A set of numbers that is not empty has a least one.
LEMMA LeastNumber ==
  ASSUME NEW S, S \subseteq Nat, S # {}
  PROVE  \E x \in S : \A y \in 0..x-1 : y \notin S
<1>1. IsWellFoundedOn(Less, Nat)
  BY NatLessThanWellFounded DEF OpToRel, Less
<1>2. PICK x \in S : \A y \in S : ~ (<<y, x>> \in Less)
  BY <1>1, WFMin, Zenon
<1>3. \A y \in 0..x-1 : <<y, x>> \in Less
  BY DEF Less
<1> QED BY <1>2, <1>3

\* The maps that a sound set of names determines agree.
LEMMA OwnersAgree ==
  ASSUME NEW names \in Names, Sound(names)
  PROVE  /\ OwnersOf(names) \in [Aliases -> Models \cup {Nothing}]
         /\ \A m \in Models, a \in Aliases : names[m] = a <=> OwnersOf(names)[a] = m
         /\ \A a \in Denied : OwnersOf(names)[a] = Nothing
<1> DEFINE Owned(a) == \E m \in Models : names[m] = a
           Owner(a) == CHOOSE m \in Models : names[m] = a
<1>1. \A a \in Aliases : OwnersOf(names)[a] = IF Owned(a) THEN Owner(a) ELSE Nothing
  BY DEF OwnersOf
<1>2. \A a \in Aliases : Owned(a) => Owner(a) \in Models /\ names[Owner(a)] = a
  OBVIOUS
<1>3. Nothing \notin Models /\ Nothing \notin Aliases /\ Denied \subseteq Aliases
  BY NothingAssumption, NonceAssumption
<1>4. OwnersOf(names) \in [Aliases -> Models \cup {Nothing}]
  BY <1>2 DEF OwnersOf
<1>5. ASSUME NEW m \in Models, NEW a \in Aliases PROVE names[m] = a <=> OwnersOf(names)[a] = m
  <2>1. names[m] = a => Owner(a) = m
    BY <1>2, <1>3 DEF Sound
  <2> QED BY <1>1, <1>2, <1>3, <2>1
<1>6. ASSUME NEW a \in Denied PROVE OwnersOf(names)[a] = Nothing
  <2>1. ~Owned(a)
    BY <1>3 DEF Sound
  <2> QED BY <1>1, <1>3, <2>1
<1> QED BY <1>4, <1>5, <1>6

\* The search for a nonce finds a free alias.
LEMMA SearchFindsFree ==
  ASSUME AliasInv, NEW m \in Models, realToAlias[m] = Nothing
  PROVE  \E n \in 0..MaxNonce : AliasFor(m) = Derive[m][n] /\ Free(m, n)
<1> USE DEF AliasInv
<1> DEFINE FreeNonces == {n \in 0..MaxNonce : Free(m, n)}
<1>1. FreeNonces # {}
  <2>1. PICK n \in 0..MaxNonce :
          /\ Derive[m][n] \notin Denied
          /\ \A k \in Models \ {m}, i \in 0..MaxNonce : Derive[k][i] # Derive[m][n]
    BY DeriveAssumption
  <2>2. Derive[m][n] \in Aliases
    BY DeriveAssumption
  <2>3. ASSUME NEW k \in Models \ {m}, aliasToReal[Derive[m][n]] = k PROVE FALSE
    <3>1. realToAlias[k] = Derive[m][n]
      BY <2>2, <2>3 DEF AliasesAreExact
    <3>2. realToAlias[k] # Nothing
      BY <2>2, <3>1, NothingAssumption
    <3> QED BY <2>1, <3>1, <3>2 DEF Sound
  <2>4. aliasToReal[Derive[m][n]] \in Models \cup {Nothing}
    BY <2>2 DEF TypeOK
  <2> QED BY <2>1, <2>3, <2>4 DEF Free
<1>2. PICK n \in FreeNonces : \A i \in 0..n-1 : i \notin FreeNonces
  <2>1. FreeNonces \subseteq Nat
    BY NonceAssumption
  <2> QED BY <1>1, <2>1, LeastNumber
<1>3. Free(m, n) /\ \A i \in 0..n-1 : ~Free(m, i)
  BY <1>2, NonceAssumption
<1> DEFINE Found == CHOOSE j \in 0..MaxNonce : Free(m, j) /\ \A i \in 0..j-1 : ~Free(m, i)
<1>4. Found \in 0..MaxNonce /\ Free(m, Found)
  BY <1>2, <1>3
<1>5. AliasFor(m) = Derive[m][Found]
  BY DEF AliasFor
<1> QED BY <1>4, <1>5

\* Binding keeps the map exact and every name that is in it.
LEMMA BindKeeps ==
  ASSUME AliasInv, NEW m \in Models, Bind(m)
  PROVE  /\ realToAlias' \in Names
         /\ aliasToReal' \in [Aliases -> Models \cup {Nothing}]
         /\ AliasesAreExact'
         /\ Sound(realToAlias')
         /\ realToAlias'[m] # Nothing
         /\ \A k \in Models : realToAlias[k] # Nothing => realToAlias'[k] = realToAlias[k]
<1> USE DEF AliasInv
<1>1. realToAlias \in Names /\ aliasToReal \in [Aliases -> Models \cup {Nothing}]
  BY DEF TypeOK
<1>2. Nothing \notin Models /\ Nothing \notin Aliases /\ Denied \subseteq Aliases
  BY NothingAssumption, NonceAssumption
<1>3. CASE realToAlias[m] # Nothing
  <2>1. AliasFor(m) = realToAlias[m] /\ realToAlias[m] \in Aliases
    BY <1>1, <1>3 DEF AliasFor, Names
  <2>2. aliasToReal[realToAlias[m]] = m
    BY <2>1 DEF AliasesAreExact
  <2>3. realToAlias' = realToAlias /\ aliasToReal' = aliasToReal
    BY <1>1, <2>1, <2>2 DEF Bind, Names
  <2> QED BY <1>1, <1>3, <2>3 DEF AliasesAreExact, Sound
<1>4. CASE realToAlias[m] = Nothing
  <2>1. PICK n \in 0..MaxNonce : AliasFor(m) = Derive[m][n] /\ Free(m, n)
    BY <1>4, SearchFindsFree
  <2> DEFINE a == AliasFor(m)
  <2>2. a \in Aliases /\ a # Nothing
    <3>1. Derive[m][n] \in Aliases
      BY DeriveAssumption
    <3> QED BY <1>2, <2>1, <3>1
  <2>3. a \notin Denied /\ aliasToReal[a] \in {m, Nothing}
    BY <2>1 DEF Free
  <2>4. aliasToReal[a] = Nothing
    BY <1>2, <1>4, <2>2, <2>3 DEF AliasesAreExact
  <2>5. \A k \in Models : realToAlias[k] # a
    BY <1>2, <2>2, <2>4 DEF AliasesAreExact
  <2>6. /\ realToAlias' = [realToAlias EXCEPT ![m] = a]
        /\ aliasToReal' = [aliasToReal EXCEPT ![a] = m]
    BY DEF Bind
  <2> HIDE DEF a
  <2>7. /\ realToAlias' \in Names
        /\ aliasToReal' \in [Aliases -> Models \cup {Nothing}]
    BY <1>1, <2>2, <2>6 DEF Names
  <2>8. /\ realToAlias'[m] = a
        /\ \A k \in Models \ {m} : realToAlias'[k] = realToAlias[k]
    BY <1>1, <2>6 DEF Names
  <2>9. /\ aliasToReal'[a] = m
        /\ \A b \in Aliases \ {a} : aliasToReal'[b] = aliasToReal[b]
    BY <1>1, <2>2, <2>6
  <2>10. ASSUME NEW k \in Models, NEW b \in Aliases
         PROVE  realToAlias'[k] = b <=> aliasToReal'[b] = k
    <3>1. realToAlias[k] = b <=> aliasToReal[b] = k
      BY DEF AliasesAreExact
    <3> QED BY <1>2, <1>4, <2>2, <2>4, <2>5, <2>8, <2>9, <3>1
  <2>11. \A b \in Denied : aliasToReal'[b] = Nothing
    BY <1>2, <2>3, <2>9 DEF AliasesAreExact
  <2>12. Sound(realToAlias')
    <3>1. \A k \in Models : realToAlias'[k] # Nothing =>
             /\ realToAlias'[k] \notin Denied
             /\ \E i \in 0..MaxNonce : realToAlias'[k] = Derive[k][i]
      BY <2>1, <2>3, <2>8 DEF Sound, a
    <3>2. \A k, l \in Models :
             realToAlias'[k] = realToAlias'[l] /\ realToAlias'[k] # Nothing => k = l
      BY <2>5, <2>8 DEF Sound
    <3> QED BY <3>1, <3>2 DEF Sound
  <2> QED BY <1>4, <2>2, <2>7, <2>8, <2>10, <2>11, <2>12 DEF AliasesAreExact
<1> QED BY <1>3, <1>4

-----------------------------------------------------------------------------
LEMMA InitSound == Init => AliasInv
<1> SUFFICES ASSUME Init PROVE AliasInv
  OBVIOUS
<1> USE DEF Init, NoNames
<1>1. realToAlias \in Names /\ Sound(realToAlias)
  BY DEF Names, Sound
<1>2. /\ aliasToReal \in [Aliases -> Models \cup {Nothing}]
      /\ AliasesAreExact
  BY <1>1, OwnersAgree DEF AliasesAreExact
<1>3. TypeOK
  BY <1>1, <1>2 DEF TypeOK
<1> QED BY <1>1, <1>2, <1>3 DEF AliasInv, ListedAreNamed, Remembered

\* A restart reads names that are sound.
LEMMA RestartKeeps ==
  ASSUME AliasInv, NEW file \in {aliasFile, Nothing}, Restart(file)
  PROVE  AliasInv'
<1> USE DEF AliasInv, Restart
<1>1. realToAlias' \in Names /\ Sound(realToAlias')
  <2>1. NoNames \in Names /\ Sound(NoNames)
    BY DEF NoNames, Names, Sound
  <2>2. aliasFile # Nothing => aliasFile \in Names /\ Sound(aliasFile)
    BY DEF TypeOK
  <2> QED BY <2>1, <2>2 DEF Restored
<1>2. /\ aliasToReal' \in [Aliases -> Models \cup {Nothing}]
      /\ AliasesAreExact'
  BY <1>1, OwnersAgree DEF AliasesAreExact
<1>3. aliasFile' \in Names \cup {Nothing} /\ (aliasFile' # Nothing => Sound(aliasFile'))
  BY DEF TypeOK
<1>4. forgotten' \in BOOLEAN /\ Remembered'
  BY DEF TypeOK, Remembered
<1>5. ListedAreNamed'
  BY DEF ListedAreNamed
<1>6. TypeOK'
  BY <1>1, <1>2, <1>3, <1>4 DEF TypeOK
<1> QED BY <1>1, <1>2, <1>3, <1>4, <1>5, <1>6

\* Every step keeps the invariant.
LEMMA NextSound == AliasInv /\ [Next]_vars => AliasInv'
<1> SUFFICES ASSUME AliasInv, [Next]_vars PROVE AliasInv'
  OBVIOUS
<1> USE DEF AliasInv
<1>1. ASSUME NEW models \in SUBSET Models, StartDiscovery(models) PROVE AliasInv'
  BY <1>1 DEF StartDiscovery, TypeOK, AliasesAreExact, Sound, ListedAreNamed, Remembered
<1>2. ASSUME NEW m \in Models, Bind(m), UNCHANGED <<aliasFile, shown, forgotten>>
      PROVE  /\ realToAlias' \in Names
             /\ aliasToReal' \in [Aliases -> Models \cup {Nothing}]
             /\ AliasesAreExact' /\ Sound(realToAlias')
             /\ (aliasFile # Nothing => Sound(aliasFile))'
             /\ Remembered'
  <2>1. Remembered'
    <3> SUFFICES ASSUME ~forgotten, NEW p \in shown PROVE realToAlias'[p[2]] = p[1]
      BY <1>2 DEF Remembered
    <3>1. p[2] \in Models /\ p[1] # Nothing /\ realToAlias[p[2]] = p[1]
      BY NothingAssumption DEF TypeOK, Remembered
    <3> QED BY <1>2, <3>1, BindKeeps
  <2>2. (aliasFile # Nothing => Sound(aliasFile))'
    BY <1>2 DEF Sound
  <2> QED BY <1>2, <2>1, <2>2, BindKeeps
<1>3. ASSUME NEW m \in Models, NameModel(m) PROVE AliasInv'
  <2>1. Bind(m) /\ UNCHANGED <<aliasFile, listed, shown, forgotten>> /\ unnamed' = unnamed \ {m}
    BY <1>3 DEF NameModel
  <2>2. ListedAreNamed'
    BY <2>1, BindKeeps DEF ListedAreNamed, TypeOK
  <2>3. TypeOK'
    BY <1>2, <2>1 DEF TypeOK
  <2> QED BY <1>2, <2>1, <2>2, <2>3
<1>4. ASSUME NEW m \in Models, NameByMessage(m) PROVE AliasInv'
  <2>1. Bind(m) /\ UNCHANGED <<aliasFile, listed, unnamed, shown, forgotten>>
    BY <1>4 DEF NameByMessage
  <2>2. ListedAreNamed'
    BY <2>1, BindKeeps DEF ListedAreNamed, TypeOK
  <2>3. TypeOK'
    BY <1>2, <2>1 DEF TypeOK
  <2> QED BY <1>2, <2>1, <2>2, <2>3
<1>5. ASSUME DropDiscovery PROVE AliasInv'
  BY <1>5 DEF DropDiscovery, TypeOK, AliasesAreExact, Sound, ListedAreNamed, Remembered
<1>6. ASSUME FinishDiscovery PROVE AliasInv'
  <2>1. /\ UNCHANGED <<realToAlias, aliasToReal, unnamed, forgotten>>
        /\ aliasFile' \in {realToAlias, aliasFile}
        /\ listed' = {}
        /\ shown' = shown \cup ShownWith(listed)
        /\ unnamed = {}
    BY <1>6 DEF FinishDiscovery, Saved
  <2>2. \A m \in listed : realToAlias[m] \in Aliases
    BY <2>1 DEF TypeOK, Names, ListedAreNamed
  <2>3. ShownWith(listed) \subseteq Aliases \X Models
    BY <2>2 DEF ShownWith, TypeOK
  <2>4. TypeOK'
    BY <2>1, <2>3 DEF TypeOK
  <2>5. Remembered'
    BY <2>1 DEF Remembered, ShownWith
  <2>6. (aliasFile # Nothing => Sound(aliasFile))'
    BY <2>1 DEF Sound
  <2>7. AliasesAreExact' /\ Sound(realToAlias)' /\ ListedAreNamed'
    BY <2>1 DEF AliasesAreExact, Sound, ListedAreNamed
  <2> QED BY <2>4, <2>5, <2>6, <2>7
<1>7. ASSUME Dies PROVE AliasInv'
  BY <1>7, RestartKeeps DEF Dies
<1>8. CASE UNCHANGED vars
  BY <1>8 DEF vars, TypeOK, AliasesAreExact, Sound, ListedAreNamed, Remembered
<1> QED BY <1>1, <1>3, <1>4, <1>5, <1>6, <1>7, <1>8 DEF Next

LEMMA SoundAlways == Spec => []AliasInv
BY InitSound, NextSound, PTL DEF Spec

-----------------------------------------------------------------------------
(***************************************************************************)
(* The variables keep their types: alias.js holds strings in both maps.    *)
(***************************************************************************)
THEOREM TypeCorrect == Spec => []TypeOK
BY SoundAlways, PTL DEF AliasInv

(***************************************************************************)
(* The map is collision-safe and bidirectional, whatever the hash derives, *)
(* in whatever order models are named, and after every restart.            *)
(***************************************************************************)
THEOREM Exact == Spec => []AliasesAreExact
BY SoundAlways, PTL DEF AliasInv

(***************************************************************************)
(* An alias that was shown for a model never comes to mean another one,    *)
(* unless the saved map was lost and the other model derives it too.       *)
(***************************************************************************)
THEOREM Stable == Spec => []AliasKeepsMeaning
<1>1. AliasInv => AliasKeepsMeaning
  <2> SUFFICES ASSUME AliasInv, NEW p \in shown
               PROVE  \/ aliasToReal[p[1]] \in {p[2], Nothing}
                      \/ /\ forgotten
                         /\ \E k \in Models \ {p[2]}, n \in 0..MaxNonce : Derive[k][n] = p[1]
    BY DEF AliasKeepsMeaning
  <2> USE DEF AliasInv
  <2>1. p[1] \in Aliases /\ p[2] \in Models /\ p[1] # Nothing
    BY NothingAssumption DEF TypeOK
  <2>2. aliasToReal[p[1]] \in Models \cup {Nothing}
    BY <2>1 DEF TypeOK
  <2>3. CASE ~forgotten
    BY <2>1, <2>3 DEF Remembered, AliasesAreExact
  <2>4. CASE forgotten /\ aliasToReal[p[1]] \notin {p[2], Nothing}
    <3>1. PICK k \in Models \ {p[2]} : aliasToReal[p[1]] = k
      BY <2>2, <2>4
    <3>2. realToAlias[k] = p[1]
      BY <2>1, <3>1 DEF AliasesAreExact
    <3> QED BY <2>1, <2>4, <3>2 DEF Sound
  <2> QED BY <2>3, <2>4
<1> QED BY <1>1, SoundAlways, PTL
=============================================================================
