------------------------------ MODULE AliasMap ------------------------------
(***************************************************************************)
(* The aliases under which the adapter shows the gateway's models to the   *)
(* client (model-catalog/alias.js), and what the adapter does with them:   *)
(* a discovery names every listed model, saves the map and shows it; a     *)
(* restart reads it back.  An alias is derived from the model and a nonce  *)
(* by a hash: Derive, of which nothing is assumed but that every model has *)
(* some alias of its own.  Models here are those that need an alias.       *)
(*                                                                         *)
(* The list of a discovery is named one entry per step; the thread does    *)
(* nothing else meanwhile, but the process may die.                        *)
(***************************************************************************)
EXTENDS Naturals

CONSTANTS
  Models,     \* real ids
  Aliases,
  MaxNonce,   \* bound: the nonces tried
  Derive,     \* deriveAlias(): [Models -> [0..MaxNonce -> Aliases]]
  Denied,     \* aliases with a token for which the client hides a model
  Nothing     \* no alias, no model, no file

ASSUME NothingAssumption == Nothing \notin Models \cup Aliases

ASSUME NonceAssumption == MaxNonce \in Nat /\ Denied \subseteq Aliases

\* The search for a free nonce ends: some alias of each model is clean and its own.
ASSUME DeriveAssumption ==
  /\ Derive \in [Models -> [0..MaxNonce -> Aliases]]
  /\ \A m \in Models : \E n \in 0..MaxNonce :
       /\ Derive[m][n] \notin Denied
       /\ \A k \in Models \ {m}, i \in 0..MaxNonce : Derive[k][i] # Derive[m][n]

VARIABLES
  realToAlias,
  aliasToReal,
  aliasFile,   \* realToAlias as saved, Nothing if there is no readable file
  listed,      \* models of the discovery that is being normalised
  unnamed,     \* those of them still to be named
  shown,       \* history: <<alias, model>> pairs the client was ever given
  forgotten    \* history: the adapter restarted without a pair it had shown

vars == <<realToAlias, aliasToReal, aliasFile, listed, unnamed, shown, forgotten>>

Names == [Models -> Aliases \cup {Nothing}]

TypeOK ==
  /\ realToAlias \in Names
  /\ aliasToReal \in [Aliases -> Models \cup {Nothing}]
  /\ aliasFile \in Names \cup {Nothing}
  /\ listed \subseteq Models
  /\ unnamed \subseteq listed
  /\ shown \subseteq Aliases \X Models
  /\ forgotten \in BOOLEAN

NoNames == [m \in Models |-> Nothing]

\* _bind() of every entry.
OwnersOf(names) ==
  [a \in Aliases |-> IF \E m \in Models : names[m] = a
                     THEN CHOOSE m \in Models : names[m] = a
                     ELSE Nothing]

Init ==
  /\ realToAlias = NoNames
  /\ aliasToReal = OwnersOf(NoNames)
  /\ aliasFile = Nothing
  /\ listed = {}
  /\ unnamed = {}
  /\ shown = {}
  /\ forgotten = FALSE

-----------------------------------------------------------------------------
IgnoresDenied(m, n) == aliasToReal[Derive[m][n]] \in {m, Nothing}

IgnoresOwner(m, n) == Derive[m][n] \notin Denied

Free(m, n) ==
  /\ aliasToReal[Derive[m][n]] \in {m, Nothing}
  /\ Derive[m][n] \notin Denied

AliasFor(m) ==
  IF realToAlias[m] # Nothing
  THEN realToAlias[m]
  ELSE Derive[m][CHOOSE n \in 0..MaxNonce : Free(m, n) /\ \A i \in 0..n-1 : ~Free(m, i)]

Bind(m) ==
  /\ realToAlias' = [realToAlias EXCEPT ![m] = AliasFor(m)]
  /\ aliasToReal' = [aliasToReal EXCEPT ![AliasFor(m)] = m]

\* The thread is not in the middle of normalizeCatalog().
AtRest == listed = {}

StartDiscovery(models) ==
  /\ AtRest
  /\ models # {}
  /\ listed' = models
  /\ unnamed' = models
  /\ UNCHANGED <<realToAlias, aliasToReal, aliasFile, shown, forgotten>>

NameModel(m) ==
  /\ m \in unnamed
  /\ Bind(m)
  /\ unnamed' = unnamed \ {m}
  /\ UNCHANGED <<aliasFile, listed, shown, forgotten>>

\* The connection changed while the list was fetched: it is dropped, the names stay.
DropDiscovery ==
  /\ ~AtRest
  /\ unnamed = {}
  /\ listed' = {}
  /\ UNCHANGED <<realToAlias, aliasToReal, aliasFile, unnamed, shown, forgotten>>

ShownWith(models) == {<<realToAlias[m], m>> : m \in models}

Saved(names) == names

\* The catalog is cached and served; persistAliases() may fail, which is only logged.
FinishDiscovery ==
  /\ ~AtRest
  /\ unnamed = {}
  /\ aliasFile' \in {Saved(realToAlias), aliasFile}
  /\ listed' = {}
  /\ shown' = shown \cup ShownWith(listed)
  /\ UNCHANGED <<realToAlias, aliasToReal, unnamed, forgotten>>

\* A message for a model that is in no catalog names it, without saving the map.
NameByMessage(m) ==
  /\ AtRest
  /\ Bind(m)
  /\ UNCHANGED <<aliasFile, listed, unnamed, shown, forgotten>>

\* What a new process reads.
Restored(file) == IF file = Nothing THEN NoNames ELSE file

Restart(file) ==
  /\ aliasFile' = file
  /\ realToAlias' = Restored(file)
  /\ aliasToReal' = OwnersOf(realToAlias')
  /\ listed' = {}
  /\ unnamed' = {}
  /\ forgotten' = (forgotten \/ \E p \in shown : realToAlias'[p[2]] # p[1])
  /\ UNCHANGED shown

\* The process ends and is started again.  If it dies while it writes the file,
\* what is left of the file does not parse.
Dies == Restart(aliasFile) \/ (~AtRest /\ unnamed = {} /\ Restart(Nothing))

Next ==
  \/ \E models \in SUBSET Models : StartDiscovery(models)
  \/ \E m \in Models : NameModel(m) \/ NameByMessage(m)
  \/ DropDiscovery
  \/ FinishDiscovery
  \/ Dies

Spec == Init /\ [][Next]_vars

-----------------------------------------------------------------------------
\* Properties.

(***************************************************************************)
(* No two models share an alias, and the two maps say the same, so that a  *)
(* request for a shown alias reaches one model ("a stable, collision-safe  *)
(* bidirectional alias map"); no alias is one the client hides.            *)
(***************************************************************************)
AliasesAreExact ==
  /\ \A m \in Models, a \in Aliases : realToAlias[m] = a <=> aliasToReal[a] = m
  /\ \A a \in Denied : aliasToReal[a] = Nothing

(***************************************************************************)
(* An alias that the client was ever given for a model means that model,   *)
(* or no model, for ever, over every order in which models are listed and  *)
(* every restart ("a catalog reorder cannot change any mapping"); unless   *)
(* the map was lost, and another model derives the same alias.             *)
(***************************************************************************)
AliasKeepsMeaning ==
  \A p \in shown :
    \/ aliasToReal[p[1]] \in {p[2], Nothing}
    \/ forgotten /\ \E k \in Models \ {p[2]}, n \in 0..MaxNonce : Derive[k][n] = p[1]
=============================================================================
