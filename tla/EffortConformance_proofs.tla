---------------------- MODULE EffortConformance_proofs ----------------------
(***************************************************************************)
(* Proofs about reasoning effort for every set of models, every kind of    *)
(* control and every number of probes.                                     *)
(***************************************************************************)
EXTENDS EffortConformance, TLAPS, WellFoundedInduction

-----------------------------------------------------------------------------
(***************************************************************************)
(* The inductive invariant: only candidate values are probed and recorded, *)
(* and a record says what the last probe said unless records were lost by  *)
(* a failed write and older ones were read.                                *)
(***************************************************************************)

OnlyCandidates(records) ==
  \A m \in Controlled, v \in Value : records.result[m][v] # "none" => v \in Documented(m)

CandidatesAreProbed ==
  \A p \in Probers : probe[p] # Unset => probe[p][2] \in Documented(probe[p][1])

RecordsAreCurrent ==
  ~reverted => \A m \in Controlled, v \in Value : store.result[m][v] \in {"none", latest[m][v]}

EffortInv ==
  /\ TypeOK
  /\ OnlyCandidates(store)
  /\ OnlyCandidates(storeFile)
  /\ CandidatesAreProbed
  /\ RecordsAreCurrent

-----------------------------------------------------------------------------
\* The records.

LEMMA EmptyStoreOK == StoreOK(EmptyStore) /\ OnlyCandidates(EmptyStore)
<1>1. /\ EmptyStore.order = [m \in Controlled |-> <<>>]
      /\ EmptyStore.result = NoResults
      /\ EmptyStore \in [order : [Controlled -> Seq(Value)], result : Results]
  <2>1. NoResults \in Results
    BY DEF NoResults, Results, Result
  <2>2. [m \in Controlled |-> <<>>] \in [Controlled -> Seq(Value)]
    OBVIOUS
  <2> HIDE DEF NoResults
  <2> QED BY <2>1, <2>2 DEF EmptyStore
<1>2. ASSUME NEW m \in Controlled
      PROVE  InOrder(EmptyStore.order[m], EmptyStore.result[m])
  <2>1. EmptyStore.order[m] = <<>> /\ EmptyStore.result[m] = [v \in Value |-> "none"]
    BY <1>1 DEF NoResults
  <2>2. DOMAIN EmptyStore.order[m] = {}
    BY <2>1
  <2>3. \A v \in Value : EmptyStore.result[m][v] = "none"
    BY <2>1
  <2> QED BY <2>2, <2>3 DEF InOrder
<1> QED BY <1>1, <1>2 DEF StoreOK, OnlyCandidates, NoResults

\* A key that is recorded anew comes last, one that is recorded again keeps its place.
LEMMA RecordOK ==
  ASSUME StoreOK(store), NEW m \in Controlled, NEW v \in Value,
         NEW res \in {"behavior-observed", "other"}
  PROVE  /\ StoreOK(Record(m, v, res))
         /\ \A k \in Controlled, w \in Value :
              Record(m, v, res).result[k][w] =
                IF k = m /\ w = v THEN res ELSE store.result[k][w]
<1> DEFINE old == store.order[m]
           new == Record(m, v, res)
           added == IF store.result[m][v] = "none" THEN Append(old, v) ELSE old
<1>1. /\ store.order \in [Controlled -> Seq(Value)]
      /\ store.result \in Results
      /\ \A k \in Controlled : InOrder(store.order[k], store.result[k])
  BY DEF StoreOK
<1>2. /\ new.order = [store.order EXCEPT ![m] = added]
      /\ new.result = [store.result EXCEPT ![m][v] = res]
      /\ new = [order |-> new.order, result |-> new.result]
  BY <1>1 DEF Record
<1>3. old \in Seq(Value) /\ added \in Seq(Value)
  BY <1>1
<1>4. \A k \in Controlled, w \in Value :
        new.result[k][w] = IF k = m /\ w = v THEN res ELSE store.result[k][w]
  BY <1>1, <1>2 DEF Results
<1>5. new \in [order : [Controlled -> Seq(Value)], result : Results]
  <2>1. [store.order EXCEPT ![m] = added] \in [Controlled -> Seq(Value)]
    BY <1>1, <1>3
  <2>2. [store.result EXCEPT ![m][v] = res] \in Results
    BY <1>1 DEF Results, Result
  <2> HIDE DEF new, added
  <2> QED BY <1>2, <2>1, <2>2
<1>6. InOrder(added, new.result[m])
  <2>1. CASE store.result[m][v] # "none"
    BY <1>1, <1>4, <2>1 DEF InOrder
  <2>2. CASE store.result[m][v] = "none"
    <3>1. /\ added = Append(old, v)
          /\ DOMAIN added = 1..Len(old) + 1
          /\ DOMAIN old = 1..Len(old)
          /\ added[Len(old) + 1] = v
          /\ \A i \in 1..Len(old) : added[i] = old[i]
          /\ Len(old) \in Nat
      BY <1>3, <2>2
    <3>2. \A i \in 1..Len(old) : old[i] \in Value /\ old[i] # v
      BY <1>1, <1>3, <2>2, <3>1 DEF InOrder
    <3> HIDE DEF added, old, new
    <3>3. ASSUME NEW w \in Value
          PROVE  (\E i \in DOMAIN added : added[i] = w) <=> new.result[m][w] # "none"
      <4>1. (\E i \in DOMAIN old : old[i] = w) <=> store.result[m][w] # "none"
        BY <1>1 DEF InOrder, old
      <4> QED BY <1>4, <3>1, <3>2, <4>1
    <3>4. \A i, j \in DOMAIN added : added[i] = added[j] => i = j
      <4>1. \A i, j \in DOMAIN old : old[i] = old[j] => i = j
        BY <1>1 DEF InOrder, old
      <4> QED BY <3>1, <3>2, <4>1
    <3> QED BY <3>3, <3>4 DEF InOrder
  <2> QED BY <2>1, <2>2
<1>7. ASSUME NEW k \in Controlled PROVE InOrder(new.order[k], new.result[k])
  <2>1. CASE k = m
    BY <1>1, <1>2, <1>6, <2>1
  <2>2. CASE k # m
    <3>1. new.order[k] = store.order[k] /\ new.result[k] = store.result[k]
      BY <1>1, <1>2, <2>2 DEF Results
    <3> QED BY <1>1, <3>1
  <2> QED BY <2>1, <2>2
<1> QED BY <1>4, <1>5, <1>7 DEF StoreOK

-----------------------------------------------------------------------------
LEMMA InitSound == Init => EffortInv
<1> SUFFICES ASSUME Init PROVE EffortInv
  OBVIOUS
<1> USE DEF Init
<1>1. TypeOK
  <2>1. NoResults \in Results
    BY DEF NoResults, Results, Result
  <2>2. NoChoice \in Choice
    BY DEF NoChoice, Choice
  <2>3. 0 \in 0..MaxProbes
    BY ProbesAssumption
  <2> HIDE DEF Init
  <2> QED BY <2>1, <2>2, <2>3, EmptyStoreOK DEF Init, TypeOK
<1>2. RecordsAreCurrent
  BY DEF RecordsAreCurrent, EmptyStore, NoResults
<1> QED BY <1>1, <1>2, EmptyStoreOK DEF EffortInv, CandidatesAreProbed

\* A restart reads what was saved, or nothing.
LEMMA RestartKeeps ==
  ASSUME EffortInv, NEW records \in {storeFile, EmptyStore}, NEW choices \in {choiceFile, NoChoice},
         Restart(records, choices)
  PROVE  EffortInv'
<1> USE DEF EffortInv, Restart
<1>1. StoreOK(records) /\ OnlyCandidates(records) /\ choices \in Choice
  BY EmptyStoreOK DEF TypeOK, NoChoice, Choice
<1>2. TypeOK'
  BY <1>1 DEF TypeOK
<1>3. RecordsAreCurrent'
  <2>1. \A m \in Controlled, v \in Value : EmptyStore.result[m][v] = "none"
    BY DEF EmptyStore, NoResults
  <2>2. /\ store' = records /\ latest' = latest
        /\ ~reverted' => ~reverted /\ records \in {store, EmptyStore}
    OBVIOUS
  <2> QED BY <2>1, <2>2 DEF RecordsAreCurrent
<1>4. CandidatesAreProbed'
  BY DEF CandidatesAreProbed
<1> QED BY <1>1, <1>2, <1>3, <1>4

\* Every step keeps the invariant.
LEMMA NextSound == EffortInv /\ [Next]_vars => EffortInv'
<1> SUFFICES ASSUME EffortInv, [Next]_vars PROVE EffortInv'
  OBVIOUS
<1> USE DEF EffortInv
<1>1. ASSUME NEW p \in Probers, NEW m \in Controlled, NEW v \in Value, StartProbe(p, m, v)
      PROVE  EffortInv'
  <2>1. /\ UNCHANGED <<store, storeFile, choice, choiceFile, latest, reverted>>
        /\ probe' = [probe EXCEPT ![p] = <<m, v>>]
        /\ started' = started + 1
        /\ started < MaxProbes
        /\ v \in Documented(m)
    BY <1>1 DEF StartProbe
  <2>2. started' \in 0..MaxProbes
    BY <2>1, ProbesAssumption DEF TypeOK
  <2>3. probe' \in [Probers -> Probe \cup {Unset}]
    BY <2>1 DEF TypeOK, Probe
  <2>4. CandidatesAreProbed'
    BY <2>1 DEF CandidatesAreProbed, TypeOK
  <2> QED BY <2>1, <2>2, <2>3, <2>4 DEF TypeOK, RecordsAreCurrent, OnlyCandidates
<1>2. ASSUME NEW p \in Probers, NEW res \in {"behavior-observed", "other"}, ProbeEnds(p, res)
      PROVE  EffortInv'
  <2> DEFINE m == probe[p][1]
             v == probe[p][2]
  <2>1. m \in Controlled /\ v \in Value /\ v \in Documented(m)
    BY <1>2 DEF ProbeEnds, TypeOK, Probe, CandidatesAreProbed
  <2>2. /\ store' = Record(m, v, res)
        /\ storeFile' \in {store', storeFile}
        /\ latest' = [latest EXCEPT ![m][v] = res]
        /\ probe' = [probe EXCEPT ![p] = Unset]
        /\ UNCHANGED <<choice, choiceFile, started, reverted>>
    BY <1>2 DEF ProbeEnds
  <2> HIDE DEF m, v
  <2>3. /\ StoreOK(store')
        /\ \A k \in Controlled, w \in Value :
             store'.result[k][w] = IF k = m /\ w = v THEN res ELSE store.result[k][w]
    BY <2>1, <2>2, RecordOK DEF TypeOK
  <2>4. /\ latest' \in Results
        /\ \A k \in Controlled, w \in Value :
             latest'[k][w] = IF k = m /\ w = v THEN res ELSE latest[k][w]
    BY <2>1, <2>2 DEF TypeOK, Results, Result
  <2>5. StoreOK(storeFile')
    BY <2>2, <2>3 DEF TypeOK
  <2>6. OnlyCandidates(store') /\ OnlyCandidates(storeFile')
    BY <2>1, <2>2, <2>3 DEF OnlyCandidates
  <2>7. RecordsAreCurrent'
    BY <2>2, <2>3, <2>4 DEF RecordsAreCurrent
  <2>8. CandidatesAreProbed'
    BY <2>2 DEF CandidatesAreProbed, TypeOK
  <2>9. TypeOK'
    BY <2>2, <2>3, <2>4, <2>5 DEF TypeOK
  <2> QED BY <2>6, <2>7, <2>8, <2>9
<1>3. ASSUME NEW m \in Controlled, NEW v \in Value \cup {Unset}, Choose(m, v) PROVE EffortInv'
  <2>1. choice' \in Choice /\ choiceFile' \in Choice
    BY <1>3 DEF Choose, TypeOK, Choice
  <2> QED BY <1>3, <2>1 DEF Choose, TypeOK, OnlyCandidates, RecordsAreCurrent, CandidatesAreProbed
<1>4. ASSUME Dies PROVE EffortInv'
  BY <1>4, RestartKeeps DEF Dies
<1>5. CASE UNCHANGED vars
  BY <1>5 DEF vars, TypeOK, OnlyCandidates, RecordsAreCurrent, CandidatesAreProbed
<1> QED BY <1>1, <1>2, <1>3, <1>4, <1>5 DEF Next, SetEffort, ClearEffort

LEMMA SoundAlways == Spec => []EffortInv
BY InitSound, NextSound, PTL DEF Spec

-----------------------------------------------------------------------------
\* What is sent.

Less == {ss \in Nat \X Nat : ss[1] < ss[2]}

LEMMA LeastNumber ==
  ASSUME NEW S, S \subseteq Nat, S # {}
  PROVE  \E x \in S : \A y \in 1..x-1 : y \notin S
<1>1. IsWellFoundedOn(Less, Nat)
  BY NatLessThanWellFounded DEF OpToRel, Less
<1>2. PICK x \in S : \A y \in S : ~ (<<y, x>> \in Less)
  BY <1>1, WFMin, Zenon
<1>3. \A y \in 1..x-1 : <<y, x>> \in Less
  BY DEF Less
<1> QED BY <1>2, <1>3

\* If any value is proven, the leading one is.
LEMMA LeadingIsProven ==
  ASSUME TypeOK, NEW m \in Controlled, Proven(m) # {}
  PROVE  Leading(m) \in Proven(m)
<1> DEFINE order == store.order[m]
           Places == {i \in DOMAIN order : order[i] \in Proven(m)}
           first == CHOOSE i \in DOMAIN order :
                      order[i] \in Proven(m) /\ \A j \in 1..i-1 : order[j] \notin Proven(m)
<1>1. order \in Seq(Value) /\ InOrder(order, store.result[m])
  BY DEF TypeOK, StoreOK
<1>2. DOMAIN order = 1..Len(order) /\ Len(order) \in Nat
  BY <1>1
<1>3. Places # {} /\ Places \subseteq Nat
  BY <1>1, <1>2 DEF Proven, InOrder
<1>4. PICK i \in Places : \A j \in 1..i-1 : j \notin Places
  BY <1>3, LeastNumber
<1>5. i \in DOMAIN order /\ order[i] \in Proven(m) /\ \A j \in 1..i-1 : order[j] \notin Proven(m)
  BY <1>2, <1>4
<1>6. order[first] \in Proven(m)
  BY <1>5
<1> QED BY <1>6 DEF Leading

\* A plain request that is given a value is given it in the field of the control.
LEMMA CategoricalRequest ==
  ASSUME NEW m \in Controlled, Kind[m] = "categorical", NEW v
  PROVE  WithValue(m, Plain, v).effort = v
<1>1. Plain.effort = Unset
  BY DEF Plain
<1>2. WithValue(m, Plain, v) = [Plain EXCEPT !.effort = v]
  BY <1>1 DEF WithValue
<1>3. [Plain EXCEPT !.effort = v].effort = v
  BY DEF Plain
<1> QED BY <1>2, <1>3

LEMMA ThinkingRequest ==
  ASSUME NEW type, NEW budget
  PROVE  /\ WithThinking(Plain, type, budget).thinking = type
         /\ WithThinking(Plain, type, budget).budget = budget
<1>1. WithThinking(Plain, type, budget) = [Plain EXCEPT !.thinking = type, !.budget = budget]
  BY DEF WithThinking, Plain
<1>2. /\ [Plain EXCEPT !.thinking = type, !.budget = budget].thinking = type
      /\ [Plain EXCEPT !.thinking = type, !.budget = budget].budget = budget
  BY DEF Plain
<1> QED BY <1>1, <1>2

LEMMA BooleanRequest ==
  ASSUME NEW m \in Controlled, Kind[m] = "boolean", NEW v
  PROVE  WithValue(m, Plain, v).thinking = IF v = Leading(m) THEN "enabled" ELSE "disabled"
BY ThinkingRequest DEF WithValue

LEMMA NumericRequest ==
  ASSUME NEW m \in Controlled, Kind[m] = "numeric_budget", NEW v
  PROVE  /\ v = "off" => WithValue(m, Plain, v).thinking = "disabled"
         /\ v # "off" => /\ WithValue(m, Plain, v).thinking = "enabled"
                         /\ WithValue(m, Plain, v).budget = v
BY ThinkingRequest DEF WithValue

\* On the native route a plain request carries the value it was given.
LEMMA NativeIsValue ==
  ASSUME NEW m \in Controlled, Kind[m] # "boolean", NEW v
  PROVE  Native(m, WithValue(m, Plain, v)) = v
<1>1. CASE Kind[m] = "categorical"
  BY <1>1, CategoricalRequest DEF Native, ByThinking
<1>2. CASE Kind[m] = "numeric_budget"
  BY <1>2, NumericRequest DEF Native, ByThinking
<1> QED BY <1>1, <1>2, ControlAssumption DEF Kinds

\* A request without a wish of its own is sent with a proven value.
LEMMA PlainIsProven ==
  ASSUME NEW m \in Controlled, Route[m] = "anthropic", Sent(m, Plain) # Unset
  PROVE  Sent(m, Plain) \in Proven(m)
<1>1. Kind[m] \in {"categorical", "numeric_budget"}
  BY ControlAssumption, BooleanAssumption DEF Kinds
<1>2. Sent(m, Plain) = Native(m, WithChoice(m, Plain))
  BY DEF Sent
<1>3. Native(m, Plain) = Unset
  BY <1>1 DEF Native, ByThinking, Plain
<1>4. WithChoice(m, Plain) = WithValue(m, Plain, choice[m]) /\ choice[m] \in Proven(m)
  BY <1>2, <1>3 DEF WithChoice
<1> QED BY <1>1, <1>2, <1>4, NativeIsValue

-----------------------------------------------------------------------------
(***************************************************************************)
(* The variables keep their types; each recorded value has one place in    *)
(* the order that conformance-store.js gives to the gateway's controls.    *)
(***************************************************************************)
THEOREM TypeCorrect == Spec => []TypeOK
BY SoundAlways, PTL DEF EffortInv

(***************************************************************************)
(* Only values whose last probe observed them are sent, in every request   *)
(* whose control the adapter is responsible for (conformance-store.js and  *)
(* applyEffortPreference() in server.js).                                  *)
(***************************************************************************)
THEOREM OnlyProvenIsSent == Spec => []NothingUnprovenIsSent
<1>1. EffortInv => NothingUnprovenIsSent
  <2> SUFFICES ASSUME EffortInv, ~reverted, NEW m \in Controlled, NEW r \in Answerable(m),
                      Sent(m, r) # Unset
               PROVE  latest[m][Sent(m, r)] = "behavior-observed"
    BY DEF NothingUnprovenIsSent
  <2>1. Sent(m, r) \in Proven(m)
    <3>1. CASE Route[m] = "anthropic"
      BY <3>1, PlainIsProven DEF Answerable
    <3>2. CASE Route[m] # "anthropic"
      BY <3>2 DEF Sent, Mapped
    <3> QED BY <3>1, <3>2
  <2>2. Sent(m, r) \in Value /\ store.result[m][Sent(m, r)] = "behavior-observed"
    BY <2>1 DEF Proven
  <2> QED BY <2>2 DEF EffortInv, RecordsAreCurrent
<1> QED BY <1>1, SoundAlways, PTL

(***************************************************************************)
(* A choice that is proven is sent with every request that has no wish of  *)
(* its own (applyVerifiedEffortValue() and mapThinkingToUpstream()).       *)
(***************************************************************************)
THEOREM ChoiceIsSent == Spec => []ChosenEffortIsSent
<1>1. EffortInv => ChosenEffortIsSent
  <2> SUFFICES ASSUME EffortInv, NEW m \in Controlled, choice[m] \in Proven(m)
               PROVE  \/ Sent(m, Plain) = choice[m]
                      \/ /\ Sent(m, Plain) = Unset
                         /\ Kind[m] = "boolean"
                         /\ Proven(m) = {"disabled"}
    BY DEF ChosenEffortIsSent
  <2> DEFINE r == WithValue(m, Plain, choice[m])
  <2>1. WithChoice(m, Plain) = r
    BY DEF WithChoice
  <2>2. Kind[m] \in Kinds /\ Route[m] \in Routes /\ choice[m] \in Value
    BY ControlAssumption DEF Proven
  <2> HIDE DEF r
  <2>3. CASE Route[m] = "anthropic"
    <3>1. Sent(m, Plain) = Native(m, r)
      BY <2>1, <2>3 DEF Sent
    <3> QED BY <2>3, <3>1, NativeIsValue, BooleanAssumption DEF r
  <2>4. CASE Route[m] # "anthropic" /\ Kind[m] = "categorical"
    <3>1. Wanted(m, r) = choice[m]
      BY <2>4, CategoricalRequest DEF Wanted, ByThinking, r
    <3> QED BY <2>1, <2>4, <3>1 DEF Sent, Mapped
  <2>5. CASE Route[m] # "anthropic" /\ Kind[m] = "numeric_budget"
    <3>1. Wanted(m, r) = choice[m]
      <4>1. choice[m] # Unset
        BY <2>2, UnsetAssumption
      <4>2. CASE choice[m] = "off"
        BY <2>5, <4>2, NumericRequest DEF Wanted, ByThinking, r
      <4>3. CASE choice[m] # "off"
        BY <2>5, <4>1, <4>3, NumericRequest DEF Wanted, ByThinking, r
      <4> QED BY <4>2, <4>3
    <3> QED BY <2>1, <2>5, <3>1 DEF Sent, Mapped
  <2>6. CASE Route[m] # "anthropic" /\ Kind[m] = "boolean"
    <3>1. Documented(m) = {"enabled", "disabled"}
      BY <2>6 DEF Documented
    <3>2. Proven(m) \subseteq Documented(m) /\ Leading(m) \in Proven(m)
      BY LeadingIsProven DEF EffortInv, OnlyCandidates, Proven
    <3>3. r.thinking = IF choice[m] = Leading(m) THEN "enabled" ELSE "disabled"
      BY <2>6, BooleanRequest DEF r
    <3>4. Wanted(m, r) = IF choice[m] = Leading(m) THEN Positive(m) ELSE Negative(m)
      BY <2>6, <3>3 DEF Wanted, ByThinking
    <3>5. CASE Proven(m) = Documented(m)
      <4>1. Positive(m) = Leading(m)
        BY <3>5 DEF Positive
      <4>2. Wanted(m, r) = choice[m]
        BY <3>1, <3>2, <3>4, <3>5, <4>1 DEF Negative
      <4> QED BY <2>1, <2>6, <4>2 DEF Sent, Mapped
    <3>6. CASE Proven(m) # Documented(m)
      <4>1. choice[m] = Leading(m) /\ Proven(m) = {choice[m]}
        BY <3>1, <3>2, <3>6
      <4>2. Wanted(m, r) = "enabled"
        BY <3>4, <3>6, <4>1 DEF Positive
      <4>3. Sent(m, Plain) = IF "enabled" \in Proven(m) THEN "enabled" ELSE Unset
        BY <2>1, <2>6, <4>2 DEF Sent, Mapped
      <4> QED BY <2>6, <3>1, <3>2, <4>1, <4>3
    <3> QED BY <3>5, <3>6
  <2> QED BY <2>2, <2>3, <2>4, <2>5, <2>6 DEF Kinds
<1> QED BY <1>1, SoundAlways, PTL
=============================================================================
