------------------------- MODULE EffortConformance -------------------------
(***************************************************************************)
(* Reasoning effort: probes find out which values of a model's control the *)
(* gateway observes (probe.js), the conformance store keeps the results    *)
(* (conformance-store.js), the user chooses among the proven values        *)
(* (server.js, set-effort), and each message is given the upstream field   *)
(* that its own fields, or else the choice, call for (effort.js).          *)
(*                                                                         *)
(* One control per model, of one gateway, route and registry version: the  *)
(* other parts of the store's key only separate independent records.       *)
(***************************************************************************)
EXTENDS Naturals, Sequences

CONSTANTS
  Controlled,   \* models with a reasoning control
  Kind,         \* its type: "categorical", "boolean", "numeric_budget"
  Route,        \* "anthropic" or translated: "openai-chat", "openai-responses"
  Probers,      \* concurrent requests to probe-effort
  MaxProbes,    \* bound: probes started
  Unset         \* no value

Value == {"low", "high", "enabled", "disabled", "off", "dynamic", "budget", "unknown"}

Kinds == {"categorical", "boolean", "numeric_budget"}

Routes == {"anthropic", "openai-chat", "openai-responses"}

ASSUME UnsetAssumption == Unset \notin Value

ASSUME ControlAssumption == Kind \in [Controlled -> Kinds] /\ Route \in [Controlled -> Routes]

\* A boolean control is in no registry record of the anthropic route.
ASSUME BooleanAssumption == \A m \in Controlled : Kind[m] = "boolean" => Route[m] # "anthropic"

ASSUME ProbesAssumption == MaxProbes \in Nat

\* The candidate values of the registry.
Documented(m) ==
  CASE Kind[m] = "categorical" -> {"low", "high"}
    [] Kind[m] = "boolean" -> {"enabled", "disabled"}
    [] Kind[m] = "numeric_budget" -> {"off", "dynamic", "budget"}

VARIABLES
  store,      \* the records, per model: values in the order first probed, results
  storeFile,  \* the same as saved
  choice,     \* effortPreferences
  choiceFile,
  probe,      \* per request, what it is probing
  started,    \* how many probes were started
  latest,     \* history: the result of the last probe of each value
  reverted    \* history: a restart read records older than those it had lost

vars == <<store, storeFile, choice, choiceFile, probe, started, latest, reverted>>

Result == {"none", "behavior-observed", "other"}

Results == [Controlled -> [Value -> Result]]

\* The keys of one model's records, each once.
InOrder(order, result) ==
  /\ \A v \in Value : (\E i \in DOMAIN order : order[i] = v) <=> result[v] # "none"
  /\ \A i, j \in DOMAIN order : order[i] = order[j] => i = j

StoreOK(records) ==
  /\ records \in [order : [Controlled -> Seq(Value)], result : Results]
  /\ \A m \in Controlled : InOrder(records.order[m], records.result[m])

NoResults == [m \in Controlled |-> [v \in Value |-> "none"]]

EmptyStore == [order |-> [m \in Controlled |-> <<>>], result |-> NoResults]

Choice == [Controlled -> Value \cup {Unset}]

NoChoice == [m \in Controlled |-> Unset]

Probe == Controlled \X Value

TypeOK ==
  /\ StoreOK(store)
  /\ StoreOK(storeFile)
  /\ choice \in Choice
  /\ choiceFile \in Choice
  /\ probe \in [Probers -> Probe \cup {Unset}]
  /\ started \in 0..MaxProbes
  /\ latest \in Results
  /\ reverted \in BOOLEAN

Init ==
  /\ store = EmptyStore
  /\ storeFile = EmptyStore
  /\ choice = NoChoice
  /\ choiceFile = NoChoice
  /\ probe = [p \in Probers |-> Unset]
  /\ started = 0
  /\ latest = NoResults
  /\ reverted = FALSE

-----------------------------------------------------------------------------
\* What the store lets the adapter use.

\* enforce() and isEnabled(): the values of the enforced control.
Proven(m) == {v \in Value : store.result[m][v] = "behavior-observed"}

\* accepted[0], the first element of the enforced control's values.
Leading(m) ==
  LET order == store.order[m]
      first == CHOOSE i \in DOMAIN order :
                 order[i] \in Proven(m) /\ \A j \in 1..i-1 : order[j] \notin Proven(m)
  IN order[first]

\* The fields of a request that matter for a kind of control; a budget comes only
\* with thinking enabled.
RequestFor(kind) ==
  CASE kind = "categorical" ->
         [effort : Value \cup {Unset}, thinking : {"absent"}, budget : {Unset}]
    [] kind = "boolean" ->
         [effort : {Unset}, thinking : {"absent", "enabled", "disabled"}, budget : {Unset}]
    [] kind = "numeric_budget" ->
         [effort : {Unset}, thinking : {"absent", "disabled"}, budget : {Unset}]
         \cup [effort : {Unset}, thinking : {"enabled"}, budget : Value \cup {Unset}]

Plain == [effort |-> Unset, thinking |-> "absent", budget |-> Unset]

\* A thinking block, for a request that has none.
WithThinking(r, type, budget) ==
  IF r.thinking = "absent" THEN [r EXCEPT !.thinking = type, !.budget = budget] ELSE r

\* applyVerifiedEffortValue(), for a value that is proven.
WithValue(m, r, v) ==
  CASE Kind[m] = "categorical" -> IF r.effort = Unset THEN [r EXCEPT !.effort = v] ELSE r
    [] Kind[m] = "boolean" ->
         WithThinking(r, IF v = Leading(m) THEN "enabled" ELSE "disabled", Unset)
    [] Kind[m] = "numeric_budget" ->
         IF v = "off" THEN WithThinking(r, "disabled", Unset) ELSE WithThinking(r, "enabled", v)

AnyChoice(m, r) == IF choice[m] # Unset THEN WithValue(m, r, choice[m]) ELSE r

\* applyEffortPreference().
WithChoice(m, r) == IF choice[m] \in Proven(m) THEN WithValue(m, r, choice[m]) ELSE r

\* Mutant: the value that enables is "enabled", whatever was probed.
PositiveIsEnabled(m) == "enabled"

\* The values that mean enabled and disabled, as mapThinkingToUpstream() takes them.
Positive(m) == IF Proven(m) = Documented(m) THEN Leading(m) ELSE "enabled"

Negative(m) == IF Positive(m) = "enabled" THEN "disabled" ELSE "enabled"

\* One of two values, by the thinking block of a request.
ByThinking(r, on, off) ==
  IF r.thinking = "absent" THEN Unset ELSE IF r.thinking = "enabled" THEN on ELSE off

\* The value mapThinkingToUpstream() picks for a request.
Wanted(m, r) ==
  CASE Kind[m] = "categorical" -> r.effort
    [] Kind[m] = "boolean" -> ByThinking(r, Positive(m), Negative(m))
    [] Kind[m] = "numeric_budget" ->
         ByThinking(r, IF r.budget = Unset THEN "dynamic" ELSE r.budget, "off")

Mapped(m, r) == IF Wanted(m, r) \in Proven(m) THEN Wanted(m, r) ELSE Unset

\* The anthropic route passes the request as it is.
Native(m, r) ==
  IF Kind[m] = "categorical" THEN r.effort ELSE ByThinking(r, r.budget, "off")

\* The value of the control in the request that goes to the gateway.
Sent(m, r) ==
  IF Route[m] = "anthropic" THEN Native(m, WithChoice(m, r)) ELSE Mapped(m, WithChoice(m, r))

-----------------------------------------------------------------------------
\* Control requests.

\* A value of the descriptor, after the catalog is there.
StartProbe(p, m, v) ==
  /\ started < MaxProbes
  /\ probe[p] = Unset
  /\ v \in Documented(m)
  /\ probe' = [probe EXCEPT ![p] = <<m, v>>]
  /\ started' = started + 1
  /\ UNCHANGED <<store, storeFile, choice, choiceFile, latest, reverted>>

\* record(): a Map keeps the place of a key that is set again.
Record(m, v, res) ==
  [order |-> IF store.result[m][v] = "none"
             THEN [store.order EXCEPT ![m] = Append(@, v)] ELSE store.order,
   result |-> [store.result EXCEPT ![m][v] = res]]

ProbeEnds(p, res) ==
  LET m == probe[p][1]
      v == probe[p][2]
  IN
  /\ probe[p] # Unset
  /\ store' = Record(m, v, res)
  /\ storeFile' \in {store', storeFile}     \* _persist() may fail
  /\ latest' = [latest EXCEPT ![m][v] = res]
  /\ probe' = [probe EXCEPT ![p] = Unset]
  /\ UNCHANGED <<choice, choiceFile, started, reverted>>

\* A write that fails throws: the choice is made all the same.
Choose(m, v) ==
  /\ choice' = [choice EXCEPT ![m] = v]
  /\ choiceFile' \in {choice', choiceFile}
  /\ UNCHANGED <<store, storeFile, probe, started, latest, reverted>>

SetEffort(m, v) == v \in Proven(m) /\ Choose(m, v)

ClearEffort(m) == choice[m] # Unset /\ Choose(m, Unset)

Restart(records, choices) ==
  /\ store' = records
  /\ storeFile' = records
  /\ choice' = choices
  /\ choiceFile' = choices
  /\ probe' = [p \in Probers |-> Unset]
  /\ reverted' = (reverted \/ records \notin {store, EmptyStore})
  /\ UNCHANGED <<started, latest>>

\* The process ends and is started again; a file it was writing does not parse.
Dies ==
  \/ Restart(storeFile, choiceFile)
  \/ (\E p \in Probers : probe[p] # Unset) /\ Restart(EmptyStore, choiceFile)
  \/ Restart(storeFile, NoChoice)

Next ==
  \/ \E p \in Probers, m \in Controlled, v \in Value : StartProbe(p, m, v)
  \/ \E p \in Probers, res \in {"behavior-observed", "other"} : ProbeEnds(p, res)
  \/ \E m \in Controlled, v \in Value : SetEffort(m, v)
  \/ \E m \in Controlled : ClearEffort(m)
  \/ Dies

Spec == Init /\ [][Next]_vars

-----------------------------------------------------------------------------
\* Properties.

\* The requests whose fields are the adapter's responsibility: the anthropic route
\* leaves what the client itself asked for alone.
Answerable(m) == IF Route[m] = "anthropic" THEN {Plain} ELSE RequestFor(Kind[m])

(***************************************************************************)
(* Whatever a client asks and whatever was chosen earlier, the control is  *)
(* sent with a value whose last probe observed it, or not at all ("it      *)
(* never turns an unverified registry hint into an upstream field"), over  *)
(* overlapping probes, a choice that outlived its proof, and restarts;     *)
(* unless a restart brought back records that failed to be replaced.       *)
(***************************************************************************)
NothingUnprovenIsSent ==
  \A m \in Controlled : \A r \in Answerable(m) :
    \/ Sent(m, r) = Unset
    \/ latest[m][Sent(m, r)] = "behavior-observed"
    \/ reverted

(***************************************************************************)
(* A choice that is proven is what a request without a wish of its own is  *)
(* sent with ("a preference is applied only while the exact field/value    *)
(* still has a current conformance proof"); the exception is "disabled" as *)
(* the only proven value of a boolean control, which is not sent.          *)
(***************************************************************************)
ChosenEffortIsSent ==
  \A m \in Controlled :
    choice[m] \in Proven(m) =>
      \/ Sent(m, Plain) = choice[m]
      \/ Sent(m, Plain) = Unset /\ Kind[m] = "boolean" /\ Proven(m) = {"disabled"}

(***************************************************************************)
(* Thinking that a client enables is not sent as "disabled", nor the other *)
(* way round, as effort.test.js:21-29 expects of mapThinkingToUpstream().  *)
(* The code does not keep it: it takes the value that was probed first for *)
(* the one that enables (enforce(), then vals[0]), so that a probe of      *)
(* "disabled" before one of "enabled" inverts the control                  *)
(* (EffortSense.cfg has a trace).                                          *)
(***************************************************************************)
ThinkingKeepsItsSense ==
  \A m \in Controlled : Kind[m] = "boolean" =>
    \A r \in RequestFor("boolean") :
      r.thinking # "absent" => Sent(m, r) \in {Unset, r.thinking}
=============================================================================
