------------------------- MODULE ResourceLifecycle -------------------------
(***************************************************************************)
(* The lifecycle of one semantic resource key                              *)
(* (umber-vfs/src/lifecycle.rs, ResourceLifecycle<K, V>), as operators on  *)
(* the map "states" from keys to admission states.                         *)
(*                                                                         *)
(* The BTreeMap of the code is a total function here: a key that is not in *)
(* the map is Vacant.  An operation that can fail returns a record: "map"  *)
(* is the map afterwards, "res" is the code's Ok or Err value.             *)
(***************************************************************************)
EXTENDS Integers, FiniteSets

CONSTANTS
    Key,      \* semantic request keys (FileRequestKey)
    Value     \* what a key is bound to (VirtualPath for files)

ASSUME KeyAssumption == IsFiniteSet(Key)

(***************************************************************************)
(* RequestIntent derives Ord from its declaration order, so the three      *)
(* intents are three numbers.                                              *)
(***************************************************************************)
PrefetchHint == 0
Probe == 1
Required == 2
RequestIntent == {PrefetchHint, Probe, Required}

IsBlocking(intent) == intent \in {Probe, Required}

(***************************************************************************)
(* AdmissionState, and Vacant for an absent map entry.  A state that       *)
(* carries nothing has 0 in its "of" field.                                *)
(***************************************************************************)
Vacant == [tag |-> "Vacant", of |-> 0]
Outstanding(intent) == [tag |-> "Outstanding", of |-> intent]
Admitted(value) == [tag |-> "Admitted", of |-> value]
Unavailable == [tag |-> "Unavailable", of |-> 0]

AdmissionState ==
    {Vacant, Unavailable}
        \cup [tag : {"Outstanding"}, of : RequestIntent]
        \cup [tag : {"Admitted"}, of : Value]

States == [Key -> AdmissionState]

IsOutstanding(states, key) == states[key].tag = "Outstanding"
IsAdmitted(states, key) == states[key].tag = "Admitted"
IsUnavailable(states, key) == states[key].tag = "Unavailable"
IsBound(states, key) == states[key].tag \in {"Admitted", "Unavailable"}

Bound(states) == {key \in Key : IsBound(states, key)}
BindingCount(states) == Cardinality(Bound(states))
OutstandingBlocking(states) ==
    {key \in Key : IsOutstanding(states, key) /\ IsBlocking(states[key].of)}

(***************************************************************************)
(* One loop of begin_batch, and the whole of authorize_hints and           *)
(* authorize_blocking: a vacant key becomes outstanding, an outstanding    *)
(* one is promoted when the new intent is stronger, a bound one keeps its  *)
(* binding.                                                                *)
(***************************************************************************)
Authorize(states, keys, intent) ==
    [key \in Key |->
        IF /\ key \in keys
           /\ \/ states[key] = Vacant
              \/ IsOutstanding(states, key) /\ intent > states[key].of
        THEN Outstanding(intent)
        ELSE states[key]]

CancelOutstanding(states) ==
    [key \in Key |-> IF IsOutstanding(states, key) THEN Vacant ELSE states[key]]

BeginBatch(states, required, probes, hints) ==
    Authorize(
        Authorize(
            Authorize(CancelOutstanding(states), hints, PrefetchHint),
            probes, Probe),
        required, Required)

AuthorizeHints(states, keys) == Authorize(states, keys, PrefetchHint)

AuthorizeBlocking(states, key, intent) == Authorize(states, {key}, intent)

Admit(states, key, value) ==
    CASE states[key].tag = "Outstanding" ->
            [map |-> [states EXCEPT ![key] = Admitted(value)], res |-> "Inserted"]
      [] states[key] = Admitted(value) ->
            [map |-> states, res |-> "AlreadyPresent"]
      [] states[key].tag = "Admitted" /\ states[key] # Admitted(value) ->
            [map |-> states, res |-> "BindingConflict"]
      [] states[key].tag = "Unavailable" ->
            [map |-> states, res |-> "AvailabilityConflict"]
      [] states[key].tag = "Vacant" ->
            [map |-> states, res |-> "Unexpected"]

AdmitUnavailable(states, key) ==
    CASE states[key].tag = "Outstanding" /\ IsBlocking(states[key].of) ->
            [map |-> [states EXCEPT ![key] = Unavailable], res |-> "Inserted"]
      [] states[key].tag = "Outstanding" /\ ~IsBlocking(states[key].of) ->
            [map |-> states, res |-> "NegativeHint"]
      [] states[key].tag = "Unavailable" ->
            [map |-> states, res |-> "AlreadyPresent"]
      [] states[key].tag = "Admitted" ->
            [map |-> states, res |-> "AvailabilityConflict"]
      [] states[key].tag = "Vacant" ->
            [map |-> states, res |-> "Unexpected"]

Restore(states, key, value) ==
    CASE states[key].tag \in {"Outstanding", "Vacant"} ->
            [map |-> [states EXCEPT ![key] = Admitted(value)], res |-> "Inserted"]
      [] states[key] = Admitted(value) ->
            [map |-> states, res |-> "AlreadyPresent"]
      [] states[key].tag = "Admitted" /\ states[key] # Admitted(value) ->
            [map |-> states, res |-> "BindingConflict"]
      [] states[key].tag = "Unavailable" ->
            [map |-> states, res |-> "AvailabilityConflict"]

ClearStates == [key \in Key |-> Vacant]
=============================================================================
