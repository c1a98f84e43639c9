-------------------------- MODULE MCSettingsUpdate --------------------------
EXTENDS SettingsUpdate, TLC

CONSTANTS c1, c2

MCClients == {c1, c2}

(* An UpdateStreamSettings body that changes nothing                       *)
NoChange == [storeOrig |-> None, indexOrig |-> None, indexAll |-> None,
             addIdx |-> {}, rmIdx |-> {},
             addPart |-> [f \in {} |-> None], rmPart |-> [f \in {} |-> None]]

ValueKey == [types |-> "value", disabled |-> FALSE]
HashKey  == [types |-> "hash", disabled |-> FALSE]

(* Index field f added or removed; partition key f added with either      *)
(* type, or removed; index_original_data / index_all_values switched.     *)
MCReqs ==
    { [NoChange EXCEPT !.addIdx = {"f"}],
      [NoChange EXCEPT !.rmIdx = {"f"}],
      [NoChange EXCEPT !.addPart = "f" :> ValueKey],
      [NoChange EXCEPT !.addPart = "f" :> HashKey],
      [NoChange EXCEPT !.rmPart = "f" :> ValueKey],
      [NoChange EXCEPT !.indexOrig = TRUE],
      [NoChange EXCEPT !.indexAll = TRUE],
      [NoChange EXCEPT !.indexOrig = FALSE, !.storeOrig = FALSE] }
=============================================================================
