--------------------------- MODULE TrackerCustody ---------------------------
(***************************************************************************)
(* What the installation and tracker services promise together: a tracker  *)
(* is with at most one vehicle, it goes from a vehicle to another only     *)
(* through the stock, and it is retired only when no vehicle has it.       *)
(***************************************************************************)
CONSTANTS Trackers, Vehicles, Nobody

VARIABLES holder,   \* the vehicle each tracker is installed on, or Nobody
          retired   \* the trackers taken out of the catalogue

cvars == <<holder, retired>>

Init == holder = [t \in Trackers |-> Nobody] /\ retired = {}

Take(t, v) ==
  /\ holder[t] = Nobody /\ t \notin retired
  /\ holder' = [holder EXCEPT ![t] = v]
  /\ UNCHANGED retired

Return(t) ==
  /\ holder' = [holder EXCEPT ![t] = Nobody]
  /\ UNCHANGED retired

Retire(t) ==
  /\ holder[t] = Nobody
  /\ retired' = retired \cup {t}
  /\ UNCHANGED holder

Next == \E t \in Trackers :
  Return(t) \/ Retire(t) \/ \E v \in Vehicles : Take(t, v)

Spec == Init /\ [][Next]_cvars
=============================================================================
