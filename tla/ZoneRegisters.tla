--------------------------- MODULE ZoneRegisters ---------------------------
(***************************************************************************)
(* What the two resources of the context based restrictions service        *)
(* promise about a network zone they share: every author of addresses (the *)
(* ibm_cbr_zone block, which writes addresses without an id, and each      *)
(* ibm_cbr_zone_addresses block, which writes addresses under its own id)  *)
(* has a register of its own, and a step writes at most one register.      *)
(* The service offers nothing of the kind: its only write replaces the     *)
(* whole zone.  CbrZone shows how the provider obtains it.                 *)
(***************************************************************************)
CONSTANTS Zones,    \* zone ids the service may hand out
          Ids,      \* the "TF-<uuid>" ids of ibm_cbr_zone_addresses blocks
          Default,  \* the id of addresses that carry none: ibm_cbr_zone's own
          Values,   \* the address lists an author may write
          Empty,    \* the list without an address
          Settings, \* name, description and excluded addresses, as one value
          None      \* the settings of a zone that does not exist yet

VARIABLES status,   \* "unborn", "live" or "gone"
          parts,    \* for each zone, the addresses of each author
          settings  \* for each zone, its settings

vars == <<status, parts, settings>>

Authors == Ids \cup {Default}

Init == /\ status = [z \in Zones |-> "unborn"]
        /\ parts = [z \in Zones |-> [a \in Authors |-> Empty]]
        /\ settings = [z \in Zones |-> None]

\* The zone appears with the base addresses and settings of its creator.
Open(z) == /\ status[z] = "unborn"
           /\ status' = [status EXCEPT ![z] = "live"]
           /\ \E v \in Values, s \in Settings :
                 /\ parts' = [parts EXCEPT ![z][Default] = v]
                 /\ settings' = [settings EXCEPT ![z] = s]

\* One block's register changes; everything else in the zone stays.
WriteAddresses(z, id) == /\ status[z] = "live"
                         /\ \E v \in Values : parts' = [parts EXCEPT ![z][id] = v]
                         /\ UNCHANGED <<status, settings>>

\* The base of the zone changes; no block's register does.
WriteBase(z) == /\ status[z] = "live"
                /\ \E v \in Values, s \in Settings :
                      /\ parts' = [parts EXCEPT ![z][Default] = v]
                      /\ settings' = [settings EXCEPT ![z] = s]
                /\ UNCHANGED status

Close(z) == /\ status[z] = "live"
            /\ status' = [status EXCEPT ![z] = "gone"]
            /\ UNCHANGED <<parts, settings>>

Next == \E z \in Zones : \/ Open(z)
                         \/ \E id \in Ids : WriteAddresses(z, id)
                         \/ WriteBase(z)
                         \/ Close(z)

Spec == Init /\ [][Next]_vars
=============================================================================
