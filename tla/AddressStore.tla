---------------------------- MODULE AddressStore ----------------------------
(***************************************************************************)
(* What the settings page promises about the station's IP address.  The    *)
(* address in use and the settings change number by number, so each can be *)
(* a mixture; what a power failure would bring back changes only as a      *)
(* whole, to the settings or to the default, and whatever was stored is    *)
(* gone first.                                                             *)
(***************************************************************************)
CONSTANTS
  Places,   \* the places of an address
  Values,   \* what stands at one
  Default,  \* the address of a new station
  Invalid   \* a value that makes an address unusable

VARIABLES
  used,     \* the address in use
  settings, \* the address in the settings
  stored    \* the address a power failure would bring back

address_vars == <<used, settings, stored>>

Usable(ip) == \A i \in Places : ip[i] # Invalid
OrDefault(ip) == IF Usable(ip) THEN ip ELSE Default

AddressInit == used = Default /\ ~Usable(settings) /\ stored = Default

Enter ==
  /\ \E i \in Places, x \in Values : used' = [used EXCEPT ![i] = x]
  /\ UNCHANGED <<settings, stored>>
Copy ==
  /\ \E i \in Places, x \in Values : settings' = [settings EXCEPT ![i] = x]
  /\ UNCHANGED <<used, stored>>
Forget == stored' = Default /\ UNCHANGED <<used, settings>>
Save ==
  /\ stored = Default /\ stored' = OrDefault(settings)
  /\ UNCHANGED <<used, settings>>
PowerFails ==
  /\ used' = stored /\ OrDefault(settings') = stored
  /\ UNCHANGED stored

AddressNext == Enter \/ Copy \/ Forget \/ Save \/ PowerFails
AddressSpec == AddressInit /\ [][AddressNext]_address_vars
=============================================================================
