------------------------- MODULE HeaterConnectionsMC -------------------------
(***************************************************************************)
(* One heater and two descriptors for TLC, so that a descriptor is reused  *)
(* for a new connection while the reply to an old one is on its way.       *)
(* HeatingSystem has two heaters that share one descriptor.                *)
(***************************************************************************)
EXTENDS HeaterConnections

CONSTANTS h1, f1, f2
=============================================================================
