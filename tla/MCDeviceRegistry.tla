-------------------------- MODULE MCDeviceRegistry --------------------------
(* Small instances of DeviceRegistry.  d2 is the name a board was given     *)
(* anew: the rows of d1 and d2 are after one hardware address.             *)
EXTENDS DeviceRegistry

CONSTANTS d1, d2, m1, h1

MCMacOf == [d \in Devices |-> m1]
MCHomeOf == [d \in Devices |-> IF d = d1 THEN NULL ELSE h1]
=============================================================================
