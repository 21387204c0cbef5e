---------------------------- MODULE MCWaitPort ----------------------------
(***************************************************************************)
(* Instances of WaitPort.  MCGluAddrs and MCComAddrs have one address of   *)
(* each form the status byte has: a long and a short GluClock register;    *)
(* the ZiFi data register (under one of its 192 addresses), a ZiFi control *)
(* and a Kondratyev register.                                              *)
(***************************************************************************)
EXTENDS WaitPort

MCGluAddrs == {12, 245}
MCComAddrs == {5, 195, 249}
MCOneGlu == {12}
MCOneCom == {195}

\* The status the AVR read is the access's own unless a stale event made it
\* look early; from the main loop on there is no stale event without resets.
MCNotInService == {"conf", "armed", "loop", "status", "write"}

MCDmaDevs == {"glu", "com"}
MCDmaAnyDev == {"glu", "com", "none"}

=============================================================================
