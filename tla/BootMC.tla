------------------------------- MODULE BootMC -------------------------------
(***************************************************************************)
(* Boot with the default static addresses 0x5A and 0x5B, a dynamic address   *)
(* that may be requested and two addresses that a controller assigns.       *)
(***************************************************************************)
EXTENDS Boot

MCStatic == Bits(90)
MCVirtualStatic == Bits(91)
\* Every combination of requests with all the rest, and a call with none of it.
MCCalls ==
    [dyn : [Devices -> {{}, Bits(82)}], timings : {{0, 2}}, verify : {TRUE}, discover : {TRUE}]
    \union {[dyn |-> [d \in Devices |-> {}], timings |-> {}, verify |-> FALSE, discover |-> FALSE]}
MCBusAddresses == {Bits(8), Bits(9)}
=============================================================================
