---------------------------- MODULE TargetIbiMC ----------------------------
(* Small instances of TargetIbi: the headers that the controller sends.     *)
EXTENDS TargetIbi
Own == [addr |-> "ours", rnw |-> FALSE]
Other == [addr |-> "other", rnw |-> FALSE]
MCAddresses == {Broadcast, Own, Other}
OnlyBroadcast == {Broadcast}
=============================================================================
