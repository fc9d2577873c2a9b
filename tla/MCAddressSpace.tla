-------------------------- MODULE MCAddressSpace --------------------------
(* Instances of AddressSpace for TLC.                                       *)
EXTENDS AddressSpace

PrivateMappings == {"zero", "file"}
=============================================================================
