---------------------------- MODULE MCDynamicDns ----------------------------
(* The dynamic DNS updater with two addresses.                             *)
EXTENDS DynamicDns

MCAddresses == {"a", "b"}
=============================================================================
