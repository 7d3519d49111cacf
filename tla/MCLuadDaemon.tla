---------------------------- MODULE MCLuadDaemon ----------------------------
(* Three starts and two stops of one daemon, each when the processes of the *)
(* others are settled (MCLuadDaemon.cfg); three starts, each when the others *)
(* have returned (MCLuadOverlap.cfg).                                        *)
EXTENDS LuadDaemon
=============================================================================
