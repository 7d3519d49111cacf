------------------------- MODULE MCLuadSupervisor -------------------------
(* Two restarts within a window of eight seconds.                           *)
EXTENDS LuadSupervisor

MCClocks == {0, 8}
MCResidues == {0, 1}
===========================================================================
