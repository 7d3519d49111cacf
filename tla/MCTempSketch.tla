---------------------------- MODULE MCTempSketch ----------------------------
(* The temperature sketch on a bus of up to three sensors of short addresses *)
EXTENDS TempSketch

\* The second bits differ, and below one of them the third: the addresses form
\* a tree with a branch inside a branch.
MCCodes == {<<1, 0, 0>>, <<1, 0, 1>>, <<1, 1, 0>>}
\* The other one is a DS18S20.
MCDelivered == {<<1, 0, 0>>, <<1, 1, 0>>}
MCDS18S20 == {<<1, 0, 1>>}
=============================================================================
