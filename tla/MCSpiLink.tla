----------------------------- MODULE MCSpiLink -----------------------------
(* Short answers and small buffers for the SPI link.                        *)
EXTENDS SpiLink

MCLetters == {"g", "b", "d", "x", "y", "z", "m", "a", "s", "i", "n"}
MCMessages == {<<"g", "b">>, <<"g", "d">>, <<"g", "d", "x">>, <<"x", "g", "b">>,
               <<"x", "y", "z">>}
MCBoardInfo == <<"m", "a", "s">>
MCInvalid == <<"i", "n">>
============================================================================
