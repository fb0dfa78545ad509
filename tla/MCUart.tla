------------------------------- MODULE MCUart -------------------------------
(***************************************************************************)
(* The strings of the console model, for TLC.                              *)
(***************************************************************************)
EXTENDS Uart

SomeLines == {<<"x", "\n">>, <<"\n", "y", "\n">>, <<"other", "y">>}
=============================================================================
