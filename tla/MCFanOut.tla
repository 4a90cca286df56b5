------------------------------- MODULE MCFanOut -------------------------------
(* FanOut with ann's queues 1 and 2 and bob's queue 3.                      *)
EXTENDS FanOut, TLC

MCUsers == {"ann", "bob"}
MCOwner == <<"ann", "ann", "bob">>
===============================================================================
