---------------------------- MODULE MCMessageQueue ----------------------------
(* MessageQueue for TLC: three message values and a queue of four slots.    *)
EXTENDS MessageQueue

MCMessage == 0 .. 2
===============================================================================
