------------------------------- MODULE MCSession ------------------------------
(* Session for TLC: ids of two bits, a queue of two messages (so that it    *)
(* fills up while a message is put off), and as many tags as can be in use  *)
(* at once plus one.                                                        *)
EXTENDS Session

MCHeaders ==
    {[magic_ok |-> FALSE, sequence_id |-> 0, transaction_id |-> 0]} \cup
    [magic_ok : {TRUE}, sequence_id : {0, 1, MINUS1}, transaction_id : {0, MINUS1}]
===============================================================================
