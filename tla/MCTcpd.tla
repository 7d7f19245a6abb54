--------------------------------- MODULE MCTcpd -------------------------------
(* Tcpd for TLC: two slots, a third descriptor for the connection that is   *)
(* turned away, a queue of one, and one header, which is always answered:   *)
(* refusing a header closes the client as the end of its stream does.       *)
EXTENDS Tcpd

MCHeaders ==
    {[magic_ok |-> TRUE, sequence_id |-> MINUS1, transaction_id |-> MINUS1]}
===============================================================================
