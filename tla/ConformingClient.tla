--------------------------- MODULE ConformingClient ---------------------------
(***************************************************************************)
(* A slot of the server that talks to clients which number their messages  *)
(* the way the exercise asks for: the sequence ids of every transaction    *)
(* start at 0 and grow by one.                                             *)
(***************************************************************************)
EXTENDS Session

VARIABLE last      \* the last header the client sent: {} or a singleton

CInit == PeerInit /\ last = {}

\* The header may follow what the client sent before on this connection.
Conforms(rx) ==
    /\ rx.magic_ok
    /\ \/ /\ rx.sequence_id = 0
          /\ \A h \in last : rx.transaction_id # h.transaction_id
       \/ \E h \in last :
             /\ rx.transaction_id = h.transaction_id
             /\ rx.sequence_id = (h.sequence_id + 1) % UINT_MOD

Talk(rx) ==
    /\ Conforms(rx)
    /\ Receive("data", rx)
    /\ last' = {rx}

Connect ==
    /\ \E sock \in Socket, c \in Conn : Accept(sock, c)
    /\ last' = {}

CNext ==
    \/ \E rx \in Incoming : Talk(rx)
    \/ Connect
    \/ UNCHANGED last /\ ((\E outcome \in SendOutcome : Send(outcome)) \/ Except)

CSpec == CInit /\ [][CNext]_<<peer, last>>

(* A client whose transactions start at sequence id 0 and count up is not   *)
(* disconnected for what it sends.                                          *)
KeptWhileConforming ==
    [][(\E rx \in Incoming : Talk(rx)) => connected(peer')]_<<peer, last>>
===============================================================================
