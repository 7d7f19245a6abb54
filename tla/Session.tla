-------------------------------- MODULE Session -------------------------------
(***************************************************************************)
(* One slot of clients[] through the connections it serves, one after the  *)
(* other.  Each action is one visit of do_server_ex() to the slot: the     *)
(* whole call of receive_from_peer(), send_to_peer(), peer_add_to_send()   *)
(* or add_to_new_connection(), with the close_client_connection() that     *)
(* follows a failure.  What the kernel answers and what the client or the  *)
(* operator sends is any value.  It is what Tcpd promises for every slot.  *)
(***************************************************************************)
EXTENDS Peer

VARIABLE peer

PeerInit == peer = create_peer

Accept(sock, c) ==
    /\ ~connected(peer)
    /\ peer' = add_to_new_connection(peer, sock, c)

Receive(outcome, rx) ==
    /\ connected(peer)
    /\ can_recv(peer, outcome)
    /\ UnusedTag(peer) # {}
    /\ peer' = settle(receive_from_peer(peer, outcome, rx))

\* build_fd_sets() asks for write events only while messages wait.
Send(outcome) ==
    /\ connected(peer)
    /\ peer.fifo # <<>>
    /\ peer' = settle(send_to_peer(peer, outcome))

\* The slot's part of handle_read_from_stdin().
Stdin(rx) ==
    /\ connected(peer)
    /\ UnusedTag(peer) # {}
    /\ peer' = peer_add_to_send(peer, prepare_message(peer, rx))

Except ==
    /\ connected(peer)
    /\ peer' = close_client_connection(peer)

PeerNext ==
    \/ \E sock \in Socket, c \in Conn : Accept(sock, c)
    \/ \E outcome \in RecvOutcome, rx \in Incoming : Receive(outcome, rx)
    \/ \E outcome \in SendOutcome : Send(outcome)
    \/ \E rx \in Incoming : Stdin(rx)
    \/ Except

PeerSpec == PeerInit /\ [][PeerNext]_peer

\* As long as messages wait the server keeps asking select() for the slot,
\* and a client that reads its socket lets a send() succeed in the end.
FairPeerSpec == PeerSpec /\ WF_peer(Send("sent"))

-------------------------------------------------------------------------------
(* The slot is one of the records the calls are written for; in particular  *)
(* the queue never holds more than its array has room for.                  *)
PeerTypeOK ==
    /\ peer \in PeerState
    /\ Len(peer.fifo) <= MAX_MESSAGES_BUFFER_SIZE

(* A client is only ever sent what was made for it: whatever the order of   *)
(* failures, closes and reuse of the slot, every message in the queue or    *)
(* put off in tx_buff was made for the connection served now, and a slot    *)
(* without a connection holds none.                                         *)
OwnMessages ==
    \A m \in InFlight(peer) : connected(peer) /\ m.conn = peer.conn

(* No message waits twice in the queue, whatever sends were put off or      *)
(* failed; and until a send of the connection is put off nothing is left in *)
(* tx_buff, so that what send_to_peer() takes from the queue goes out once. *)
(* (After a send is put off the handler builds the next answer over tx_buff *)
(* and queues it too.)                                                      *)
NoDuplicate ==
    /\ \A j, k \in DOMAIN peer.fifo :
          peer.fifo[j].tag = peer.fifo[k].tag => j = k
    /\ ~peer.cut => peer.tx = NoMessage

\* A step that may add to the queue.
Adds == Len(peer'.fifo) > Len(peer.fifo)

(* When no more messages are added, the queue of a connected client is      *)
(* emptied or the client is closed, even if sends are put off any number of *)
(* times in between.                                                        *)
Drains ==
    (<>[][~Adds]_peer) => <>[](peer.fifo = <<>>)

(* peer.c on a send that would block: "try again later".  A message that    *)
(* was put off is sent in the end, or the client is closed.                 *)
PutOffIsSent == (peer.tx # NoMessage) ~> (peer.tx = NoMessage)
===============================================================================
