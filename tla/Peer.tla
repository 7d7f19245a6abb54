--------------------------------- MODULE Peer ---------------------------------
(***************************************************************************)
(* One entry of the clients[] table of tcpd and the calls that change it   *)
(* (peer.c, msg.c, and the slot handling of server.c), as operators from a *)
(* peer record to the record the call leaves behind.                       *)
(*                                                                         *)
(*   socket          NO_SOCKET, or the descriptor of the client            *)
(*   sequence_id     the ids of the last answered message, -1 (as uint32)  *)
(*   transaction_id    before the first                                    *)
(*   fifo            the queue of MessageQueue, seen as its Waiting        *)
(*   tx              tx_buff while tx_bytes = 0, NoMessage while it is -1; *)
(*                   tx_bytes takes no other value                         *)
(*   rx_retry_cnt    failed recv() calls since data last came              *)
(*                                                                         *)
(* rx_bytes is 0 whenever a call returns: the program is built without     *)
(* _USE_MSG, so every chunk is taken for a message.  conn, cut and a       *)
(* message's conn and tag are observers, no guard of the code reads them:  *)
(* the connection the slot serves, whether one of its sends was put off,   *)
(* the connection a message was made for, and a mark that tells waiting    *)
(* messages of one slot apart.                                             *)
(***************************************************************************)
EXTENDS Integers, Sequences

CONSTANTS UINT_MOD,                  \* 2^32 in the program
          MAX_MESSAGES_BUFFER_SIZE,  \* capacity of the send queue
          MAX_RX_RETRY,              \* bound on rx_retry_cnt
          Socket,                    \* descriptors accept() may return
          Conn,                      \* names of connections
          NoConn,
          Tag,                       \* marks for waiting messages
          NoMessage,
          Incoming                   \* the headers that clients and the operator send

ASSUME PeerAssumption ==
    /\ UINT_MOD \in Nat \ {0, 1}
    /\ MAX_MESSAGES_BUFFER_SIZE \in Nat \ {0}
    /\ MAX_RX_RETRY \in Nat
    /\ Socket \subseteq Nat
    /\ NoConn \notin Conn

NO_SOCKET == -1

UInt == 0 .. UINT_MOD - 1
MINUS1 == UINT_MOD - 1

Header  == [magic_ok : BOOLEAN, sequence_id : UInt, transaction_id : UInt]

ASSUME IncomingAssumption == Incoming \subseteq Header

Message == [sequence_id : UInt, transaction_id : UInt, conn : Conn, tag : Tag]

\* TLC compares NoMessage with messages, so the model gives it a value of
\* its own; it is none of them.
ASSUME NoMessageAssumption == NoMessage \notin Message

PeerState ==
    [socket         : Socket \cup {NO_SOCKET},
     sequence_id    : UInt,
     transaction_id : UInt,
     fifo           : Seq(Message),
     tx             : Message \cup {NoMessage},
     rx_retry_cnt   : 0 .. MAX_RX_RETRY,
     conn           : Conn \cup {NoConn},
     cut            : BOOLEAN]

connected(p) == p.socket # NO_SOCKET

\* main() and create_peer(); clients[] is static, so rx_retry_cnt starts at 0.
create_peer ==
    [socket |-> NO_SOCKET, sequence_id |-> MINUS1, transaction_id |-> MINUS1,
     fifo |-> <<>>, tx |-> NoMessage, rx_retry_cnt |-> 0,
     conn |-> NoConn, cut |-> FALSE]

-------------------------------------------------------------------------------
(* The send queue and the message being sent.                               *)

InFlight(p) == {p.fifo[k] : k \in DOMAIN p.fifo} \cup ({p.tx} \ {NoMessage})

UnusedTag(p) == Tag \ {m.tag : m \in InFlight(p)}

\* The answer to a header: its ids are copied back; the payload is constant.
prepare_message(p, rx) ==
    [sequence_id |-> rx.sequence_id, transaction_id |-> rx.transaction_id,
     conn |-> p.conn, tag |-> CHOOSE t \in UnusedTag(p) : TRUE]

\* prepare_message() stores the ints 23232 and 34343 in data[]; on the
\* little-endian build these are its first bytes.
DataBytes ==
    [i \in 0 .. 7 |-> IF i < 4 THEN (23232 \div 256^i) % 256
                               ELSE (34343 \div 256^(i - 4)) % 256]

\* strlen(tx_buff.data), the number of bytes the program means to send.
tot_len ==
    CHOOSE n \in 0 .. 7 : /\ DataBytes[n] = 0
                          /\ \A k \in 0 .. n - 1 : DataBytes[k] # 0

\* A plausible slip: the room test compares with one slot too many.
add_off_by_one(p, m) ==
    IF Len(p.fifo) < MAX_MESSAGES_BUFFER_SIZE + 1
    THEN [p EXCEPT !.fifo = Append(@, m)]
    ELSE p

peer_add_to_send(p, m) ==
    IF Len(p.fifo) < MAX_MESSAGES_BUFFER_SIZE
    THEN [p EXCEPT !.fifo = Append(@, m)]
    ELSE p

-------------------------------------------------------------------------------
(* Slot handling of server.c.                                               *)

\* add_to_new_connection(), for the slot it picks.  The protocol state of
\* the connection served before is left in place.
add_to_new_connection(p, sock, c) ==
    [p EXCEPT !.socket = sock, !.tx = NoMessage, !.conn = c]

\* A plausible slip: the queue is left to the next client.
close_without_dequeue_all(p) ==
    [p EXCEPT !.socket = NO_SOCKET, !.tx = NoMessage,
              !.conn = NoConn, !.cut = FALSE]

close_client_connection(p) ==
    [p EXCEPT !.socket = NO_SOCKET, !.fifo = <<>>, !.tx = NoMessage,
              !.conn = NoConn, !.cut = FALSE]

-------------------------------------------------------------------------------
(* handle_received_message(): why a header is refused, and what an answered *)
(* one does.  The answer is built in tx_buff, also while tx_buff holds a    *)
(* message whose send was put off, and queued when there is room.           *)

new_transaction(p, rx) == p.transaction_id # rx.transaction_id

refused(p, rx) ==
    \/ ~rx.magic_ok
    \/ new_transaction(p, rx) /\ rx.sequence_id # 0
    \/ /\ ~new_transaction(p, rx)
       /\ p.sequence_id # MINUS1
       /\ (p.sequence_id + 1) % UINT_MOD # rx.sequence_id

\* A plausible slip: the answer is put up for sending at once as well.
answer_twice(p, rx) ==
    LET m == prepare_message(p, rx) IN
    peer_add_to_send([p EXCEPT !.sequence_id = rx.sequence_id,
                               !.transaction_id = rx.transaction_id,
                               !.tx = m], m)

answer(p, rx) ==
    LET m == prepare_message(p, rx) IN
    peer_add_to_send([p EXCEPT !.sequence_id = rx.sequence_id,
                               !.transaction_id = rx.transaction_id,
                               !.tx = IF @ = NoMessage THEN @ ELSE m], m)

\* The first message of a new transaction is neither recorded nor answered.
handle_received_message(p, rx) ==
    IF refused(p, rx)
    THEN [rc |-> -1, peer |-> p]
    ELSE [rc |-> 0,
          peer |-> IF new_transaction(p, rx) THEN p ELSE answer(p, rx)]

-------------------------------------------------------------------------------
(* receive_from_peer(), by what recv() did: it would block or was           *)
(* interrupted, the connection is lost, it failed in another way, the peer  *)
(* closed, or data came, taken for one header.                              *)

RecvOutcome == {"again", "lost", "failed", "closed", "data"}

\* The bound: rx_retry_cnt is not counted past MAX_RX_RETRY.
can_recv(p, outcome) == outcome = "failed" => p.rx_retry_cnt < MAX_RX_RETRY

receive_from_peer(p, outcome, rx) ==
    CASE outcome = "again" -> [rc |-> 0, peer |-> p]
      [] outcome \in {"lost", "closed"} -> [rc |-> -1, peer |-> p]
      [] outcome = "failed" ->
            [rc   |-> IF p.rx_retry_cnt + 1 > 3 THEN -1 ELSE 0,
             peer |-> [p EXCEPT !.rx_retry_cnt = @ + 1]]
      [] outcome = "data" ->
            handle_received_message([p EXCEPT !.rx_retry_cnt = 0], rx)

(* send_to_peer(), by what send() did: it would block, was interrupted or   *)
(* took nothing; it failed; it took some bytes.  However many it took, the  *)
(* message counts as sent.                                                  *)

SendOutcome == {"later", "failed", "sent"}

\* The state in which send() is called: tx_buff is filled from the queue.
dequeued(p) ==
    IF p.tx # NoMessage THEN p
    ELSE [p EXCEPT !.tx = p.fifo[Len(p.fifo)],
                   !.fifo = SubSeq(@, 1, Len(@) - 1)]

\* A plausible slip: tx_bytes is not set back after a send.
send_without_reset(p, outcome) ==
    IF p.tx = NoMessage /\ p.fifo = <<>>
    THEN [rc |-> 0, peer |-> p]
    ELSE [rc |-> IF outcome = "failed" THEN -1 ELSE 0, peer |-> dequeued(p)]

send_to_peer(p, outcome) ==
    IF p.tx = NoMessage /\ p.fifo = <<>>
    THEN [rc |-> 0, peer |-> p]
    ELSE IF tot_len = 0 \/ outcome = "sent"
    THEN [rc |-> 0, peer |-> [dequeued(p) EXCEPT !.tx = NoMessage]]
    ELSE IF outcome = "later"
    THEN [rc |-> 0, peer |-> [dequeued(p) EXCEPT !.cut = TRUE]]
    ELSE [rc |-> -1, peer |-> dequeued(p)]

\* do_server_ex() closes the client of a call that failed.
settle(r) == IF r.rc < 0 THEN close_client_connection(r.peer) ELSE r.peer
===============================================================================
