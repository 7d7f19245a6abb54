------------------------------- MODULE TcpdProofs -----------------------------
(***************************************************************************)
(* The safety of the server, for any queue size, any range of ids and any  *)
(* number of slots, descriptors, connections and messages: what every call *)
(* on a peer record keeps; one slot, whatever its clients, its operator    *)
(* and the kernel do; and the whole loop, whose descriptors match the      *)
(* table and whose reports belong to the connections they are looked up    *)
(* for.                                                                    *)
(***************************************************************************)
EXTENDS Tcpd, Session, SequenceTheorems, WellFoundedInduction, TLAPS

\* The record is well typed and its queue fits the array.
Typed(p) ==
    /\ p \in PeerState
    /\ Len(p.fifo) <= MAX_MESSAGES_BUFFER_SIZE

\* A connected slot knows its connection; the others serve none.
Serves(p) == IF connected(p) THEN p.conn \in Conn ELSE p.conn = NoConn

\* What waits was made for the connection served now.
Own(p) ==
    /\ \A k \in DOMAIN p.fifo : connected(p) /\ p.fifo[k].conn = p.conn
    /\ p.tx # NoMessage => connected(p) /\ p.tx.conn = p.conn

\* Nothing waits twice, and unless a send was put off tx_buff is empty.
Once(p) ==
    /\ \A j, k \in DOMAIN p.fifo : p.fifo[j].tag = p.fifo[k].tag => j = k
    /\ ~p.cut => p.tx = NoMessage

PeerInv(p) == Typed(p) /\ Serves(p) /\ Own(p) /\ Once(p)

-------------------------------------------------------------------------------
(* create_peer() establishes the invariant.                                 *)
LEMMA CreateInv == PeerInv(create_peer)
  BY PeerAssumption
  DEF PeerInv, Typed, Serves, Own, Once, create_peer, PeerState, UInt, MINUS1,
      connected, NO_SOCKET

(* Taking a connection keeps it, if the slot was free.                      *)
LEMMA AcceptInv ==
    ASSUME NEW p, PeerInv(p), ~connected(p), NEW sock \in Socket, NEW c \in Conn
    PROVE  PeerInv(add_to_new_connection(p, sock, c))
<1> DEFINE q == add_to_new_connection(p, sock, c)
<1>1. p \in PeerState /\ sock # NO_SOCKET
  BY PeerAssumption DEF PeerInv, Typed, NO_SOCKET
<1>2. /\ q \in PeerState
      /\ q.socket = sock /\ q.conn = c /\ q.tx = NoMessage
      /\ q.fifo = p.fifo /\ q.cut = p.cut
  BY <1>1 DEF add_to_new_connection, PeerState
<1>3. DOMAIN p.fifo = {}
  BY DEF PeerInv, Own
<1> HIDE DEF q
<1>4. PeerInv(q)
  BY <1>1, <1>2, <1>3 DEF PeerInv, Typed, Serves, Own, Once, connected
<1> QED
  BY <1>4 DEF q

(* close_client_connection() leaves nothing for the next client.            *)
LEMMA CloseInv ==
    ASSUME NEW p, Typed(p)
    PROVE  /\ PeerInv(close_client_connection(p))
           /\ ~connected(close_client_connection(p))
<1> DEFINE q == close_client_connection(p)
<1>1. p \in PeerState /\ <<>> \in Seq(Message)
  BY DEF Typed
<1>2. /\ q \in PeerState
      /\ q.socket = NO_SOCKET /\ q.conn = NoConn /\ q.tx = NoMessage
      /\ q.fifo = <<>> /\ q.cut = FALSE
  BY <1>1 DEF close_client_connection, PeerState
<1> HIDE DEF q
<1>3. PeerInv(q) /\ ~connected(q)
  BY <1>2, PeerAssumption DEF PeerInv, Typed, Serves, Own, Once, connected
<1> QED
  BY <1>3 DEF q

(* The answer is a message for this connection, with a tag no message of    *)
(* the slot has.                                                            *)
LEMMA PreparedMessage ==
    ASSUME NEW p, PeerInv(p), connected(p), UnusedTag(p) # {}, NEW rx \in Header
    PROVE  /\ prepare_message(p, rx) \in Message
           /\ prepare_message(p, rx).conn = p.conn
           /\ \A k \in DOMAIN p.fifo : p.fifo[k].tag # prepare_message(p, rx).tag
<1>1. (CHOOSE t \in UnusedTag(p) : TRUE) \in UnusedTag(p)
  OBVIOUS
<1>2. \A k \in DOMAIN p.fifo : p.fifo[k].tag \notin UnusedTag(p)
  BY DEF UnusedTag, InFlight
<1>3. UnusedTag(p) \subseteq Tag
  BY DEF UnusedTag
<1> HIDE DEF UnusedTag
<1> QED
  BY <1>1, <1>2, <1>3 DEF prepare_message, Message, Header, PeerInv, Serves

(* Queueing such a message keeps the invariant, full queue or not.          *)
LEMMA AddInv ==
    ASSUME NEW p, PeerInv(p), connected(p), NEW m \in Message,
           m.conn = p.conn, \A k \in DOMAIN p.fifo : p.fifo[k].tag # m.tag
    PROVE  /\ PeerInv(peer_add_to_send(p, m))
           /\ connected(peer_add_to_send(p, m))
<1>1. CASE Len(p.fifo) < MAX_MESSAGES_BUFFER_SIZE
  <2> DEFINE q == [p EXCEPT !.fifo = Append(@, m)]
  <2>1. peer_add_to_send(p, m) = q
    BY <1>1 DEF peer_add_to_send
  <2>2. /\ p.fifo \in Seq(Message) /\ p \in PeerState
        /\ Append(p.fifo, m) \in Seq(Message)
    BY DEF PeerInv, Typed, PeerState
  <2>3. /\ q.fifo = Append(p.fifo, m)
        /\ q.conn = p.conn /\ q.tx = p.tx /\ q.cut = p.cut /\ q.socket = p.socket
        /\ q \in PeerState
    BY <2>2 DEF PeerState
  <2>4. /\ Len(q.fifo) = Len(p.fifo) + 1
        /\ DOMAIN q.fifo = 1 .. Len(p.fifo) + 1
        /\ DOMAIN p.fifo = 1 .. Len(p.fifo)
        /\ \A k \in 1 .. Len(p.fifo) : q.fifo[k] = p.fifo[k]
        /\ q.fifo[Len(p.fifo) + 1] = m
        /\ Len(p.fifo) \in Nat
    BY <2>2, <2>3
  <2> HIDE DEF q
  <2>5. Typed(q)
    BY <1>1, <2>3, <2>4, PeerAssumption DEF Typed
  <2>6. connected(q) /\ Serves(q)
    BY <2>3 DEF PeerInv, Serves, connected
  <2>7. Own(q)
    BY <2>3, <2>4, <2>6 DEF PeerInv, Own
  <2>8. Once(q)
    BY <2>3, <2>4 DEF PeerInv, Once
  <2> QED
    BY <2>1, <2>5, <2>6, <2>7, <2>8 DEF PeerInv
<1>2. CASE ~(Len(p.fifo) < MAX_MESSAGES_BUFFER_SIZE)
  BY <1>2 DEF peer_add_to_send
<1> QED
  BY <1>1, <1>2

(* handle_read_from_stdin() for one slot.                                   *)
LEMMA StdinInv ==
    ASSUME NEW p, PeerInv(p), connected(p), UnusedTag(p) # {}, NEW rx \in Header
    PROVE  /\ PeerInv(peer_add_to_send(p, prepare_message(p, rx)))
           /\ connected(peer_add_to_send(p, prepare_message(p, rx)))
  BY PreparedMessage, AddInv

(* The handler's answer, also when it is built over a message put off.      *)
LEMMA AnswerInv ==
    ASSUME NEW p, PeerInv(p), connected(p), UnusedTag(p) # {}, NEW rx \in Header
    PROVE  PeerInv(answer(p, rx))
<1> DEFINE m == prepare_message(p, rx)
           q == [p EXCEPT !.sequence_id = rx.sequence_id,
                          !.transaction_id = rx.transaction_id,
                          !.tx = IF @ = NoMessage THEN @ ELSE m]
<1>1. /\ m \in Message /\ m.conn = p.conn
      /\ \A k \in DOMAIN p.fifo : p.fifo[k].tag # m.tag
  BY PreparedMessage
<1>2. rx.sequence_id \in UInt /\ rx.transaction_id \in UInt /\ p \in PeerState
  BY DEF Header, PeerInv, Typed
<1>3. answer(p, rx) = peer_add_to_send(q, m)
  BY DEF answer
<1> HIDE DEF m
<1>4. /\ q \in PeerState
      /\ q.fifo = p.fifo /\ q.conn = p.conn /\ q.socket = p.socket
      /\ q.cut = p.cut
      /\ q.tx = IF p.tx = NoMessage THEN NoMessage ELSE m
  BY <1>1, <1>2 DEF PeerState
<1> HIDE DEF q
<1>5. PeerInv(q) /\ connected(q)
  BY <1>1, <1>4 DEF PeerInv, Typed, Serves, Own, Once, connected
<1>6. m.conn = q.conn /\ \A k \in DOMAIN q.fifo : q.fifo[k].tag # m.tag
  BY <1>1, <1>4
<1> QED
  BY <1>1, <1>3, <1>5, <1>6, AddInv

(* receive_from_peer() for any outcome of recv() and any header.            *)
LEMMA ReceiveInv ==
    ASSUME NEW p, PeerInv(p), connected(p), UnusedTag(p) # {},
           NEW outcome \in RecvOutcome, can_recv(p, outcome), NEW rx \in Header
    PROVE  /\ PeerInv(receive_from_peer(p, outcome, rx).peer)
           /\ receive_from_peer(p, outcome, rx).rc \in {0, -1}
<1>1. CASE outcome = "again"
  BY <1>1 DEF receive_from_peer
<1>2. CASE outcome \in {"lost", "closed"}
  BY <1>2 DEF receive_from_peer
<1>3. CASE outcome = "failed"
  <2> DEFINE q == [p EXCEPT !.rx_retry_cnt = @ + 1]
  <2>1. p \in PeerState /\ p.rx_retry_cnt + 1 \in 0 .. MAX_RX_RETRY
    BY <1>3, PeerAssumption DEF PeerInv, Typed, PeerState, can_recv
  <2>2. /\ q \in PeerState
        /\ q.fifo = p.fifo /\ q.conn = p.conn /\ q.socket = p.socket
        /\ q.cut = p.cut /\ q.tx = p.tx
    BY <2>1 DEF PeerState
  <2>3. /\ receive_from_peer(p, outcome, rx).peer = q
        /\ receive_from_peer(p, outcome, rx).rc \in {0, -1}
    BY <1>3 DEF receive_from_peer
  <2> HIDE DEF q
  <2>4. PeerInv(q)
    BY <2>2 DEF PeerInv, Typed, Serves, Own, Once, connected
  <2> QED
    BY <2>3, <2>4
<1>4. CASE outcome = "data"
  <2> DEFINE q == [p EXCEPT !.rx_retry_cnt = 0]
  <2>1. p \in PeerState /\ 0 \in 0 .. MAX_RX_RETRY
    BY PeerAssumption DEF PeerInv, Typed
  <2>2. /\ q \in PeerState
        /\ q.fifo = p.fifo /\ q.conn = p.conn /\ q.socket = p.socket
        /\ q.cut = p.cut /\ q.tx = p.tx
    BY <2>1 DEF PeerState
  <2>3. receive_from_peer(p, outcome, rx) = handle_received_message(q, rx)
    BY <1>4 DEF receive_from_peer
  <2> HIDE DEF q
  <2>4. PeerInv(q) /\ connected(q)
    BY <2>2 DEF PeerInv, Typed, Serves, Own, Once, connected
  <2>5. UnusedTag(q) # {}
    BY <2>2 DEF UnusedTag, InFlight
  <2>6. PeerInv(answer(q, rx))
    BY <2>4, <2>5, AnswerInv
  <2> QED
    BY <2>3, <2>4, <2>6 DEF handle_received_message
<1> QED
  BY <1>1, <1>2, <1>3, <1>4 DEF RecvOutcome

(* Filling tx_buff from the queue keeps types, owners and tags; the message *)
(* taken is no longer in the queue.                                         *)
LEMMA DequeuedInv ==
    ASSUME NEW p, PeerInv(p), connected(p), p.fifo # <<>>
    PROVE  /\ Typed(dequeued(p)) /\ Serves(dequeued(p)) /\ Own(dequeued(p))
           /\ dequeued(p).socket = p.socket /\ dequeued(p).cut = p.cut
           /\ \A j, k \in DOMAIN dequeued(p).fifo :
                 dequeued(p).fifo[j].tag = dequeued(p).fifo[k].tag => j = k
<1>1. CASE p.tx # NoMessage
  BY <1>1 DEF dequeued, PeerInv, Once
<1>2. CASE p.tx = NoMessage
  <2> DEFINE n == Len(p.fifo)
             q == dequeued(p)
  <2>1. /\ p \in PeerState /\ p.fifo \in Seq(Message)
        /\ n \in Nat /\ n > 0 /\ DOMAIN p.fifo = 1 .. n
        /\ p.fifo[n] \in Message
    BY DEF PeerInv, Typed, PeerState
  <2>2. /\ SubSeq(p.fifo, 1, n - 1) \in Seq(Message)
        /\ Len(SubSeq(p.fifo, 1, n - 1)) = n - 1
        /\ DOMAIN SubSeq(p.fifo, 1, n - 1) = 1 .. n - 1
        /\ \A k \in 1 .. n - 1 : SubSeq(p.fifo, 1, n - 1)[k] = p.fifo[k]
    BY <2>1
  <2>3. /\ q \in PeerState
        /\ q.fifo = SubSeq(p.fifo, 1, n - 1) /\ q.tx = p.fifo[n]
        /\ q.conn = p.conn /\ q.socket = p.socket /\ q.cut = p.cut
    BY <1>2, <2>1, <2>2 DEF dequeued, PeerState
  <2> HIDE DEF q
  <2>4. Typed(q)
    BY <2>1, <2>2, <2>3, PeerAssumption DEF PeerInv, Typed
  <2>5. Serves(q) /\ Own(q)
    BY <2>1, <2>2, <2>3 DEF PeerInv, Serves, Own, connected
  <2>6. ASSUME NEW j \in DOMAIN q.fifo, NEW k \in DOMAIN q.fifo,
               q.fifo[j].tag = q.fifo[k].tag
        PROVE  j = k
    <3>1. /\ j \in DOMAIN p.fifo /\ k \in DOMAIN p.fifo
          /\ q.fifo[j] = p.fifo[j] /\ q.fifo[k] = p.fifo[k]
      BY <2>1, <2>2, <2>3
    <3> QED
      BY <2>6, <3>1 DEF PeerInv, Once
  <2> QED
    BY <2>3, <2>4, <2>5, <2>6 DEF q
<1> QED
  BY <1>1, <1>2

(* send_to_peer() for any outcome of send(), called while messages wait.    *)
LEMMA SendInv ==
    ASSUME NEW p, PeerInv(p), connected(p), p.fifo # <<>>,
           NEW outcome \in SendOutcome
    PROVE  /\ Typed(send_to_peer(p, outcome).peer)
           /\ \/ send_to_peer(p, outcome).rc = -1
              \/ /\ send_to_peer(p, outcome).rc = 0
                 /\ PeerInv(send_to_peer(p, outcome).peer)
                 /\ send_to_peer(p, outcome).peer.socket = p.socket
<1> DEFINE d == dequeued(p)
<1>1. /\ Typed(d) /\ Serves(d) /\ Own(d) /\ d.socket = p.socket /\ d.cut = p.cut
      /\ \A j, k \in DOMAIN d.fifo : d.fifo[j].tag = d.fifo[k].tag => j = k
  BY DequeuedInv
<1>2. d \in PeerState
  BY <1>1 DEF Typed
<1> HIDE DEF d
<1>3. CASE tot_len = 0 \/ outcome = "sent"
  <2> DEFINE q == [d EXCEPT !.tx = NoMessage]
  <2>1. send_to_peer(p, outcome) = [rc |-> 0, peer |-> q]
    BY <1>3 DEF send_to_peer, d
  <2>2. /\ q \in PeerState /\ q.fifo = d.fifo /\ q.tx = NoMessage
        /\ q.conn = d.conn /\ q.socket = d.socket /\ q.cut = d.cut
    BY <1>2 DEF PeerState
  <2> HIDE DEF q
  <2>3. PeerInv(q)
    BY <1>1, <2>2 DEF PeerInv, Typed, Serves, Own, Once, connected
  <2> QED
    BY <1>1, <2>1, <2>2, <2>3 DEF PeerInv
<1>4. CASE ~(tot_len = 0 \/ outcome = "sent") /\ outcome = "later"
  <2> DEFINE q == [d EXCEPT !.cut = TRUE]
  <2>1. send_to_peer(p, outcome) = [rc |-> 0, peer |-> q]
    BY <1>4 DEF send_to_peer, d
  <2>2. /\ q \in PeerState /\ q.fifo = d.fifo /\ q.tx = d.tx
        /\ q.conn = d.conn /\ q.socket = d.socket /\ q.cut = TRUE
    BY <1>2 DEF PeerState
  <2> HIDE DEF q
  <2>3. PeerInv(q)
    BY <1>1, <2>2 DEF PeerInv, Typed, Serves, Own, Once, connected
  <2> QED
    BY <1>1, <2>1, <2>2, <2>3 DEF PeerInv
<1>5. CASE ~(tot_len = 0 \/ outcome = "sent") /\ outcome # "later"
  <2>1. send_to_peer(p, outcome) = [rc |-> -1, peer |-> d]
    BY <1>5 DEF send_to_peer, d
  <2> QED
    BY <1>1, <2>1
<1> QED
  BY <1>3, <1>4, <1>5

(* Closing the client of a failed call, and only that one, keeps all of it. *)
LEMMA SettleInv ==
    ASSUME NEW r, Typed(r.peer),
           r.rc = -1 \/ (r.rc = 0 /\ PeerInv(r.peer))
    PROVE  PeerInv(settle(r))
<1>1. CASE r.rc = -1
  BY <1>1, CloseInv DEF settle
<1>2. CASE r.rc = 0 /\ PeerInv(r.peer)
  BY <1>2 DEF settle
<1> QED
  BY <1>1, <1>2

(* A visit that reads, with the close after a failure.                       *)
LEMMA SettledReceiveInv ==
    ASSUME NEW p, PeerInv(p), connected(p), UnusedTag(p) # {},
           NEW outcome \in RecvOutcome, can_recv(p, outcome), NEW rx \in Header
    PROVE  PeerInv(settle(receive_from_peer(p, outcome, rx)))
  BY ReceiveInv, SettleInv DEF PeerInv

(* A visit that writes, with the close after a failure.                      *)
LEMMA SettledSendInv ==
    ASSUME NEW p, PeerInv(p), connected(p), p.fifo # <<>>,
           NEW outcome \in SendOutcome
    PROVE  PeerInv(settle(send_to_peer(p, outcome)))
  BY SendInv, SettleInv

-------------------------------------------------------------------------------
(* What a call may change of a slot that stays connected: neither its       *)
(* descriptor nor its connection, and only send_to_peer() takes messages    *)
(* from the queue.                                                          *)
Keeps(p, q) ==
    /\ q.socket = p.socket /\ q.conn = p.conn
    /\ p.fifo # <<>> => q.fifo # <<>>

(* peer_add_to_send() takes nothing away from the slot.                      *)
LEMMA AddKeeps ==
    ASSUME NEW p, Typed(p), NEW m \in Message
    PROVE  Keeps(p, peer_add_to_send(p, m))
<1>1. CASE Len(p.fifo) < MAX_MESSAGES_BUFFER_SIZE
  <2> DEFINE q == [p EXCEPT !.fifo = Append(@, m)]
  <2>1. peer_add_to_send(p, m) = q
    BY <1>1 DEF peer_add_to_send
  <2>2. p \in PeerState /\ p.fifo \in Seq(Message)
    BY DEF Typed, PeerState
  <2>3. q.socket = p.socket /\ q.conn = p.conn /\ q.fifo = Append(p.fifo, m)
    BY <2>2 DEF PeerState
  <2>4. Append(p.fifo, m) # <<>>
    BY <2>2
  <2> QED
    BY <2>1, <2>3, <2>4 DEF Keeps
<1>2. CASE ~(Len(p.fifo) < MAX_MESSAGES_BUFFER_SIZE)
  BY <1>2 DEF peer_add_to_send, Keeps
<1> QED
  BY <1>1, <1>2

(* The handler's answer takes nothing away from it.                          *)
LEMMA AnswerKeeps ==
    ASSUME NEW p, PeerInv(p), connected(p), UnusedTag(p) # {}, NEW rx \in Header
    PROVE  Keeps(p, answer(p, rx))
<1> DEFINE m == prepare_message(p, rx)
           q == [p EXCEPT !.sequence_id = rx.sequence_id,
                          !.transaction_id = rx.transaction_id,
                          !.tx = IF @ = NoMessage THEN @ ELSE m]
<1>1. m \in Message
  BY PreparedMessage
<1>2. answer(p, rx) = peer_add_to_send(q, m)
  BY DEF answer
<1>3. rx.sequence_id \in UInt /\ rx.transaction_id \in UInt /\ p \in PeerState
  BY DEF Header, PeerInv, Typed
<1> HIDE DEF m
<1>4. /\ q \in PeerState /\ q.fifo = p.fifo
      /\ q.socket = p.socket /\ q.conn = p.conn
  BY <1>1, <1>3 DEF PeerState
<1> HIDE DEF q
<1>5. Keeps(q, peer_add_to_send(q, m))
  BY <1>1, <1>4, AddKeeps DEF Typed, PeerInv
<1> QED
  BY <1>2, <1>4, <1>5 DEF Keeps

(* receive_from_peer() leaves descriptor and connection alone and takes      *)
(* no message from the queue.                                                *)
LEMMA ReceiveKeeps ==
    ASSUME NEW p, PeerInv(p), connected(p), UnusedTag(p) # {},
           NEW outcome \in RecvOutcome, can_recv(p, outcome), NEW rx \in Header
    PROVE  LET q == settle(receive_from_peer(p, outcome, rx)) IN
           connected(q) => Keeps(p, q)
<1> DEFINE r == receive_from_peer(p, outcome, rx)
<1>1. Keeps(p, r.peer)
  <2>1. CASE outcome \in {"again", "lost", "closed"}
    BY <2>1 DEF receive_from_peer, Keeps
  <2>2. CASE outcome = "failed"
    <3>1. r.peer = [p EXCEPT !.rx_retry_cnt = @ + 1]
      BY <2>2 DEF receive_from_peer
    <3> QED
      BY <3>1 DEF Keeps, PeerInv, Typed, PeerState
  <2>3. CASE outcome = "data"
    <3> DEFINE z == [p EXCEPT !.rx_retry_cnt = 0]
    <3>1. p \in PeerState /\ 0 \in 0 .. MAX_RX_RETRY
      BY PeerAssumption DEF PeerInv, Typed
    <3>2. /\ z \in PeerState
          /\ z.fifo = p.fifo /\ z.conn = p.conn /\ z.socket = p.socket
          /\ z.cut = p.cut /\ z.tx = p.tx
      BY <3>1 DEF PeerState
    <3>3. r = handle_received_message(z, rx)
      BY <2>3 DEF receive_from_peer
    <3> HIDE DEF z, r
    <3>4. PeerInv(z) /\ connected(z) /\ UnusedTag(z) # {}
      BY <3>2 DEF PeerInv, Typed, Serves, Own, Once, connected, UnusedTag, InFlight
    <3>5. Keeps(z, answer(z, rx)) /\ Keeps(z, z)
      BY <3>4, AnswerKeeps DEF Keeps
    <3>6. r.peer \in {z, answer(z, rx)}
      BY <3>3 DEF handle_received_message
    <3> QED
      BY <3>2, <3>5, <3>6 DEF Keeps
  <2> QED
    BY <2>1, <2>2, <2>3 DEF RecvOutcome
<1>2. Typed(r.peer) /\ r.rc \in {0, -1}
  BY ReceiveInv DEF PeerInv
<1> HIDE DEF r
<1>3. connected(settle(r)) => settle(r) = r.peer
  BY <1>2, CloseInv DEF settle
<1> QED
  BY <1>1, <1>3 DEF r

(* send_to_peer() leaves descriptor and connection alone.                    *)
LEMMA SendKeeps ==
    ASSUME NEW p, PeerInv(p), connected(p), p.fifo # <<>>,
           NEW outcome \in SendOutcome
    PROVE  LET q == settle(send_to_peer(p, outcome)) IN
           connected(q) => q.socket = p.socket /\ q.conn = p.conn
<1> DEFINE r == send_to_peer(p, outcome)
           d == dequeued(p)
<1>1. d \in PeerState /\ d.socket = p.socket /\ d.conn = p.conn
  <2>1. Typed(d) /\ d.socket = p.socket
    BY DequeuedInv
  <2>2. d.conn = p.conn
    BY DEF dequeued, PeerInv, Typed, PeerState
  <2> QED
    BY <2>1, <2>2 DEF Typed
<1>2. r.peer \in {d, [d EXCEPT !.tx = NoMessage], [d EXCEPT !.cut = TRUE]}
  BY DEF send_to_peer
<1>3. r.rc \in {0, -1} /\ Typed(r.peer)
  BY SendInv
<1> HIDE DEF r, d
<1>4. r.peer.socket = p.socket /\ r.peer.conn = p.conn
  BY <1>1, <1>2 DEF PeerState
<1>5. connected(settle(r)) => settle(r) = r.peer
  BY <1>3, CloseInv DEF settle
<1> QED
  BY <1>4, <1>5 DEF r

-------------------------------------------------------------------------------
(* One slot.  The inductive invariant is PeerInv: the three properties       *)
(* together with the link between `socket' and the connection served        *)
(* (Serves).                                                                 *)

(* A slot as create_peer() leaves it satisfies the invariant.                *)
LEMMA SessionInit == PeerInit => PeerInv(peer)
  BY CreateInv DEF PeerInit

(* Every visit of the loop to the slot keeps it.                             *)
LEMMA SessionNext == PeerInv(peer) /\ [PeerNext]_peer => PeerInv(peer)'
<1> SUFFICES ASSUME PeerInv(peer), [PeerNext]_peer PROVE PeerInv(peer)'
  OBVIOUS
<1> USE IncomingAssumption
<1>1. ASSUME NEW sock \in Socket, NEW c \in Conn, Accept(sock, c)
      PROVE  PeerInv(peer)'
  BY <1>1, AcceptInv DEF Accept
<1>2. ASSUME NEW outcome \in RecvOutcome, NEW rx \in Incoming, Receive(outcome, rx)
      PROVE  PeerInv(peer)'
  BY <1>2, SettledReceiveInv DEF Receive
<1>3. ASSUME NEW outcome \in SendOutcome, Send(outcome)
      PROVE  PeerInv(peer)'
  BY <1>3, SettledSendInv DEF Send
<1>4. ASSUME NEW rx \in Incoming, Stdin(rx)
      PROVE  PeerInv(peer)'
  BY <1>4, StdinInv DEF Stdin
<1>5. CASE Except
  BY <1>5, CloseInv DEF Except, PeerInv
<1>6. CASE UNCHANGED peer
  BY <1>6
<1> QED
  BY <1>1, <1>2, <1>3, <1>4, <1>5, <1>6 DEF PeerNext

(* The inductive invariant holds in every reachable state of the slot.      *)
THEOREM SessionInvariant == PeerSpec => []PeerInv(peer)
  BY SessionInit, SessionNext, PTL DEF PeerSpec

(* The slot keeps its types and its queue never outgrows the array, under   *)
(* any interleaving of the calls of peer.c, msg.c and server.c.             *)
THEOREM SessionTypeOK == PeerSpec => []PeerTypeOK
<1>1. PeerInv(peer) => PeerTypeOK
  BY DEF PeerInv, Typed, PeerTypeOK
<1> QED
  BY <1>1, SessionInvariant, PTL

(* No client is ever sent a message made for another connection, even       *)
(* though slots, descriptors and tx_buff are reused.                        *)
THEOREM SessionOwnMessages == PeerSpec => []OwnMessages
<1>1. PeerInv(peer) => OwnMessages
  BY DEF PeerInv, Own, OwnMessages, InFlight
<1> QED
  BY <1>1, SessionInvariant, PTL

(* No message ever waits twice in a queue, and until a send is put off no   *)
(* copy of one is left in tx_buff.                                          *)
THEOREM SessionNoDuplicate == PeerSpec => []NoDuplicate
<1>1. PeerInv(peer) => NoDuplicate
  BY DEF PeerInv, Once, NoDuplicate
<1> QED
  BY <1>1, SessionInvariant, PTL

-------------------------------------------------------------------------------
(* The loop.                                                                 *)

SlotsInv == \A s \in Slot : PeerInv(clients[s])

\* Until accept() the descriptors are those select() saw, and only open
\* descriptors are in its sets.
SetsInv ==
    /\ at \in {"stdin", "accept"} => polled = fds
    /\ at \in Pass => \A fd \in Socket : fd \in rd \cup wr \cup ex => polled[fd] # NoConn

\* A slot in write_fds that was not visited yet still has messages waiting.
WriteInv ==
    at \in Pass =>
        \A s \in ConnectedSlot :
            /\ clients[s].socket \in wr
            /\ i < s \/ (i = s /\ at # "check")
            => clients[s].fifo # <<>>

TcpdInv == TypeOK /\ SlotsInv /\ FdAccounting /\ ReportsFresh /\ SetsInv /\ WriteInv

-------------------------------------------------------------------------------
(* main() leaves the table empty and no client descriptor open.              *)
LEMMA TcpdInit == Init => TcpdInv
<1> SUFFICES ASSUME Init PROVE TcpdInv
  OBVIOUS
<1>1. SlotsInv
  BY CreateInv DEF Init, SlotsInv
<1>2. ConnectedSlot = {}
  BY DEF Init, ConnectedSlot, connected, create_peer
<1>3. 0 \in Slot
  BY TcpdAssumption DEF Slot
<1>4. TypeOK
  <2>1. \A s \in Slot : clients[s] \in PeerState /\ Len(clients[s].fifo) <= MAX_MESSAGES_BUFFER_SIZE
    BY <1>1 DEF SlotsInv, PeerInv, Typed
  <2> QED
    BY <1>3, <2>1, TcpdAssumption DEF Init, TypeOK
<1>5. FdAccounting
  BY <1>2 DEF Init, FdAccounting, FdsMatch
<1>6. ReportsFresh /\ SetsInv /\ WriteInv
  BY <1>2 DEF Init, ReportsFresh, SetsInv, WriteInv, Pass
<1> QED
  BY <1>1, <1>4, <1>5, <1>6 DEF TcpdInv

(* Leaving keeps everything: nothing is open any more.                      *)
LEMMA ExitInv == TcpdInv /\ Exit => TcpdInv'
<1> SUFFICES ASSUME TcpdInv, Exit PROVE TcpdInv'
  OBVIOUS
<1>1. TypeOK' /\ SlotsInv'
  BY TcpdAssumption DEF TcpdInv, TypeOK, SlotsInv, Exit, AllClosed, Slot
<1>2. at' = "exit" /\ "exit" \notin Pass
  BY DEF Exit, Pass
<1>3. FdAccounting'
  BY <1>2 DEF FdAccounting
<1>4. ReportsFresh' /\ SetsInv' /\ WriteInv'
  BY <1>2 DEF ReportsFresh, SetsInv, WriteInv
<1> QED
  BY <1>1, <1>3, <1>4 DEF TcpdInv

(* A step of the kernel, or one that moves the loop on within the pass, and *)
(* leaves the table and the descriptors alone.                              *)
LEMMA MoveInv ==
    ASSUME TcpdInv,
           \/ at' = at
           \/ /\ at \in Pass \ {"check"} /\ at' \in Pass \ {"stdin"}
              /\ at' = "accept" => at = "stdin",
           UNCHANGED <<clients, i, rd, wr, ex, polled, fds, sigpipe>>,
           backlog' \in 0 .. MAX_BACKLOG, readable' \subseteq Conn
    PROVE  TcpdInv'
<1>1. TypeOK' /\ SlotsInv' /\ FdsMatch' = FdsMatch /\ ConnectedSlot' = ConnectedSlot
  BY DEF TcpdInv, TypeOK, SlotsInv, FdsMatch, ConnectedSlot
<1>2. FdAccounting'
  BY <1>1 DEF TcpdInv, FdAccounting, Pass
<1>3. ReportsFresh'
  BY <1>1 DEF TcpdInv, ReportsFresh
<1>4. SetsInv'
  BY DEF TcpdInv, SetsInv
<1>5. WriteInv'
  BY <1>1 DEF TcpdInv, WriteInv
<1> QED
  BY <1>1, <1>2, <1>3, <1>4, <1>5 DEF TcpdInv

(* select() and the sets built for it.                                      *)
LEMMA SelectInv == TcpdInv /\ select => TcpdInv'
<1> SUFFICES ASSUME TcpdInv, select PROVE TcpdInv'
  OBVIOUS
<1> USE DEF kernel
<1>1. /\ at = "select" /\ at' = "stdin" /\ i' = 0 /\ polled' = fds
      /\ UNCHANGED <<clients, fds, backlog, readable, sigpipe>>
  BY DEF select
<1>2. FdsMatch /\ FdsMatch' /\ ConnectedSlot' = ConnectedSlot
  BY <1>1 DEF TcpdInv, FdAccounting, FdsMatch, ConnectedSlot
<1>3. \A s \in ConnectedSlot :
         s \in Slot /\ clients[s] \in PeerState /\ clients[s].socket \in Socket
  BY DEF ConnectedSlot, connected, TcpdInv, TypeOK, PeerState
<1>4. /\ rd' \subseteq {STDIN, LISTEN} \cup {clients[s].socket : s \in ConnectedSlot}
      /\ wr' \subseteq {clients[s].socket :
                        s \in {t \in ConnectedSlot : clients[t].fifo # <<>>}}
      /\ ex' \subseteq {clients[s].socket : s \in ConnectedSlot}
  BY DEF select, Monitored
<1>5. TypeOK'
  BY <1>1, <1>3, <1>4, TcpdAssumption DEF TcpdInv, TypeOK, Pass, Slot
<1>6. SlotsInv'
  BY <1>1 DEF TcpdInv, SlotsInv
<1>7. FdAccounting'
  BY <1>2 DEF FdAccounting
<1>8. ReportsFresh'
  BY <1>1, <1>2 DEF ReportsFresh, FdsMatch
<1>9. SetsInv'
  <2>1. ASSUME NEW fd \in Socket, fd \in rd' \cup wr' \cup ex'
        PROVE  polled'[fd] # NoConn
    <3>1. fd # STDIN /\ fd # LISTEN
      BY TcpdAssumption, PeerAssumption DEF STDIN, LISTEN
    <3>2. \E s \in ConnectedSlot : fd = clients[s].socket
      BY <1>4, <2>1, <3>1
    <3> QED
      BY <1>1, <1>2, <3>2 DEF FdsMatch
  <2> QED
    BY <1>1, <2>1 DEF SetsInv
<1>10. WriteInv'
  <2>1. ASSUME NEW s \in ConnectedSlot, clients[s].socket \in wr'
        PROVE  clients[s].fifo # <<>>
    <3>1. PICK t \in ConnectedSlot :
                 clients[t].fifo # <<>> /\ clients[t].socket = clients[s].socket
      BY <1>4, <2>1
    <3> QED
      BY <1>2, <3>1 DEF FdsMatch
  <2> QED
    BY <1>1, <1>2, <2>1 DEF WriteInv
<1> QED
  BY <1>5, <1>6, <1>7, <1>8, <1>9, <1>10 DEF TcpdInv

\* The connected slots keep their descriptors and connections.
SameTable ==
    /\ ConnectedSlot' = ConnectedSlot
    /\ \A s \in ConnectedSlot : /\ clients'[s].socket = clients[s].socket
                                /\ clients'[s].conn = clients[s].conn

(* Calls that open and close nothing keep descriptors and table matched.     *)
LEMMA SameFds == FdsMatch /\ SameTable /\ fds' = fds => FdsMatch'
<1> SUFFICES ASSUME FdsMatch, SameTable, fds' = fds PROVE FdsMatch'
  OBVIOUS
<1> USE DEF SameTable, FdsMatch
<1>1. \A s \in ConnectedSlot' : fds'[clients'[s].socket] = clients'[s].conn
  OBVIOUS
<1>2. \A s \in ConnectedSlot' : clients'[s].conn # NoConn
  OBVIOUS
<1>3. ASSUME NEW fd \in Socket, fds'[fd] # NoConn
      PROVE  \E s \in ConnectedSlot' : clients'[s].socket = fd
  BY <1>3
<1>4. \A s, t \in ConnectedSlot' : clients'[s].socket = clients'[t].socket => s = t
  OBVIOUS
<1> QED
  BY <1>1, <1>2, <1>3, <1>4

(* A line from the operator is queued for every connected slot.             *)
LEMMA StdinStepInv ==
    ASSUME TcpdInv, NEW rx \in Incoming, handle_read_from_stdin(rx)
    PROVE  TcpdInv'
<1> USE DEF kernel
<1> DEFINE Added(s) == peer_add_to_send(clients[s], prepare_message(clients[s], rx))
<1>1. /\ at = "stdin" /\ at' = "accept" /\ i' = i
      /\ UNCHANGED <<rd, wr, ex, polled, fds, backlog, readable, sigpipe>>
      /\ clients' = [s \in Slot |-> IF connected(clients[s]) THEN Added(s) ELSE clients[s]]
  BY DEF handle_read_from_stdin
<1>2. ASSUME NEW s \in Slot, connected(clients[s])
      PROVE  /\ clients'[s] = Added(s) /\ PeerInv(Added(s)) /\ connected(Added(s))
             /\ Keeps(clients[s], Added(s))
  <2>1. PeerInv(clients[s]) /\ UnusedTag(clients[s]) # {} /\ rx \in Header
    BY <1>2, IncomingAssumption DEF TcpdInv, SlotsInv, handle_read_from_stdin, ConnectedSlot
  <2>2. PeerInv(Added(s)) /\ connected(Added(s))
    BY <1>2, <2>1, StdinInv
  <2>3. Keeps(clients[s], Added(s))
    BY <1>2, <2>1, PreparedMessage, AddKeeps DEF PeerInv
  <2> QED
    BY <1>1, <1>2, <2>2, <2>3
<1>3. \A s \in Slot : ~connected(clients[s]) => clients'[s] = clients[s]
  BY <1>1
<1> HIDE DEF Added
<1>4. SlotsInv'
  BY <1>2, <1>3 DEF TcpdInv, SlotsInv
<1>5. ConnectedSlot' = ConnectedSlot
  BY <1>2, <1>3 DEF ConnectedSlot
<1>6. \A s \in ConnectedSlot : Keeps(clients[s], clients'[s])
  BY <1>2 DEF ConnectedSlot
<1>7. TypeOK'
  <2>1. \A s \in Slot : clients'[s] \in PeerState
                         /\ Len(clients'[s].fifo) <= MAX_MESSAGES_BUFFER_SIZE
    BY <1>4 DEF SlotsInv, PeerInv, Typed
  <2>2. clients' \in [Slot -> PeerState]
    BY <1>1, <2>1
  <2> QED
    BY <1>1, <2>1, <2>2 DEF TcpdInv, TypeOK, Pass
<1>8. FdAccounting'
  <2>1. FdsMatch
    BY <1>1 DEF TcpdInv, FdAccounting
  <2>2. \A s \in ConnectedSlot : /\ clients'[s].socket = clients[s].socket
                                 /\ clients'[s].conn = clients[s].conn
    BY <1>6 DEF Keeps
  <2>3. FdsMatch'
    BY <1>1, <1>5, <2>1, <2>2, SameFds DEF SameTable
  <2> QED
    BY <2>3 DEF FdAccounting
<1>9. ReportsFresh' /\ SetsInv'
  BY <1>1, <1>5, <1>6 DEF TcpdInv, ReportsFresh, SetsInv, Keeps, Pass
<1>10. WriteInv'
  BY <1>1, <1>5, <1>6 DEF TcpdInv, WriteInv, Keeps, Pass
<1> QED
  BY <1>4, <1>7, <1>8, <1>9, <1>10 DEF TcpdInv

(* There is a lowest free descriptor, and a first free slot, if any is free.*)
LEMMA LowestIsLeast ==
    ASSUME NEW S \in SUBSET Nat, S # {} PROVE Lowest(S) \in S
<1> DEFINE R == OpToRel(<, Nat)
<1>1. IsWellFoundedOn(R, Nat)
  BY NatLessThanWellFounded
<1>2. \A x, y \in Nat : <<x, y>> \in R <=> x < y
  BY DEF OpToRel
<1> HIDE DEF R
<1>3. \E x \in S : \A y \in S : ~ (<<y, x>> \in R)
  BY <1>1, WFMin
<1>4. PICK n \in S : \A y \in S : ~ (<<y, n>> \in R)
  BY <1>3
<1>5. ASSUME NEW m \in S PROVE n <= m
  <2>1. m \in Nat /\ n \in Nat
    OBVIOUS
  <2>2. ~(<<m, n>> \in R)
    BY <1>4
  <2>3. ~(m < n)
    BY <1>2, <2>1, <2>2, Zenon
  <2> QED
    BY <2>1, <2>3
<1> QED
  BY <1>5 DEF Lowest

(* accept() and add_to_new_connection(): the descriptor was free, so it was *)
(* not in the sets of this pass.                                            *)
LEMMA NewConnectionInv == TcpdInv /\ new_connection => TcpdInv'
<1> SUFFICES ASSUME TcpdInv, new_connection PROVE TcpdInv'
  OBVIOUS
<1> DEFINE fd == Lowest(FreeFd)
           sl == Lowest(FreeSlot)
           c  == CHOOSE n \in NewConn : TRUE
           q  == add_to_new_connection(clients[sl], fd, c)
<1>1. /\ at = "accept" /\ at' = "except" /\ i' = i /\ backlog' = backlog - 1
      /\ UNCHANGED <<rd, wr, ex, polled, readable, sigpipe>>
      /\ fds' = [fds EXCEPT ![fd] = c]
      /\ clients' = [clients EXCEPT ![sl] = q]
      /\ backlog > 0 /\ FreeFd # {} /\ FreeSlot # {} /\ NewConn # {}
  BY DEF new_connection
<1>2. fd \in Socket /\ fds[fd] = NoConn
  BY <1>1, LowestIsLeast, PeerAssumption DEF FreeFd
<1>3. sl \in Slot /\ ~connected(clients[sl])
  <2>1. FreeSlot \in SUBSET Nat
    BY TcpdAssumption DEF FreeSlot, Slot
  <2>2. sl \in FreeSlot
    BY <1>1, <2>1, LowestIsLeast
  <2> QED
    BY <2>2 DEF FreeSlot, ConnectedSlot
<1>4. c \in Conn /\ c # NoConn
  <2>1. c \in NewConn
    BY <1>1
  <2> QED
    BY <2>1, PeerAssumption DEF NewConn
<1>5. PeerInv(q) /\ q.socket = fd /\ q.conn = c
  <2>1. PeerInv(clients[sl]) /\ clients[sl] \in PeerState
    BY <1>3 DEF TcpdInv, SlotsInv, PeerInv, Typed
  <2>2. PeerInv(q)
    BY <1>2, <1>3, <1>4, <2>1, AcceptInv
  <2> QED
    BY <2>1, <2>2 DEF add_to_new_connection, PeerState
<1> HIDE DEF fd, sl, c, q
<1>6. /\ clients \in [Slot -> PeerState] /\ fds \in [Socket -> Conn \cup {NoConn}]
      /\ backlog \in 0 .. MAX_BACKLOG /\ MAX_BACKLOG \in Nat
  BY TcpdAssumption DEF TcpdInv, TypeOK
<1>7. /\ clients'[sl] = q /\ \A s \in Slot \ {sl} : clients'[s] = clients[s]
      /\ fds'[fd] = c /\ \A g \in Socket \ {fd} : fds'[g] = fds[g]
  BY <1>1, <1>2, <1>3, <1>6
<1>8. SlotsInv'
  BY <1>5, <1>7 DEF TcpdInv, SlotsInv
<1>9. ConnectedSlot' = ConnectedSlot \cup {sl} /\ sl \notin ConnectedSlot
  <2>1. fd # NO_SOCKET
    BY <1>2, PeerAssumption DEF NO_SOCKET
  <2> QED
    BY <1>3, <1>5, <1>7, <2>1 DEF ConnectedSlot, connected
<1>10. TypeOK'
  <2>1. \A s \in Slot : clients'[s] \in PeerState
                         /\ Len(clients'[s].fifo) <= MAX_MESSAGES_BUFFER_SIZE
    BY <1>8 DEF SlotsInv, PeerInv, Typed
  <2>2. clients' \in [Slot -> PeerState] /\ fds' \in [Socket -> Conn \cup {NoConn}]
    BY <1>1, <1>4, <1>6, <2>1
  <2>3. backlog' \in 0 .. MAX_BACKLOG
    BY <1>1, <1>6
  <2> QED
    BY <1>1, <2>1, <2>2, <2>3 DEF TcpdInv, TypeOK, Pass
<1>11. FdsMatch
  BY <1>1 DEF TcpdInv, FdAccounting
<1>12. \A s \in ConnectedSlot : /\ clients'[s] = clients[s] /\ s \in Slot
                                /\ clients[s].socket # fd /\ clients[s].socket \in Socket
                                /\ fds'[clients[s].socket] = fds[clients[s].socket]
  <2>1. ASSUME NEW s \in ConnectedSlot
        PROVE  s \in Slot /\ s # sl /\ clients[s].socket \in Socket
    BY <1>6, <1>9 DEF ConnectedSlot, connected, PeerState
  <2> QED
    BY <1>2, <1>7, <1>11, <2>1 DEF FdsMatch
<1>13. FdAccounting'
  <2>1. \A s \in ConnectedSlot' : fds'[clients'[s].socket] = clients'[s].conn
    BY <1>5, <1>7, <1>9, <1>11, <1>12 DEF FdsMatch
  <2>2. \A s \in ConnectedSlot' : clients'[s].conn # NoConn
    BY <1>4, <1>5, <1>7, <1>9, <1>11, <1>12 DEF FdsMatch
  <2>3. ASSUME NEW g \in Socket, fds'[g] # NoConn
        PROVE  \E s \in ConnectedSlot' : clients'[s].socket = g
    <3>1. CASE g = fd
      BY <1>5, <1>7, <1>9, <3>1
    <3>2. CASE g # fd
      BY <1>7, <1>9, <1>11, <1>12, <2>3, <3>2 DEF FdsMatch
    <3> QED
      BY <3>1, <3>2
  <2>4. ASSUME NEW s \in ConnectedSlot', NEW t \in ConnectedSlot',
               clients'[s].socket = clients'[t].socket
        PROVE  s = t
    <3>1. CASE s = sl \/ t = sl
      BY <1>5, <1>7, <1>9, <1>12, <2>4, <3>1
    <3>2. CASE s # sl /\ t # sl
      BY <1>9, <1>11, <1>12, <2>4, <3>2 DEF FdsMatch
    <3> QED
      BY <3>1, <3>2
  <2> QED
    BY <2>1, <2>2, <2>3, <2>4 DEF FdAccounting, FdsMatch
<1>14. SetsInv'
  BY <1>1 DEF TcpdInv, SetsInv, Pass
<1>15. fd \notin rd \cup wr \cup ex
  BY <1>1, <1>2 DEF TcpdInv, SetsInv, Pass
<1>16. ReportsFresh'
  BY <1>1, <1>5, <1>7, <1>9, <1>12, <1>15 DEF TcpdInv, ReportsFresh, Pass
<1>17. WriteInv'
  BY <1>1, <1>5, <1>7, <1>9, <1>12, <1>15 DEF TcpdInv, WriteInv, Pass
<1> QED
  BY <1>8, <1>10, <1>13, <1>14, <1>16, <1>17 DEF TcpdInv

(* Where a step of the loop over the slots leads.                           *)
SlotMove ==
    \/ at = "read" /\ at' = "write" /\ UNCHANGED <<i, rd, wr, ex, polled>>
    \/ at = "write" /\ at' = "check" /\ UNCHANGED <<i, rd, wr, ex, polled>>
    \/ at = "check" /\ next_slot

(* Any call on slot i that keeps PeerInv and, unless it closes the slot,    *)
(* the slot's descriptor and connection.                                    *)
LEMMA SlotStepInv ==
    ASSUME TcpdInv, NEW p, PeerInv(p), Becomes(p), SlotMove,
           connected(p) => /\ connected(clients[i])
                           /\ p.socket = clients[i].socket
                           /\ p.conn = clients[i].conn,
           connected(p) /\ at = "read" /\ clients[i].fifo # <<>> => p.fifo # <<>>,
           readable' \subseteq Conn, backlog' = backlog,
           sigpipe' \in {"handled", "fatal"}
    PROVE  TcpdInv'
<1>1. /\ at \in Pass /\ at \notin {"select", "exit", "stdin", "accept"}
      /\ at' \in {"write", "check", "read", "select"}
      /\ i \in Slot /\ clients \in [Slot -> PeerState]
      /\ fds \in [Socket -> Conn \cup {NoConn}]
  BY DEF SlotMove, next_slot, Pass, TcpdInv, TypeOK
<1>2. FdsMatch
  BY <1>1 DEF TcpdInv, FdAccounting
<1>3. /\ clients'[i] = p /\ clients' \in [Slot -> PeerState]
      /\ \A s \in Slot \ {i} : clients'[s] = clients[s]
  BY <1>1 DEF Becomes, PeerInv, Typed
<1>4. SlotsInv'
  BY <1>3 DEF TcpdInv, SlotsInv
<1>5. \A s \in ConnectedSlot : s \in Slot /\ clients[s].socket \in Socket
  BY <1>1 DEF ConnectedSlot, connected, PeerState
<1>6. \A s \in ConnectedSlot' :
         /\ s \in ConnectedSlot
         /\ clients'[s].socket = clients[s].socket
         /\ clients'[s].conn = clients[s].conn
         /\ s # i => clients'[s] = clients[s]
         /\ s = i => connected(p)
  BY <1>1, <1>3 DEF ConnectedSlot
<1>7. /\ fds' \in [Socket -> Conn \cup {NoConn}]
      /\ \A fd \in Socket : fds'[fd] # NoConn => fds'[fd] = fds[fd]
      /\ \A s \in ConnectedSlot' : fds'[clients[s].socket] = fds[clients[s].socket]
      /\ i \in ConnectedSlot \ ConnectedSlot' => fds'[clients[i].socket] = NoConn
  <2>1. CASE connected(clients[i]) /\ ~connected(p)
    <3>1. fds' = [fds EXCEPT ![clients[i].socket] = NoConn] /\ i \in ConnectedSlot
      BY <1>1, <2>1 DEF Becomes, ConnectedSlot
    <3>2. ASSUME NEW s \in ConnectedSlot'
          PROVE  /\ clients[s].socket # clients[i].socket
                 /\ clients[s].socket \in Socket
      BY <1>2, <1>5, <1>6, <2>1, <3>1 DEF FdsMatch
    <3> QED
      BY <1>1, <1>5, <3>1, <3>2
  <2>2. CASE ~(connected(clients[i]) /\ ~connected(p))
    <3>1. fds' = fds
      BY <2>2 DEF Becomes
    <3>2. i \in ConnectedSlot => i \in ConnectedSlot'
      BY <1>1, <1>3, <2>2 DEF ConnectedSlot
    <3> QED
      BY <1>1, <3>1, <3>2
  <2> QED
    BY <2>1, <2>2
<1>8. \A s \in ConnectedSlot : s # i => s \in ConnectedSlot'
  BY <1>3 DEF ConnectedSlot
<1>9. FdsMatch'
  <2>1. \A s \in ConnectedSlot' : fds'[clients'[s].socket] = clients'[s].conn
    BY <1>2, <1>6, <1>7 DEF FdsMatch
  <2>2. \A s \in ConnectedSlot' : clients'[s].conn # NoConn
    BY <1>2, <1>6 DEF FdsMatch
  <2>3. ASSUME NEW fd \in Socket, fds'[fd] # NoConn
        PROVE  \E s \in ConnectedSlot' : clients'[s].socket = fd
    <3>1. PICK s \in ConnectedSlot : clients[s].socket = fd
      BY <1>2, <1>7, <2>3 DEF FdsMatch
    <3>2. s \in ConnectedSlot'
      BY <1>7, <1>8, <2>3, <3>1
    <3> QED
      BY <1>6, <3>1, <3>2
  <2>4. \A s, t \in ConnectedSlot' : clients'[s].socket = clients'[t].socket => s = t
    BY <1>2, <1>6 DEF FdsMatch
  <2> QED
    BY <2>1, <2>2, <2>3, <2>4 DEF FdsMatch
<1>10. /\ i' \in Slot
       /\ at' = "select" => rd' = {} /\ wr' = {} /\ ex' = {} /\ polled' = AllClosed
       /\ at' # "select" => UNCHANGED <<rd, wr, ex, polled>>
       /\ at' = "read" => i' = i + 1
       /\ at' \in {"write", "check"} => i' = i
  BY <1>1, TcpdAssumption DEF SlotMove, next_slot, Slot
<1>11. TypeOK'
  <2>1. \A s \in Slot : Len(clients'[s].fifo) <= MAX_MESSAGES_BUFFER_SIZE
    BY <1>4 DEF SlotsInv, PeerInv, Typed
  <2>2. /\ rd' \subseteq Socket \cup {STDIN, LISTEN}
        /\ wr' \subseteq Socket /\ ex' \subseteq Socket
        /\ polled' \in [Socket -> Conn \cup {NoConn}]
    BY <1>1, <1>10 DEF TcpdInv, TypeOK, AllClosed
  <2> QED
    BY <1>1, <1>3, <1>7, <1>10, <2>1, <2>2 DEF TcpdInv, TypeOK, Pass
<1>12. ReportsFresh'
  BY <1>1, <1>6, <1>10 DEF TcpdInv, ReportsFresh, Pass
<1>13. SetsInv'
  BY <1>1, <1>10 DEF TcpdInv, SetsInv, Pass
<1>14. WriteInv'
  <2> SUFFICES ASSUME at' \in Pass, NEW s \in ConnectedSlot',
                      clients'[s].socket \in wr',
                      i' < s \/ (i' = s /\ at' # "check")
               PROVE  clients'[s].fifo # <<>>
    BY DEF WriteInv
  <2>1. s \in ConnectedSlot /\ s \in Slot /\ clients[s].socket \in wr /\ at' # "select"
    BY <1>5, <1>6, <1>10 DEF Pass
  <2>2. i < s \/ (i = s /\ at = "read")
    BY <1>1, <1>10, <2>1 DEF SlotMove, Slot, next_slot
  <2>3. clients[s].fifo # <<>>
    BY <1>1, <2>1, <2>2 DEF TcpdInv, WriteInv
  <2>4. CASE s # i
    BY <1>6, <2>3, <2>4
  <2>5. CASE s = i
    <3>1. at = "read"
      BY <1>1, <2>2, <2>5, TcpdAssumption DEF Slot
    <3>2. connected(p)
      BY <1>6, <2>5
    <3> QED
      BY <1>3, <2>3, <2>5, <3>1, <3>2
  <2> QED
    BY <2>4, <2>5
<1> QED
  BY <1>4, <1>9, <1>11, <1>12, <1>13, <1>14 DEF TcpdInv, FdAccounting

(* The calls made for slot i are steps of that kind.                        *)
LEMMA ReadInv ==
    ASSUME TcpdInv, NEW outcome \in RecvOutcome, NEW rx \in Incoming,
           do_read(outcome, rx)
    PROVE  TcpdInv'
<1> DEFINE p == settle(receive_from_peer(clients[i], outcome, rx))
<1>1. /\ PeerInv(clients[i]) /\ connected(clients[i]) /\ rx \in Header
      /\ UnusedTag(clients[i]) # {} /\ can_recv(clients[i], outcome)
  BY IncomingAssumption DEF do_read, Reported, TcpdInv, SlotsInv, TypeOK
<1>2. PeerInv(p) /\ (connected(p) => Keeps(clients[i], p))
  BY <1>1, SettledReceiveInv, ReceiveKeeps
<1>3. /\ Becomes(p) /\ SlotMove /\ at = "read" /\ backlog' = backlog
      /\ readable' \subseteq Conn /\ sigpipe' \in {"handled", "fatal"}
  BY DEF do_read, SlotMove, TcpdInv, TypeOK
<1> HIDE DEF p
<1> QED
  BY <1>1, <1>2, <1>3, SlotStepInv DEF Keeps

(* send_to_peer() and what follows is a step of that kind.                  *)
LEMMA WriteStepInv ==
    ASSUME TcpdInv, NEW outcome \in SendOutcome,
           at = "write", Reported(wr), at' = "check",
           Becomes(settle(send_to_peer(clients[i], outcome))),
           readable' \subseteq Conn, sigpipe' \in {"handled", "fatal"},
           UNCHANGED <<i, rd, wr, ex, polled, backlog>>
    PROVE  TcpdInv'
<1> DEFINE p == settle(send_to_peer(clients[i], outcome))
<1>1. /\ PeerInv(clients[i]) /\ connected(clients[i]) /\ i \in ConnectedSlot
      /\ clients[i].fifo # <<>>
  <2>1. /\ PeerInv(clients[i]) /\ connected(clients[i]) /\ i \in ConnectedSlot
        /\ clients[i].socket \in wr
    BY DEF Reported, TcpdInv, SlotsInv, TypeOK, ConnectedSlot
  <2> QED
    BY <2>1 DEF TcpdInv, WriteInv, Pass
<1>2. PeerInv(p)
  BY <1>1, SettledSendInv
<1>3. connected(p) => p.socket = clients[i].socket /\ p.conn = clients[i].conn
  BY <1>1, SendKeeps
<1>4. Becomes(p) /\ SlotMove
  BY DEF SlotMove
<1> HIDE DEF p
<1> QED
  BY <1>1, <1>2, <1>3, <1>4, SlotStepInv

(* So is a do_write() whatever send() answers.                              *)
LEMMA WriteInvStep ==
    ASSUME TcpdInv, NEW outcome \in SendOutcome, do_write(outcome)
    PROVE  TcpdInv'
<1>1. readable' \subseteq Conn /\ sigpipe' \in {"handled", "fatal"}
  BY DEF do_write, TcpdInv, TypeOK
<1> QED
  BY <1>1, WriteStepInv DEF do_write

(* So is the send that raises SIGPIPE and survives it.                      *)
LEMMA SigpipeInv == TcpdInv /\ do_write_sigpipe => TcpdInv'
<1> SUFFICES ASSUME TcpdInv, do_write_sigpipe PROVE TcpdInv'
  OBVIOUS
<1>1. /\ readable' \subseteq Conn /\ sigpipe' \in {"handled", "fatal"}
      /\ "failed" \in SendOutcome
  BY DEF do_write_sigpipe, TcpdInv, TypeOK, SendOutcome
<1> QED
  BY <1>1, WriteStepInv DEF do_write_sigpipe

(* So is the close for an exceptional condition.                            *)
LEMMA CheckInv == TcpdInv /\ (do_check \/ skip_check) => TcpdInv'
<1>1. ASSUME TcpdInv, do_check PROVE TcpdInv'
  <2> DEFINE p == close_client_connection(clients[i])
  <2>1. PeerInv(clients[i])
    BY <1>1 DEF TcpdInv, SlotsInv, TypeOK
  <2>2. PeerInv(p) /\ ~connected(p)
    BY <2>1, CloseInv DEF PeerInv
  <2>3. /\ Becomes(p) /\ SlotMove /\ readable' \subseteq Conn /\ backlog' = backlog
        /\ sigpipe' \in {"handled", "fatal"}
    BY <1>1 DEF do_check, SlotMove, TcpdInv, TypeOK
  <2> HIDE DEF p
  <2> QED
    BY <1>1, <2>2, <2>3, SlotStepInv
<1>2. ASSUME TcpdInv, skip_check PROVE TcpdInv'
  <2>1. i \in Slot /\ clients \in [Slot -> PeerState] /\ PeerInv(clients[i])
    BY <1>2 DEF TcpdInv, SlotsInv, TypeOK
  <2>2. Becomes(clients[i])
    BY <1>2, <2>1 DEF skip_check, Becomes, kernel
  <2>3. /\ SlotMove /\ readable' \subseteq Conn /\ backlog' = backlog
        /\ sigpipe' \in {"handled", "fatal"} /\ at = "check"
    BY <1>2 DEF skip_check, SlotMove, TcpdInv, TypeOK, kernel
  <2> QED
    BY <1>2, <2>1, <2>2, <2>3, SlotStepInv
<1> QED
  BY <1>1, <1>2

(* Steps that only move the loop on, and those of the clients.              *)
LEMMA OtherInv ==
    ASSUME TcpdInv,
           \/ no_stdin \/ no_accept \/ reject_connection \/ accept_fails
           \/ no_except \/ skip_read \/ skip_write
           \/ Connect \/ (\E c \in Conn : Talk(c)) \/ UNCHANGED vars
    PROVE  TcpdInv'
<1> DEFINE Moved == \/ at' = at
                    \/ /\ at \in Pass \ {"check"} /\ at' \in Pass \ {"stdin"}
                       /\ at' = "accept" => at = "stdin"
           Same  == UNCHANGED <<clients, i, rd, wr, ex, polled, fds, sigpipe>>
           Typ   == backlog' \in 0 .. MAX_BACKLOG /\ readable' \subseteq Conn
<1>1. backlog \in 0 .. MAX_BACKLOG /\ readable \subseteq Conn /\ MAX_BACKLOG \in Nat
  BY TcpdAssumption DEF TcpdInv, TypeOK
<1>2. CASE no_stdin \/ no_accept \/ no_except \/ skip_read \/ skip_write
  <2>1. Moved /\ Same /\ Typ
    BY <1>1, <1>2 DEF no_stdin, no_accept, no_except, skip_read, skip_write, Pass, kernel
  <2> QED
    BY <2>1, MoveInv
<1>3. CASE reject_connection \/ accept_fails
  <2>1. Moved /\ Same /\ Typ
    BY <1>1, <1>3 DEF reject_connection, accept_fails, Pass
  <2> QED
    BY <2>1, MoveInv
<1>4. CASE Connect \/ \E c \in Conn : Talk(c)
  <2>1. Moved /\ Same /\ Typ
    BY <1>1, <1>4 DEF Connect, Talk, loop
  <2> QED
    BY <2>1, MoveInv
<1>5. CASE UNCHANGED vars
  <2>1. Moved /\ Same /\ Typ
    BY <1>1, <1>5 DEF vars
  <2> QED
    BY <2>1, MoveInv
<1> QED
  BY <1>2, <1>3, <1>4, <1>5

(* Every step of the loop, a client, a signal or the kernel keeps the       *)
(* invariant.                                                               *)
LEMMA TcpdNext == TcpdInv /\ [Next]_vars => TcpdInv'
<1> SUFFICES ASSUME TcpdInv, [Next]_vars PROVE TcpdInv'
  OBVIOUS
<1>1. CASE select
  BY <1>1, SelectInv
<1>2. CASE \/ select_fails \/ read_from_stdin_fails \/ except_exits
           \/ killed_by_sigpipe \/ handle_signal_action
  BY <1>2, ExitInv DEF select_fails, read_from_stdin_fails, except_exits,
     killed_by_sigpipe, handle_signal_action
<1>3. CASE \E rx \in Incoming : handle_read_from_stdin(rx)
  BY <1>3, StdinStepInv
<1>4. CASE new_connection
  BY <1>4, NewConnectionInv
<1>5. CASE \E outcome \in RecvOutcome, rx \in Incoming : do_read(outcome, rx)
  BY <1>5, ReadInv
<1>6. CASE \E outcome \in SendOutcome : do_write(outcome)
  BY <1>6, WriteInvStep
<1>7. CASE do_write_sigpipe
  BY <1>7, SigpipeInv
<1>8. CASE do_check \/ skip_check
  BY <1>8, CheckInv
<1>9. CASE \/ no_stdin \/ no_accept \/ reject_connection \/ accept_fails
           \/ no_except \/ skip_read \/ skip_write
           \/ Connect \/ (\E c \in Conn : Talk(c)) \/ UNCHANGED vars
  BY <1>9, OtherInv
<1> QED
  BY <1>1, <1>2, <1>3, <1>4, <1>5, <1>6, <1>7, <1>8, <1>9 DEF Next, do_server

-------------------------------------------------------------------------------
(* The inductive invariant of the server.                                   *)
THEOREM TcpdInvariant == Spec => []TcpdInv
  BY TcpdInit, TcpdNext, PTL DEF Spec

(* Table, loop and kernel state keep their types for any number of clients. *)
THEOREM TcpdTypeOK == Spec => []TypeOK
<1>1. TcpdInv => TypeOK
  BY DEF TcpdInv
<1> QED
  BY <1>1, TcpdInvariant, PTL

(* tcpd neither leaks nor shares a client descriptor, whatever connects,    *)
(* fails or is turned away, for any number of slots and descriptors.        *)
THEOREM TcpdFdAccounting == Spec => []FdAccounting
<1>1. TcpdInv => FdAccounting
  BY DEF TcpdInv
<1> QED
  BY <1>1, TcpdInvariant, PTL

(* do_server_ex() never acts for one connection on a bit that select() set  *)
(* for another one with the same descriptor.                                *)
THEOREM TcpdReportsFresh == Spec => []ReportsFresh
<1>1. TcpdInv => ReportsFresh
  BY DEF TcpdInv
<1> QED
  BY <1>1, TcpdInvariant, PTL

-------------------------------------------------------------------------------
(* The whole server implements Session, slot by slot: what the loop does    *)
(* for one slot is a step of that slot's Session and what it does for the   *)
(* others leaves it alone.                                                  *)
(* The operators of Peer are the same in Tcpd and in a slot's Session.      *)
LEMMA SameSlotState ==
    ASSUME NEW s
    PROVE  /\ SlotSession(s)!create_peer = create_peer
           /\ \A p : SlotSession(s)!connected(p) = connected(p)
           /\ \A p : SlotSession(s)!UnusedTag(p) = UnusedTag(p)
           /\ \A p, o : SlotSession(s)!can_recv(p, o) = can_recv(p, o)
           /\ SlotSession(s)!RecvOutcome = RecvOutcome
           /\ SlotSession(s)!SendOutcome = SendOutcome
  BY DEF create_peer, SlotSession!create_peer, connected, SlotSession!connected,
     UnusedTag, SlotSession!UnusedTag, InFlight, SlotSession!InFlight,
     can_recv, SlotSession!can_recv, NO_SOCKET, SlotSession!NO_SOCKET,
     MINUS1, SlotSession!MINUS1, RecvOutcome, SlotSession!RecvOutcome,
     SendOutcome, SlotSession!SendOutcome

(* So are the calls that open and close a slot.                             *)
LEMMA SameSlotCalls ==
    ASSUME NEW s
    PROVE  /\ \A p, sock, c : SlotSession(s)!add_to_new_connection(p, sock, c)
                                 = add_to_new_connection(p, sock, c)
           /\ \A p : SlotSession(s)!close_client_connection(p)
                        = close_client_connection(p)
           /\ \A r : SlotSession(s)!settle(r) = settle(r)
  BY DEF add_to_new_connection, SlotSession!add_to_new_connection,
     close_client_connection, SlotSession!close_client_connection,
     settle, SlotSession!settle, NO_SOCKET, SlotSession!NO_SOCKET

(* And the calls that queue a message.                                      *)
LEMMA SameAdd ==
    ASSUME NEW s
    PROVE  /\ \A p, rx : SlotSession(s)!prepare_message(p, rx) = prepare_message(p, rx)
           /\ \A p, m : SlotSession(s)!peer_add_to_send(p, m) = peer_add_to_send(p, m)
<1>1. ASSUME NEW p, NEW rx
      PROVE  SlotSession(s)!prepare_message(p, rx) = prepare_message(p, rx)
  BY DEF prepare_message, SlotSession!prepare_message, UnusedTag,
     SlotSession!UnusedTag, InFlight, SlotSession!InFlight
<1>2. ASSUME NEW p, NEW m
      PROVE  SlotSession(s)!peer_add_to_send(p, m) = peer_add_to_send(p, m)
  BY DEF peer_add_to_send, SlotSession!peer_add_to_send
<1> QED
  BY <1>1, <1>2

(* receive_from_peer() with the message handler.                            *)
LEMMA SameReceive ==
    ASSUME NEW s
    PROVE  \A p, o, rx : SlotSession(s)!receive_from_peer(p, o, rx)
                            = receive_from_peer(p, o, rx)
<1>1. ASSUME NEW p, NEW rx
      PROVE  SlotSession(s)!answer(p, rx) = answer(p, rx)
  <2> DEFINE m == prepare_message(p, rx)
  <2>1. SlotSession(s)!prepare_message(p, rx) = m
    BY SameAdd
  <2>2. \A q : SlotSession(s)!peer_add_to_send(q, m) = peer_add_to_send(q, m)
    BY SameAdd
  <2> HIDE DEF m
  <2> QED
    BY <2>1, <2>2 DEF answer, SlotSession!answer, m
<1>2. \A p, rx : SlotSession(s)!refused(p, rx) = refused(p, rx)
                 /\ SlotSession(s)!new_transaction(p, rx) = new_transaction(p, rx)
  BY DEF refused, SlotSession!refused, new_transaction,
     SlotSession!new_transaction, MINUS1, SlotSession!MINUS1
<1>3. \A p, rx : SlotSession(s)!handle_received_message(p, rx)
                    = handle_received_message(p, rx)
  BY <1>1, <1>2 DEF handle_received_message, SlotSession!handle_received_message
<1> QED
  BY <1>3 DEF receive_from_peer, SlotSession!receive_from_peer

(* send_to_peer().                                                          *)
LEMMA SameSend ==
    ASSUME NEW s
    PROVE  \A p, o : SlotSession(s)!send_to_peer(p, o) = send_to_peer(p, o)
<1>1. SlotSession(s)!tot_len = tot_len
  BY DEF tot_len, SlotSession!tot_len, DataBytes, SlotSession!DataBytes
<1>2. \A p : SlotSession(s)!dequeued(p) = dequeued(p)
  BY DEF dequeued, SlotSession!dequeued
<1> QED
  BY <1>1, <1>2 DEF send_to_peer, SlotSession!send_to_peer

-------------------------------------------------------------------------------
(* Each kind of step of the loop, for the slot it is about.                 *)
LEMMA SlotSteps ==
    ASSUME NEW s \in Slot
    PROVE  /\ \A sock \in Socket, c \in Conn :
                 /\ ~connected(clients[s])
                 /\ clients'[s] = add_to_new_connection(clients[s], sock, c)
                 => SlotSession(s)!PeerNext
           /\ \A o \in RecvOutcome, rx \in Incoming :
                 /\ connected(clients[s])
                 /\ can_recv(clients[s], o)
                 /\ UnusedTag(clients[s]) # {}
                 /\ clients'[s] = settle(receive_from_peer(clients[s], o, rx))
                 => SlotSession(s)!PeerNext
           /\ \A o \in SendOutcome :
                 /\ connected(clients[s])
                 /\ clients[s].fifo # <<>>
                 /\ clients'[s] = settle(send_to_peer(clients[s], o))
                 => SlotSession(s)!PeerNext
           /\ \A rx \in Incoming :
                 /\ connected(clients[s])
                 /\ UnusedTag(clients[s]) # {}
                 /\ clients'[s] = peer_add_to_send(clients[s],
                                        prepare_message(clients[s], rx))
                 => SlotSession(s)!PeerNext
           /\ /\ connected(clients[s])
              /\ clients'[s] = close_client_connection(clients[s])
              => SlotSession(s)!PeerNext
<1>1. ASSUME NEW sock \in Socket, NEW c \in Conn, ~connected(clients[s]),
             clients'[s] = add_to_new_connection(clients[s], sock, c)
      PROVE  SlotSession(s)!PeerNext
  BY <1>1, SameSlotState, SameSlotCalls DEF SlotSession!PeerNext, SlotSession!Accept
<1>2. ASSUME NEW o \in RecvOutcome, NEW rx \in Incoming,
             connected(clients[s]), can_recv(clients[s], o),
             UnusedTag(clients[s]) # {},
             clients'[s] = settle(receive_from_peer(clients[s], o, rx))
      PROVE  SlotSession(s)!PeerNext
  BY <1>2, SameSlotState, SameSlotCalls, SameReceive
     DEF SlotSession!PeerNext, SlotSession!Receive
<1>3. ASSUME NEW o \in SendOutcome, connected(clients[s]),
             clients[s].fifo # <<>>,
             clients'[s] = settle(send_to_peer(clients[s], o))
      PROVE  SlotSession(s)!PeerNext
  BY <1>3, SameSlotState, SameSlotCalls, SameSend
     DEF SlotSession!PeerNext, SlotSession!Send
<1>4. ASSUME NEW rx \in Incoming, connected(clients[s]),
             UnusedTag(clients[s]) # {},
             clients'[s] = peer_add_to_send(clients[s],
                                prepare_message(clients[s], rx))
      PROVE  SlotSession(s)!PeerNext
  BY <1>4, SameSlotState, SameAdd DEF SlotSession!PeerNext, SlotSession!Stdin
<1>5. ASSUME connected(clients[s]),
             clients'[s] = close_client_connection(clients[s])
      PROVE  SlotSession(s)!PeerNext
  BY <1>5, SameSlotState, SameSlotCalls DEF SlotSession!PeerNext, SlotSession!Except
<1> QED
  BY <1>1, <1>2, <1>3, <1>4, <1>5

SlotsStep ==
    \A s \in Slot : SlotSession(s)!PeerNext \/ UNCHANGED clients[s]

(* A step that changes only slot i changes it as a Session may.             *)
LEMMA OneSlotStep ==
    ASSUME TcpdInv, NEW p, Becomes(p),
           ASSUME NEW s \in Slot, s = i, clients'[s] = p
           PROVE  SlotSession(s)!PeerNext
    PROVE  SlotsStep
<1>1. clients \in [Slot -> PeerState] /\ i \in Slot
  BY DEF TcpdInv, TypeOK
<1>2. clients'[i] = p /\ \A s \in Slot : s # i => clients'[s] = clients[s]
  BY <1>1 DEF Becomes
<1>3. ASSUME NEW s \in Slot
      PROVE  SlotSession(s)!PeerNext \/ clients'[s] = clients[s]
  <2>1. CASE s = i
    BY <1>2, <2>1
  <2>2. CASE s # i
    BY <1>2, <2>2
  <2> QED
    BY <2>1, <2>2
<1> QED
  BY <1>3 DEF SlotsStep

(* Every step of the server is, for every slot, a Session's or none.        *)
LEMMA TcpdSlotsStep == TcpdInv /\ [Next]_vars => [SlotsStep]_clients
<1> SUFFICES ASSUME TcpdInv, [Next]_vars, clients' # clients PROVE SlotsStep
  OBVIOUS
<1>0. clients \in [Slot -> PeerState] /\ i \in Slot
  BY DEF TcpdInv, TypeOK
<1>1. CASE \E rx \in Incoming : handle_read_from_stdin(rx)
  <2>1. PICK rx \in Incoming : handle_read_from_stdin(rx)
    BY <1>1
  <2>2. ASSUME NEW s \in Slot
        PROVE  SlotSession(s)!PeerNext \/ clients'[s] = clients[s]
    <3>1. CASE connected(clients[s])
      <4>1. /\ UnusedTag(clients[s]) # {}
            /\ clients'[s] = peer_add_to_send(clients[s],
                                  prepare_message(clients[s], rx))
        BY <2>1, <3>1 DEF handle_read_from_stdin, ConnectedSlot
      <4> QED
        BY <3>1, <4>1, SlotSteps
    <3>2. CASE ~connected(clients[s])
      BY <2>1, <3>2 DEF handle_read_from_stdin
    <3> QED
      BY <3>1, <3>2
  <2> QED
    BY <2>2 DEF SlotsStep
<1>2. CASE new_connection
  <2> DEFINE fd == Lowest(FreeFd)
             c  == CHOOSE n \in NewConn : TRUE
             t  == Lowest(FreeSlot)
  <2>1. fd \in Socket /\ c \in Conn /\ t \in Slot /\ ~connected(clients[t])
    <3>1. FreeFd # {} /\ FreeSlot # {}
      BY <1>2 DEF new_connection
    <3>2. FreeFd \in SUBSET Nat
      BY PeerAssumption DEF FreeFd
    <3>3. FreeSlot \in SUBSET Nat
      BY TcpdAssumption DEF FreeSlot, Slot
    <3>4. fd \in FreeFd /\ t \in FreeSlot
      BY <3>1, <3>2, <3>3, LowestIsLeast
    <3>5. c \in NewConn
      BY <1>2 DEF new_connection
    <3> QED
      BY <3>4, <3>5 DEF FreeFd, FreeSlot, NewConn, ConnectedSlot
  <2>2. clients' = [clients EXCEPT ![t] = add_to_new_connection(clients[t], fd, c)]
    BY <1>2 DEF new_connection
  <2> HIDE DEF fd, c, t
  <2>3. ASSUME NEW s \in Slot
        PROVE  SlotSession(s)!PeerNext \/ clients'[s] = clients[s]
    <3>1. CASE s = t
      <4>1. clients'[s] = add_to_new_connection(clients[s], fd, c)
        BY <1>0, <2>2, <3>1
      <4>2. ~connected(clients[s])
        BY <2>1, <3>1
      <4> QED
        BY <2>1, <4>1, <4>2, SlotSteps
    <3>2. CASE s # t
      BY <1>0, <2>2, <3>2
    <3> QED
      BY <3>1, <3>2
  <2> QED
    BY <2>3 DEF SlotsStep
<1>3. CASE \E o \in RecvOutcome, rx \in Incoming : do_read(o, rx)
  <2>1. PICK o \in RecvOutcome, rx \in Incoming : do_read(o, rx)
    BY <1>3
  <2>2. /\ connected(clients[i]) /\ can_recv(clients[i], o)
        /\ UnusedTag(clients[i]) # {}
        /\ Becomes(settle(receive_from_peer(clients[i], o, rx)))
    BY <2>1 DEF do_read, Reported
  <2>3. ASSUME NEW s \in Slot, s = i,
               clients'[s] = settle(receive_from_peer(clients[i], o, rx))
        PROVE  SlotSession(s)!PeerNext
    BY <2>2, <2>3, SlotSteps
  <2> QED
    BY <2>2, <2>3, OneSlotStep
<1>4. CASE do_write_sigpipe \/ \E o \in SendOutcome : do_write(o)
  <2>1. PICK o \in SendOutcome :
           /\ at = "write" /\ Reported(wr)
           /\ Becomes(settle(send_to_peer(clients[i], o)))
    BY <1>4 DEF do_write, do_write_sigpipe, SendOutcome
  <2>2. connected(clients[i]) /\ clients[i].fifo # <<>>
    <3>1. i \in ConnectedSlot /\ clients[i].socket \in wr /\ connected(clients[i])
      BY <1>0, <2>1 DEF Reported, ConnectedSlot
    <3> QED
      BY <2>1, <3>1 DEF TcpdInv, WriteInv, Pass
  <2>3. ASSUME NEW s \in Slot, s = i,
               clients'[s] = settle(send_to_peer(clients[i], o))
        PROVE  SlotSession(s)!PeerNext
    BY <2>2, <2>3, SlotSteps
  <2> QED
    BY <2>1, <2>3, OneSlotStep
<1>5. CASE do_check
  <2>1. connected(clients[i]) /\ Becomes(close_client_connection(clients[i]))
    BY <1>5 DEF do_check, Reported
  <2>2. ASSUME NEW s \in Slot, s = i,
               clients'[s] = close_client_connection(clients[i])
        PROVE  SlotSession(s)!PeerNext
    BY <2>1, <2>2, SlotSteps
  <2> QED
    BY <2>1, <2>2, OneSlotStep
<1>6. CASE UNCHANGED clients
  BY <1>6
<1>7. CASE \/ select \/ no_stdin \/ no_accept \/ reject_connection
           \/ accept_fails \/ no_except \/ skip_read \/ skip_write
           \/ skip_check \/ Connect \/ (\E c \in Conn : Talk(c))
  BY <1>7 DEF select, no_stdin, no_accept, reject_connection, accept_fails,
     no_except, skip_read, skip_write, skip_check, Connect, Talk
<1>8. CASE \/ select_fails \/ read_from_stdin_fails \/ except_exits
           \/ killed_by_sigpipe \/ handle_signal_action
  BY <1>8 DEF select_fails, read_from_stdin_fails, except_exits,
     killed_by_sigpipe, handle_signal_action, Exit
<1> QED
  BY <1>1, <1>2, <1>3, <1>4, <1>5, <1>6, <1>7, <1>8 DEF Next, do_server, vars

(* For any number of slots and descriptors, every slot of the server        *)
(* behaves as a Session does, however the loop interleaves its visits with  *)
(* those to other slots, so what holds of a Session holds of every client.  *)
THEOREM TcpdSlotsAreSessions == Spec => SlotsAreSessions
<1>1. Init => \A s \in Slot : SlotSession(s)!PeerInit
  BY SameSlotState DEF Init, SlotSession!PeerInit
<1>2. TcpdInv /\ [Next]_vars => [SlotsStep]_clients
  BY TcpdSlotsStep
<1> QED
  BY <1>1, <1>2, TcpdInvariant, PTL DEF Spec, SlotsAreSessions, SlotsStep
===============================================================================
