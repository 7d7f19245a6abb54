---------------------------------- MODULE Tcpd --------------------------------
(***************************************************************************)
(* The server tcpd: the select() loop of server.c over the clients[] table,*)
(* stdin and the listening socket, with the kernel's side of it: the       *)
(* process's descriptors, the connections waiting to be accepted and those *)
(* with something to read.                                                 *)
(*                                                                         *)
(* The loop is one thread, so each call it makes is one step; clients,     *)
(* signals and the kernel act between any two of them.  `at' says which    *)
(* call of do_server() and do_server_ex() comes next and `i' for which     *)
(* slot.                                                                   *)
(***************************************************************************)
EXTENDS Peer

CONSTANTS MAX_CLIENTS,
          MAX_BACKLOG     \* bound on the connections waiting for accept()

ASSUME TcpdAssumption ==
    /\ MAX_CLIENTS \in Nat \ {0}
    /\ MAX_BACKLOG \in Nat
    /\ \A fd \in Socket : fd > 3

STDIN  == 0
LISTEN == 3      \* server.socket, the first descriptor the program opens

Slot == 0 .. MAX_CLIENTS - 1

VARIABLES clients,    \* the table clients[]
          at, i,      \* where the loop is
          rd, wr, ex, \* read_fds, write_fds and except_fds
          fds,        \* the connection each client descriptor is open for
          polled,     \* observer: fds when select() was called
          backlog,    \* number of connections waiting for accept()
          readable,   \* connections with bytes, or an end of file, to read
          sigpipe     \* what SIGPIPE does

vars ==
    <<clients, at, i, rd, wr, ex, fds, polled, backlog, readable, sigpipe>>

loop   == <<at, i, rd, wr, ex, polled>>
kernel == <<fds, backlog, readable, sigpipe>>

Init ==
    /\ clients = [s \in Slot |-> create_peer]
    /\ at = "select" /\ i = 0
    /\ rd = {} /\ wr = {} /\ ex = {}
    /\ fds = [fd \in Socket |-> NoConn]
    /\ polled = fds
    /\ backlog = 0
    /\ readable = {}
    /\ sigpipe = "handled"

\* The steps of do_server_ex().
Pass == {"stdin", "accept", "except", "read", "write", "check"}

ConnectedSlot == {s \in Slot : connected(clients[s])}

-------------------------------------------------------------------------------
(* Clients and the kernel (external to the program).                        *)

Connect ==
    /\ at # "exit"
    /\ backlog < MAX_BACKLOG
    /\ backlog' = backlog + 1
    /\ UNCHANGED <<clients, loop, fds, readable, sigpipe>>

\* An accepted client sends, closes or resets, or did so before accept().
Talk(c) ==
    /\ at # "exit"
    /\ \E fd \in Socket : fds[fd] = c
    /\ readable' = readable \cup {c}
    /\ UNCHANGED <<clients, loop, fds, backlog, sigpipe>>

-------------------------------------------------------------------------------
(* Leaving: shutdown_properly() or death by a signal; the kernel closes     *)
(* every descriptor of the process.                                         *)

AllClosed == [fd \in Socket |-> NoConn]

Exit ==
    /\ at' = "exit" /\ i' = 0
    /\ rd' = {} /\ wr' = {} /\ ex' = {}
    /\ fds' = AllClosed /\ polled' = AllClosed
    /\ backlog' = 0 /\ readable' = {}
    /\ UNCHANGED <<clients, sigpipe>>

handle_signal_action == at # "exit" /\ Exit

-------------------------------------------------------------------------------
(* do_server()                                                              *)

\* A plausible slip: only the first connected slot is looked at.
max_fds_of_first ==
    IF ConnectedSlot = {} THEN LISTEN
    ELSE clients[CHOOSE s \in ConnectedSlot :
                        \A t \in ConnectedSlot : s <= t].socket

get_max_fds ==
    CHOOSE m \in {LISTEN} \cup {clients[s].socket : s \in ConnectedSlot} :
        \A s \in ConnectedSlot : m >= clients[s].socket

Monitored(S) == {fd \in S : fd <= get_max_fds}

\* build_fd_sets(), get_max_fds() and select().  What select() leaves in
\* read_fds follows from the kernel's state, except that stdin may have a
\* line; write_fds and except_fds keep all that was asked for, and whether
\* such a descriptor was reported is decided when its bit is looked at.
select ==
    /\ at = "select"
    /\ \E typed \in SUBSET {STDIN} :
          rd' = Monitored(typed
                    \cup {fd \in {LISTEN} : backlog > 0}
                    \cup {clients[s].socket : s \in
                            {t \in ConnectedSlot : clients[t].conn \in readable}})
    /\ wr' = Monitored({clients[s].socket : s \in
                            {t \in ConnectedSlot : clients[t].fifo # <<>>}})
    /\ ex' = Monitored({clients[s].socket : s \in ConnectedSlot})
    /\ polled' = fds
    /\ at' = "stdin" /\ i' = 0
    /\ UNCHANGED <<clients, kernel>>

\* EINTR and EAGAIN repeat the loop body with nothing changed.
select_fails == at = "select" /\ Exit

-------------------------------------------------------------------------------
(* do_server_ex()                                                           *)

no_stdin ==
    /\ at = "stdin" /\ STDIN \notin rd
    /\ at' = "accept"
    /\ UNCHANGED <<clients, i, rd, wr, ex, polled, kernel>>

\* An end of file or EAGAIN leaves the buffer zeroed and is queued as well.
handle_read_from_stdin(rx) ==
    /\ at = "stdin" /\ STDIN \in rd
    /\ \A s \in ConnectedSlot : UnusedTag(clients[s]) # {}
    /\ clients' = [s \in Slot |->
                     IF connected(clients[s])
                     THEN peer_add_to_send(clients[s], prepare_message(clients[s], rx))
                     ELSE clients[s]]
    /\ at' = "accept"
    /\ UNCHANGED <<i, rd, wr, ex, polled, kernel>>

read_from_stdin_fails == at = "stdin" /\ STDIN \in rd /\ Exit

no_accept ==
    /\ at = "accept" /\ LISTEN \notin rd
    /\ at' = "except"
    /\ UNCHANGED <<clients, i, rd, wr, ex, polled, kernel>>

FreeFd   == {fd \in Socket : fds[fd] = NoConn}
FreeSlot == Slot \ ConnectedSlot

\* Names of connections are arbitrary: one not seen since select().
NewConn == {c \in Conn : \A fd \in Socket : fds[fd] # c /\ polled[fd] # c}

Lowest(S) == CHOOSE n \in S : \A m \in S : n <= m

\* accept() uses the lowest free descriptor, add_to_new_connection() the
\* first free slot.
new_connection ==
    /\ at = "accept" /\ LISTEN \in rd
    /\ backlog > 0 /\ FreeFd # {} /\ FreeSlot # {} /\ NewConn # {}
    /\ LET fd == Lowest(FreeFd)
           c  == CHOOSE n \in NewConn : TRUE
       IN /\ fds' = [fds EXCEPT ![fd] = c]
          /\ clients' = [clients EXCEPT ![Lowest(FreeSlot)] =
                            add_to_new_connection(@, fd, c)]
    /\ backlog' = backlog - 1
    /\ at' = "except"
    /\ UNCHANGED <<i, rd, wr, ex, polled, readable, sigpipe>>

\* A plausible slip: the connection that finds no slot is not closed.
reject_without_close ==
    /\ at = "accept" /\ LISTEN \in rd
    /\ backlog > 0 /\ FreeFd # {} /\ FreeSlot = {} /\ NewConn # {}
    /\ fds' = [fds EXCEPT ![Lowest(FreeFd)] = CHOOSE n \in NewConn : TRUE]
    /\ backlog' = backlog - 1
    /\ at' = "except"
    /\ UNCHANGED <<clients, i, rd, wr, ex, polled, readable, sigpipe>>

\* No slot: the descriptor accept() returned is closed at once.
reject_connection ==
    /\ at = "accept" /\ LISTEN \in rd
    /\ backlog > 0 /\ FreeFd # {} /\ FreeSlot = {}
    /\ backlog' = backlog - 1
    /\ at' = "except"
    /\ UNCHANGED <<clients, i, rd, wr, ex, polled, fds, readable, sigpipe>>

\* accept() fails: no descriptor is left, or the client has gone.
accept_fails ==
    /\ at = "accept" /\ LISTEN \in rd
    /\ backlog' \in {backlog, backlog - 1} \cap Nat
    /\ at' = "except"
    /\ UNCHANGED <<clients, i, rd, wr, ex, polled, fds, readable, sigpipe>>

\* except_fds for stdin or the listening socket.
except_exits == at = "except" /\ Exit

no_except ==
    /\ at = "except"
    /\ at' = "read"
    /\ UNCHANGED <<clients, i, rd, wr, ex, polled, kernel>>

-------------------------------------------------------------------------------
(* The loop over the slots.                                                 *)

Reported(set) == connected(clients[i]) /\ clients[i].socket \in set

\* Slot i becomes p; if that closed it, its descriptor is free again and
\* what was left to read is gone.
Becomes(p) ==
    /\ clients' = [clients EXCEPT ![i] = p]
    /\ fds' = IF connected(clients[i]) /\ ~connected(p)
              THEN [fds EXCEPT ![clients[i].socket] = NoConn] ELSE fds

skip_read ==
    /\ at = "read" /\ ~Reported(rd)
    /\ at' = "write"
    /\ UNCHANGED <<clients, i, rd, wr, ex, polled, kernel>>

do_read(outcome, rx) ==
    /\ at = "read" /\ Reported(rd)
    /\ can_recv(clients[i], outcome)
    /\ UnusedTag(clients[i]) # {}
    /\ Becomes(settle(receive_from_peer(clients[i], outcome, rx)))
    /\ readable' = IF outcome = "again" THEN readable
                   ELSE readable \ {clients[i].conn}
    /\ at' = "write"
    /\ UNCHANGED <<i, rd, wr, ex, polled, backlog, sigpipe>>

\* The socket was not asked for, or not reported writable.
skip_write ==
    /\ at = "write"
    /\ at' = "check"
    /\ UNCHANGED <<clients, i, rd, wr, ex, polled, kernel>>

\* A plausible slip: the client of a failed send() is not closed.
write_without_close(outcome) ==
    /\ at = "write" /\ Reported(wr)
    /\ Becomes(send_to_peer(clients[i], outcome).peer)
    /\ at' = "check"
    /\ UNCHANGED <<i, rd, wr, ex, polled, backlog, readable, sigpipe>>

do_write(outcome) ==
    /\ at = "write" /\ Reported(wr)
    /\ Becomes(settle(send_to_peer(clients[i], outcome)))
    /\ readable' = IF outcome = "failed" THEN readable \ {clients[i].conn}
                   ELSE readable
    /\ at' = "check"
    /\ UNCHANGED <<i, rd, wr, ex, polled, backlog, sigpipe>>

\* send() to a client that has gone: SIGPIPE, and EPIPE if it is survived.
\* setup_signals() leaves sa_flags uninitialized; if SA_RESETHAND is among
\* them the handler serves one signal only.
do_write_sigpipe ==
    /\ at = "write" /\ Reported(wr)
    /\ sigpipe = "handled"
    /\ sigpipe' \in {"handled", "fatal"}
    /\ Becomes(settle(send_to_peer(clients[i], "failed")))
    /\ readable' = readable \ {clients[i].conn}
    /\ at' = "check"
    /\ UNCHANGED <<i, rd, wr, ex, polled, backlog>>

killed_by_sigpipe ==
    /\ at = "write" /\ Reported(wr)
    /\ sigpipe = "fatal"
    /\ Exit

\* A plausible slip: while connections wait, the loop goes on accepting
\* with the sets it has.
next_slot_no_select ==
    IF i + 1 < MAX_CLIENTS
    THEN at' = "read" /\ i' = i + 1 /\ UNCHANGED <<rd, wr, ex, polled>>
    ELSE IF backlog > 0
    THEN at' = "accept" /\ i' = 0 /\ UNCHANGED <<rd, wr, ex, polled>>
    ELSE at' = "select" /\ i' = 0 /\ rd' = {} /\ wr' = {} /\ ex' = {}
         /\ polled' = AllClosed

\* After the last slot the sets are of no more use; FD_ZERO empties them.
next_slot ==
    IF i + 1 < MAX_CLIENTS
    THEN at' = "read" /\ i' = i + 1 /\ UNCHANGED <<rd, wr, ex, polled>>
    ELSE at' = "select" /\ i' = 0 /\ rd' = {} /\ wr' = {} /\ ex' = {}
         /\ polled' = AllClosed

skip_check ==
    /\ at = "check"
    /\ next_slot
    /\ UNCHANGED <<clients, kernel>>

do_check ==
    /\ at = "check" /\ Reported(ex)
    /\ Becomes(close_client_connection(clients[i]))
    /\ readable' = readable \ {clients[i].conn}
    /\ next_slot
    /\ UNCHANGED <<backlog, sigpipe>>

-------------------------------------------------------------------------------
do_server ==
    \/ select \/ select_fails
    \/ no_stdin \/ read_from_stdin_fails
    \/ \E rx \in Incoming : handle_read_from_stdin(rx)
    \/ no_accept
    \/ new_connection \/ reject_connection \/ accept_fails
    \/ except_exits \/ no_except
    \/ skip_read \/ \E outcome \in RecvOutcome, rx \in Incoming : do_read(outcome, rx)
    \/ skip_write \/ \E outcome \in SendOutcome : do_write(outcome)
    \/ do_write_sigpipe \/ killed_by_sigpipe
    \/ skip_check \/ do_check

Next ==
    \/ do_server
    \/ handle_signal_action
    \/ Connect
    \/ \E c \in Conn : Talk(c)

Spec == Init /\ [][Next]_vars

\* recv() gives what a readable socket has, if not always at the first try.
TakesInput(s) ==
    /\ i = s
    /\ \E outcome \in RecvOutcome \ {"again"}, rx \in Incoming :
          do_read(outcome, rx)

\* The loop runs as long as the process does, and a socket that select()
\* reports readable does not answer EAGAIN for ever.
FairSpec ==
    /\ Spec
    /\ WF_vars(do_server)
    /\ \A s \in Slot : SF_vars(TakesInput(s))

-------------------------------------------------------------------------------
(* The table, the loop and the kernel's state are what the actions expect.  *)
TypeOK ==
    /\ clients \in [Slot -> PeerState]
    /\ \A s \in Slot : Len(clients[s].fifo) <= MAX_MESSAGES_BUFFER_SIZE
    /\ at \in {"select", "exit"} \cup Pass
    /\ i \in Slot
    /\ rd \subseteq Socket \cup {STDIN, LISTEN}
    /\ wr \subseteq Socket /\ ex \subseteq Socket
    /\ fds \in [Socket -> Conn \cup {NoConn}]
    /\ polled \in [Socket -> Conn \cup {NoConn}]
    /\ backlog \in 0 .. MAX_BACKLOG /\ readable \subseteq Conn
    /\ sigpipe \in {"handled", "fatal"}

\* Open client descriptors and connected slots correspond one to one.
FdsMatch ==
    /\ \A s \in ConnectedSlot : fds[clients[s].socket] = clients[s].conn
    /\ \A s \in ConnectedSlot : clients[s].conn # NoConn
    /\ \A fd \in Socket : fds[fd] # NoConn =>
          \E s \in ConnectedSlot : clients[s].socket = fd
    /\ \A s, t \in ConnectedSlot : clients[s].socket = clients[t].socket => s = t

(* No descriptor is leaked, lost or shared: through accepts, refusals,      *)
(* failures and reuse of numbers, the open client descriptors are exactly   *)
(* the sockets of the table, each in one slot, open for the connection that *)
(* slot serves.                                                             *)
FdAccounting == at # "exit" => FdsMatch

(* do_server_ex() looks sockets up in sets that select() filled before it   *)
(* accepted and closed connections: a bit it finds set was set for the      *)
(* connection that has the descriptor now, never for an earlier one with    *)
(* the same number.                                                         *)
ReportsFresh ==
    at \in Pass =>
        \A s \in ConnectedSlot :
            clients[s].socket \in rd \cup wr \cup ex =>
                polled[clients[s].socket] = clients[s].conn

SlotSession(s) == INSTANCE Session WITH peer <- clients[s]

(* Every slot of the server behaves as a Session, whatever the loop does    *)
(* for the others: send_to_peer() is called only while messages wait,       *)
(* receive_from_peer() only for a connected client, and a connection is     *)
(* given only to a free slot.                                               *)
SlotsAreSessions ==
    /\ \A s \in Slot : SlotSession(s)!PeerInit
    /\ [][\A s \in Slot : SlotSession(s)!PeerNext \/ UNCHANGED clients[s]]_clients

(* No client is starved by the traffic of others or by the number of its    *)
(* descriptor: what a served client sends is read in the end, unless the    *)
(* server exits.                                                            *)
InputIsRead ==
    \A s \in Slot :
        (clients[s].conn \in readable) ~> (clients[s].conn \notin readable)
===============================================================================
