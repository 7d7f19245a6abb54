----------------------------- MODULE MessageQueue -----------------------------
(***************************************************************************)
(* The send queue of a peer (queue.c): an array of `size' messages and the *)
(* number `current' of slots in use.  enqueue writes slot `current',       *)
(* dequeue reads slot `current - 1', dequeue_all only resets `current', so *)
(* slots at or above `current' keep stale messages.                        *)
(***************************************************************************)
EXTENDS Integers, Sequences

CONSTANTS Message,      \* the messages callers may store
          ZeroMessage,  \* what calloc() fills the array with
          Size          \* queue_size, MAX_MESSAGES_BUFFER_SIZE in the program

ASSUME QueueAssumption ==
    /\ Size \in Nat \ {0}
    /\ ZeroMessage \in Message

VARIABLES data,         \* queue->data
          current,      \* queue->current
          message,      \* the caller's buffer dequeue() copies to
          rc            \* the value returned by the last call

vars == <<data, current, message, rc>>

Index == 0 .. Size - 1

\* create_message_queue(): the array is zeroed and nothing waits.
Init ==
    /\ data = [i \in Index |-> ZeroMessage]
    /\ current = 0
    /\ message = ZeroMessage
    /\ rc = 0

\* A plausible slip: the room test compares with one slot too many.
enqueue_off_by_one(m) ==
    \/ /\ current = Size + 1
       /\ rc' = -1
       /\ UNCHANGED <<data, current, message>>
    \/ /\ current # Size + 1
       /\ data' = [data EXCEPT ![current] = m]
       /\ current' = current + 1
       /\ rc' = 0
       /\ UNCHANGED message

enqueue(m) ==
    \/ /\ current = Size
       /\ rc' = -1
       /\ UNCHANGED <<data, current, message>>
    \/ /\ current # Size
       /\ data' = [data EXCEPT ![current] = m]
       /\ current' = current + 1
       /\ rc' = 0
       /\ UNCHANGED message

\* A plausible slip: the oldest message is copied out, the newest removed.
dequeue_wrong_end ==
    \/ /\ current = 0
       /\ rc' = -1
       /\ UNCHANGED <<data, current, message>>
    \/ /\ current # 0
       /\ message' = data[0]
       /\ current' = current - 1
       /\ rc' = 0
       /\ UNCHANGED data

dequeue ==
    \/ /\ current = 0
       /\ rc' = -1
       /\ UNCHANGED <<data, current, message>>
    \/ /\ current # 0
       /\ message' = data[current - 1]
       /\ current' = current - 1
       /\ rc' = 0
       /\ UNCHANGED data

dequeue_all ==
    /\ current' = 0
    /\ rc' = 0
    /\ UNCHANGED <<data, message>>

Next == (\E m \in Message : enqueue(m)) \/ dequeue \/ dequeue_all

Spec == Init /\ [][Next]_vars

-------------------------------------------------------------------------------
(* The array never holds more than Size messages, so no call of queue.c     *)
(* reads or writes outside of it.                                           *)
TypeOK ==
    /\ data \in [Index -> Message]
    /\ current \in 0 .. Size
    /\ message \in Message
    /\ rc \in {0, -1}

\* The waiting messages, in the order enqueue() stored them.
Waiting == [i \in 1 .. current |-> data[i - 1]]

Stack == INSTANCE BoundedStack WITH items <- Waiting

(* The array of queue.c is a bounded last-in-first-out buffer: whatever the *)
(* calls of enqueue(), dequeue() and dequeue_all(), stale slots above       *)
(* `current' are never handed to a caller and a full queue drops the new    *)
(* message, never a waiting one.  (peer_t names the queue `fifo', but what  *)
(* dequeue() hands out is the newest message.)                              *)
ImplementsStack == Stack!Spec
===============================================================================
