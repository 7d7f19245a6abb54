----------------------------- MODULE BoundedStack -----------------------------
(***************************************************************************)
(* What the send queue of a peer promises its callers: a bounded buffer of *)
(* waiting messages from which the most recently added one leaves first.   *)
(* Every call reports its result in rc: 0, or -1 when there was no room or *)
(* nothing to take.  It is the abstract specification that MessageQueue,   *)
(* the array of queue.c, is shown to implement.                            *)
(***************************************************************************)
EXTENDS Integers, Sequences

CONSTANTS Message,      \* the messages callers may store
          ZeroMessage,  \* the contents of a message that was never written
          Size          \* the capacity of the buffer

VARIABLES items,        \* the waiting messages, the oldest one first
          message,      \* the caller's buffer a taken message is copied to
          rc            \* the result of the last call

vars == <<items, message, rc>>

Init ==
    /\ items = <<>>
    /\ message = ZeroMessage
    /\ rc = 0

Push(m) ==
    /\ Len(items) < Size
    /\ items' = Append(items, m)
    /\ rc' = 0
    /\ UNCHANGED message

Pop ==
    /\ items # <<>>
    /\ message' = items[Len(items)]
    /\ items' = SubSeq(items, 1, Len(items) - 1)
    /\ rc' = 0

\* A call that finds the buffer full, or empty, changes nothing.
Refuse ==
    /\ Len(items) \in {0, Size}
    /\ rc' = -1
    /\ UNCHANGED <<items, message>>

Clear ==
    /\ items' = <<>>
    /\ rc' = 0
    /\ UNCHANGED message

Next == (\E m \in Message : Push(m)) \/ Pop \/ Refuse \/ Clear

Spec == Init /\ [][Next]_vars
===============================================================================
