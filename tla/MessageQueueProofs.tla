--------------------------- MODULE MessageQueueProofs -------------------------
(***************************************************************************)
(* The array of queue.c keeps its bounds and implements BoundedStack, for  *)
(* every queue size and every set of messages.                             *)
(***************************************************************************)
EXTENDS MessageQueue, TLAPS

(* queue.c never reads or writes outside of the array: `current' stays      *)
(* between 0 and the queue's size under any sequence of calls.              *)
THEOREM QueueTypeOK == Spec => []TypeOK
<1> USE QueueAssumption DEF Index
<1>1. Init => TypeOK
  BY DEF Init, TypeOK
<1>2. TypeOK /\ [Next]_vars => TypeOK'
  <2> SUFFICES ASSUME TypeOK, [Next]_vars PROVE TypeOK'
    OBVIOUS
  <2>1. ASSUME NEW m \in Message, enqueue(m) PROVE TypeOK'
    BY <2>1 DEF TypeOK, enqueue
  <2>2. CASE dequeue
    BY <2>2 DEF TypeOK, dequeue
  <2>3. CASE dequeue_all
    BY <2>3 DEF TypeOK, dequeue_all
  <2>4. CASE UNCHANGED vars
    BY <2>4 DEF TypeOK, vars
  <2> QED
    BY <2>1, <2>2, <2>3, <2>4 DEF Next
<1> QED
  BY <1>1, <1>2, PTL DEF Spec

(* What waits, as a sequence, after one message is stored or taken.         *)
LEMMA WaitingIsSeq ==
    TypeOK => Waiting \in Seq(Message) /\ Len(Waiting) = current
  BY QueueAssumption DEF TypeOK, Waiting, Index

(* A message that is stored waits last.                                      *)
LEMMA WaitingAfterEnqueue ==
    ASSUME TypeOK, NEW m \in Message, current # Size,
           data' = [data EXCEPT ![current] = m], current' = current + 1
    PROVE  Waiting' = Append(Waiting, m)
<1> USE QueueAssumption DEF Index
<1>1. \A k \in 1 .. current' : Waiting'[k] = Append(Waiting, m)[k]
  BY WaitingIsSeq DEF TypeOK, Waiting
<1>2. /\ Waiting' = [k \in 1 .. current + 1 |-> Waiting'[k]]
      /\ Append(Waiting, m) = [k \in 1 .. current + 1 |-> Append(Waiting, m)[k]]
  BY WaitingIsSeq DEF TypeOK, Waiting
<1> QED
  BY <1>1, <1>2

(* When one is taken the rest waits as before.                               *)
LEMMA WaitingAfterDequeue ==
    ASSUME TypeOK, current # 0, data' = data, current' = current - 1
    PROVE  Waiting' = SubSeq(Waiting, 1, Len(Waiting) - 1)
  BY QueueAssumption, WaitingIsSeq DEF TypeOK, Waiting, Index

(* The calls of queue.c are the operations of a bounded last-in-first-out   *)
(* buffer: stale slots are never handed out and a full queue drops the new  *)
(* message, never one that waits.                                           *)
THEOREM QueueImplementsStack == Spec => ImplementsStack
<1> USE QueueAssumption DEF Index
<1>1. Init => Stack!Init
  BY DEF Init, Stack!Init, Waiting
<1>2. TypeOK /\ [Next]_vars => [Stack!Next]_(Stack!vars)
  <2> SUFFICES ASSUME TypeOK, [Next]_vars PROVE [Stack!Next]_(Stack!vars)
    OBVIOUS
  <2>1. ASSUME NEW m \in Message, enqueue(m) PROVE Stack!Next
    <3>1. CASE current = Size
      <4>1. Len(Waiting) = Size /\ Waiting' = Waiting
        BY <2>1, <3>1, WaitingIsSeq DEF enqueue, Waiting, TypeOK
      <4> QED
        BY <2>1, <3>1, <4>1 DEF enqueue, TypeOK, Stack!Next, Stack!Refuse
    <3>2. CASE current # Size
      <4>1. Len(Waiting) < Size
        BY <3>2, WaitingIsSeq DEF TypeOK
      <4>2. Waiting' = Append(Waiting, m)
        BY <2>1, <3>2, WaitingAfterEnqueue DEF enqueue
      <4>3. Stack!Push(m)
        BY <2>1, <3>2, <4>1, <4>2 DEF enqueue, Stack!Push
      <4> QED
        BY <4>3 DEF Stack!Next
    <3> QED
      BY <3>1, <3>2
  <2>2. CASE dequeue
    <3>1. CASE current = 0
      <4>1. Len(Waiting) = 0 /\ Waiting' = Waiting
        BY <2>2, <3>1, WaitingIsSeq DEF dequeue, Waiting, TypeOK
      <4> QED
        BY <2>2, <3>1, <4>1 DEF dequeue, TypeOK, Stack!Next, Stack!Refuse
    <3>2. CASE current # 0
      <4>1. Waiting # <<>> /\ Waiting[Len(Waiting)] = data[current - 1]
        BY <3>2, WaitingIsSeq DEF TypeOK, Waiting
      <4>2. Waiting' = SubSeq(Waiting, 1, Len(Waiting) - 1)
        BY <2>2, <3>2, WaitingAfterDequeue DEF dequeue
      <4>3. Stack!Pop
        BY <2>2, <3>2, <4>1, <4>2 DEF dequeue, Stack!Pop
      <4> QED
        BY <4>3 DEF Stack!Next
    <3> QED
      BY <3>1, <3>2
  <2>3. CASE dequeue_all
    <3>1. Waiting' = <<>>
      BY <2>3 DEF dequeue_all, Waiting
    <3> QED
      BY <2>3, <3>1 DEF dequeue_all, Stack!Next, Stack!Clear
  <2>4. CASE UNCHANGED vars
    BY <2>4 DEF vars, Stack!vars, Waiting
  <2> QED
    BY <2>1, <2>2, <2>3, <2>4 DEF Next
<1> QED
  BY <1>1, <1>2, QueueTypeOK, PTL DEF Spec, ImplementsStack, Stack!Spec
===============================================================================
