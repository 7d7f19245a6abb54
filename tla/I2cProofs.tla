------------------------------ MODULE I2cProofs ------------------------------
(***************************************************************************)
(* Theorems about the I2C bus driver, for every set of transfers and       *)
(* dividers.                                                               *)
(***************************************************************************)
EXTENDS I2c, TLAPS

------------------------------------------------------------------------------
\* A number below the modulus is its own remainder.
LEMMA SmallRemainder ==
    ASSUME NEW m \in Nat \ {0}, NEW x \in 0 .. m - 1
    PROVE  x % m = x
  BY Z3

LEMMA FullRemainder ==
    ASSUME NEW m \in Nat \ {0}
    PROVE  m % m = 0
  BY Z3

\* What bcm2835_i2c_set_divider() writes satisfies DelaysWithinHalf.
LEMMA DividerRegisters ==
    ASSUME NEW d \in Dividers, NEW r \in set_divider(d)
    PROVE  /\ r \in [div : Nat, fedl : Nat, redl : Nat]
           /\ r.div % 2 = 0 /\ CDIV_MIN <= r.div /\ r.div <= CDIV_MAX
           /\ 1 <= r.fedl /\ 2 * r.fedl <= r.div
           /\ 1 <= r.redl /\ 2 * r.redl <= r.div
<1> DEFINE even == IF d % 2 = 1 THEN (d + 1) % UINT_MOD ELSE d
           AtLeast1(x) == IF x > 1 THEN x ELSE 1
<1>1. /\ d \in 0 .. UINT_MOD - 1 /\ UINT_MOD \in Nat \ {0}
      /\ CDIV_MIN \in Nat /\ CDIV_MAX \in Nat /\ 2 <= CDIV_MIN
  BY I2cAssumption
<1>2. even \in Nat /\ even % 2 = 0
  <2>1. CASE d % 2 = 1 /\ d + 1 = UINT_MOD
    <3>1. (d + 1) % UINT_MOD = 0
      BY <1>1, <2>1, FullRemainder
    <3> QED BY <2>1, <3>1
  <2>2. CASE d % 2 = 1 /\ d + 1 # UINT_MOD
    <3>1. d + 1 \in 0 .. UINT_MOD - 1
      BY <1>1, <2>2
    <3>2. (d + 1) % UINT_MOD = d + 1
      BY <1>1, <3>1, SmallRemainder
    <3> QED BY <1>1, <2>2, <3>2
  <2>3. CASE d % 2 # 1
    BY <1>1, <2>3
  <2> QED BY <2>1, <2>2, <2>3
<1>3. /\ CDIV_MIN <= even /\ even <= CDIV_MAX
      /\ r = [div |-> even, fedl |-> AtLeast1(even \div 16), redl |-> AtLeast1(even \div 4)]
  BY <1>1, <1>2 DEF set_divider
<1> HIDE DEF even
<1>4. ASSUME NEW q \in {4, 16}
      PROVE  AtLeast1(even \div q) \in Nat /\ 1 <= AtLeast1(even \div q) /\ 2 * AtLeast1(even \div q) <= even
  BY <1>1, <1>2, <1>3
<1> HIDE DEF AtLeast1
<1> QED BY <1>1, <1>2, <1>3, <1>4
------------------------------------------------------------------------------
\* The controller has nothing to say but DONE.
Quiet ==
    /\ C = {} /\ mode \in {"idle", "abort"}
    /\ S \cap {"TXW", "RXR"} = {}

\* Unless a handler run crosses the start or the end of a wait: no handler
\* runs while xfer starts a transfer, and from its completion or time-out on
\* the controller is quiet and a handler run has seen no request for bytes.
WaitInv ==
    /\ isr # "act" => val = {}
    /\ ~ stray =>
          /\ pc = "start" => isr = "idle" /\ ~ completion
          /\ pc = "idle" \/ (pc = "wait" /\ completion) =>
                Quiet /\ val \cap {"TXW", "RXR"} = {}

\* The messages before the current one have moved all their bytes, the current
\* one all but those that remain; bytes remain, and none are read, unless it is
\* the last: the handler starts the next message in the run that moves the last
\* byte, and only the last message of an accepted array is a read.
Counted ==
    /\ curr_msg \in 1 .. Len(msgs) /\ num_msgs = Len(msgs) - curr_msg
    /\ num_msgs # 0 => remaining # 0 /\ mode \notin {"read", "rdone"}
    /\ \A i \in 1 .. Len(msgs) :
          moved[i] = IF i < curr_msg THEN msgs[i].len
                     ELSE IF i = curr_msg THEN msgs[i].len - remaining ELSE 0

\* What xfer and the handler know of each other's progress, under the
\* conditions of SuccessIsReal.
Progress ==
    /\ pc # "idle" =>
          bound \in {"adapter", "dying"} /\ \A i \in 1 .. Len(msgs) - 1 : ~ msgs[i].rd
    /\ ~ stray /\ NonEmpty =>
          /\ pc = "start" => curr_msg = 1 /\ num_msgs = Len(msgs) /\ moved = NoneMoved(msgs)
          /\ pc = "wait" => Counted
          /\ pc = "wait" /\ msg_err = {} /\ (completion \/ isr = "complete") => remaining = 0

I2cInv == Types /\ DelaysWithinHalf /\ WaitInv

LEMMA I2cInit == Init => I2cInv
<1> SUFFICES ASSUME Init PROVE I2cInv
  OBVIOUS
<1>1. Types
  <2>1. moved \in [0 .. Len(msgs) -> Nat]
    BY DEF Init, NoneMoved
  <2> QED BY <2>1 DEF Init, Types
<1>2. DelaysWithinHalf
  BY DEF Init, DelaysWithinHalf
<1>3. WaitInv
  BY DEF Init, WaitInv, Quiet
<1> QED BY <1>1, <1>2, <1>3 DEF I2cInv

LEMMA ElementOf == ASSUME NEW T, NEW s \in Seq(T), NEW k \in DOMAIN s PROVE s[k] \in T
  OBVIOUS

LEMMA MsgsSeq == ASSUME Types PROVE msgs \in Seq([rd : BOOLEAN, len : Nat])
<1>1. <<>> \in Seq([rd : BOOLEAN, len : Nat])
  OBVIOUS
<1> QED BY <1>1, I2cAssumption DEF Types

\* The message found at a position has a length, in the array or behind it.
LEMMA MessageLength ==
    ASSUME NEW m \in Transfers \cup {<<>>}, NEW i \in Nat, NEW msg \in MsgAt(m, i)
    PROVE  msg.len \in Nat
<1>1. CASE i \in DOMAIN m
  <2>1. m \in Transfers
    BY <1>1
  <2>2. m \in Seq([rd : BOOLEAN, len : Nat])
    BY <2>1, I2cAssumption
  <2>3. m[i] \in [rd : BOOLEAN, len : Nat]
    BY <1>1, <2>2, ElementOf
  <2> QED BY <1>1, <2>3 DEF MsgAt
<1>2. CASE i \notin DOMAIN m
  BY <1>2 DEF MsgAt
<1> QED BY <1>1, <1>2

\* bcm2835_i2c_start_transfer() counts messages and bytes in Nat.
LEMMA StartTypes ==
    ASSUME Types, NEW i \in Nat, start_transfer(msgs, i, num_msgs)
    PROVE  /\ num_msgs' \in Nat /\ remaining' \in Nat
           /\ C' \subseteq {"INTR", "INTT", "INTD"}
           /\ mode' \in {"idle", "write", "read", "rdone", "abort"}
<1>1. CASE num_msgs = 0
  BY <1>1 DEF start_transfer, Types
<1>2. CASE num_msgs # 0
  <2>1. PICK msg \in MsgAt(msgs, i) : Start(msg, num_msgs)
    BY <1>2 DEF start_transfer
  <2>2. msg.len \in Nat
    BY MessageLength DEF Types
  <2> QED BY <1>2, <2>1, <2>2 DEF Start, Types
<1> QED BY <1>1, <1>2

\* Moving bytes keeps the counters in Nat.
LEMMA MovedType ==
    ASSUME Types, NEW k \in Nat
    PROVE  Moved(k) \in [0 .. Len(msgs) -> Nat]
<1> DEFINE i == IF curr_msg \in DOMAIN msgs THEN curr_msg ELSE 0
<1>1. i \in 0 .. Len(msgs)
  BY MsgsSeq
<1> HIDE DEF i
<1>2. moved \in [0 .. Len(msgs) -> Nat] /\ moved[i] + k \in Nat
  BY <1>1 DEF Types
<1>3. [moved EXCEPT ![i] = @ + k] \in [0 .. Len(msgs) -> Nat]
  BY <1>1, <1>2
<1> QED BY <1>3 DEF Moved, i

LEMMA MoveBytesTypes ==
    ASSUME Types, MoveBytes
    PROVE  remaining' \in Nat /\ moved' \in [0 .. Len(msgs) -> Nat]
<1>1. PICK k \in 0 .. remaining : remaining' = remaining - k /\ moved' = Moved(k)
  BY DEF MoveBytes
<1>2. remaining \in Nat /\ k \in Nat
  BY DEF Types
<1> QED BY <1>1, <1>2, MovedType

\* xfer() up to the start of the first message.
LEMMA XferInv == ASSUME I2cInv, NEW m \in Transfers, Xfer(m) PROVE I2cInv'
<1> USE DEF I2cInv, xferVars, isrVars, msgVars, ctlVars
<1>1. CASE UNCHANGED <<pc, msgs, clkregs, msgVars, completion, stray>> /\ ret' \in {"EOPNOTSUPP", "EINVAL"}
  <2>1. UNCHANGED <<bound, msg_err, isrVars, ctlVars>>
    BY DEF Xfer
  <2> QED BY <1>1, <2>1 DEF Types, DelaysWithinHalf, WaitInv, Quiet
<1>2. CASE \E d \in Dividers :
              /\ clkregs' \in set_divider(d)
              /\ msgs' = m /\ curr_msg' = 1 /\ num_msgs' = Len(m) /\ moved' = NoneMoved(m)
              /\ completion' = FALSE /\ stray' = (isr # "idle")
              /\ pc' = "start" /\ ret' = "none" /\ UNCHANGED remaining
  <2>1. PICK d \in Dividers : clkregs' \in set_divider(d)
    BY <1>2
  <2>2. DelaysWithinHalf' /\ clkregs' \in [div : Nat, fedl : Nat, redl : Nat]
    BY <2>1, DividerRegisters DEF DelaysWithinHalf
  <2>3. UNCHANGED <<bound, msg_err, isrVars, ctlVars>>
    BY DEF Xfer
  <2>4. Len(m) \in Nat
    BY I2cAssumption
  <2>5. Types'
    <3>1. /\ msgs' \in Transfers \cup {<<>>}
          /\ curr_msg' \in Nat /\ num_msgs' \in Nat /\ moved' \in [0 .. Len(msgs') -> Nat]
      BY <1>2, <2>4 DEF NoneMoved
    <3>2. stray' \in BOOLEAN /\ completion' \in BOOLEAN
      BY <1>2, Zenon
    <3>3. pc' = "start" /\ ret' = "none" /\ remaining' = remaining
      BY <1>2
    <3> QED BY <2>2, <2>3, <3>1, <3>2, <3>3 DEF Types
  <2>6. WaitInv'
    BY <1>2, <2>3 DEF WaitInv
  <2> QED BY <2>2, <2>5, <2>6
<1>3. QED
  BY <1>1, <1>2, Zenon DEF Xfer

\* The handler acts on the status it has read.
LEMMA IsrActInv == ASSUME I2cInv, IsrAct PROVE I2cInv'
<1> USE DEF I2cInv, xferVars, isrVars, msgVars, ctlVars
<1>1. /\ isr = "act" /\ val' = {} /\ UNCHANGED <<bound, pc, msgs, ret, clkregs, completion, stray>>
  BY DEF IsrAct
<1>2. DelaysWithinHalf'
  BY <1>1 DEF DelaysWithinHalf
<1>3. ASSUME UNCHANGED <<C, S, mode>>, isr' \in {"idle", "complete"}
      PROVE  WaitInv'
  BY <1>1, <1>3 DEF WaitInv, Quiet
<1>4. ASSUME val \cap {"TXW", "RXR"} # {}, isr' = "idle"
      PROVE  WaitInv'
  BY <1>1, <1>4 DEF WaitInv
<1>5. CASE IsrError
  <2>1. Types'
    BY <1>1, <1>5 DEF IsrError, Types
  <2> QED BY <1>2, <1>3, <1>5, <2>1 DEF IsrError
<1>6. CASE IsrDone
  <2>1. remaining' \in Nat /\ moved' \in [0 .. Len(msgs) -> Nat]
    BY <1>6, MoveBytesTypes DEF IsrDone, Types
  <2>2. Types'
    BY <1>1, <1>6, <2>1 DEF IsrDone, Types
  <2> QED BY <1>2, <1>3, <1>6, <2>2 DEF IsrDone
<1>7. CASE IsrTxw
  <2>1. CASE remaining = 0
    <3>1. msg_err' \subseteq {"CLKT", "ERR", "TXW", "RXR", "LEN"}
      <4>1. val \cap Finish = {} /\ msg_err' = val \cup {"LEN"}
        BY <1>7, <2>1 DEF IsrTxw
      <4> QED BY <4>1 DEF Types, Finish
    <3>2. Types'
      <4>1. isr' = "complete" /\ UNCHANGED <<msgVars, ctlVars>>
        BY <1>7, <2>1 DEF IsrTxw
      <4> QED BY <1>1, <3>1, <4>1 DEF Types
    <3> QED BY <1>2, <1>3, <1>7, <2>1, <3>2 DEF IsrTxw
  <2>2. CASE remaining # 0
    <3>1. PICK k \in 0 .. remaining :
            /\ moved' = Moved(k)
            /\ IF num_msgs # 0 /\ k = remaining
               THEN curr_msg' = curr_msg + 1 /\ start_transfer(msgs, curr_msg + 1, num_msgs)
               ELSE remaining' = remaining - k /\ UNCHANGED <<curr_msg, num_msgs, C, mode>>
      BY <1>7, <2>2 DEF IsrTxw
    <3>2. isr' = "idle" /\ S' = S \ {"TXW"} /\ UNCHANGED msg_err /\ "TXW" \in val
      BY <1>7, <2>2 DEF IsrTxw
    <3>3. /\ moved' \in [0 .. Len(msgs) -> Nat] /\ curr_msg' \in Nat /\ num_msgs' \in Nat /\ remaining' \in Nat
          /\ C' \subseteq {"INTR", "INTT", "INTD"}
          /\ mode' \in {"idle", "write", "read", "rdone", "abort"}
      <4>1. curr_msg \in Nat /\ remaining \in Nat /\ moved' \in [0 .. Len(msgs) -> Nat]
        <5>1. curr_msg \in Nat /\ remaining \in Nat /\ k \in Nat
          BY DEF Types
        <5> QED BY <3>1, <5>1, MovedType
      <4>2. CASE num_msgs # 0 /\ k = remaining
        <5>1. /\ curr_msg + 1 \in Nat /\ curr_msg' = curr_msg + 1
              /\ start_transfer(msgs, curr_msg + 1, num_msgs)
          BY <3>1, <4>1, <4>2
        <5> QED BY <4>1, <5>1, StartTypes
      <4>3. CASE ~ (num_msgs # 0 /\ k = remaining)
        <5>1. remaining' = remaining - k /\ UNCHANGED <<curr_msg, num_msgs, C, mode>>
          BY <3>1, <4>3
        <5>2. remaining' \in Nat
          BY <4>1, <5>1
        <5> QED BY <4>1, <5>1, <5>2 DEF Types
      <4> QED BY <4>2, <4>3
    <3>4. Types'
      <4>1. S' \subseteq {"CLKT", "ERR", "DONE", "TXW", "RXR"}
        BY <3>2 DEF Types
      <4> QED BY <1>1, <3>2, <3>3, <4>1 DEF Types
    <3> QED BY <1>2, <1>4, <3>2, <3>4
  <2> QED BY <2>1, <2>2
<1>8. CASE IsrRxr
  <2>1. CASE remaining = 0
    <3>1. msg_err' \subseteq {"CLKT", "ERR", "TXW", "RXR", "LEN"}
      <4>1. val \cap Finish = {} /\ msg_err' = val \cup {"LEN"}
        BY <1>8, <2>1 DEF IsrRxr
      <4> QED BY <4>1 DEF Types, Finish
    <3>2. Types'
      <4>1. isr' = "complete" /\ UNCHANGED <<msgVars, ctlVars>>
        BY <1>8, <2>1 DEF IsrRxr
      <4> QED BY <1>1, <3>1, <4>1 DEF Types
    <3> QED BY <1>2, <1>3, <1>8, <2>1, <3>2 DEF IsrRxr
  <2>2. CASE remaining # 0
    <3>1. remaining' \in Nat /\ moved' \in [0 .. Len(msgs) -> Nat]
      BY <1>8, <2>2, MoveBytesTypes DEF IsrRxr, Types
    <3>2. Types'
      BY ZenonT(40), <1>1, <1>8, <2>2, <3>1 DEF IsrRxr, Types
    <3>3. isr' = "idle" /\ "RXR" \in val
      BY <1>8, <2>2 DEF IsrRxr
    <3> QED BY <1>2, <1>4, <3>2, <3>3
  <2> QED BY <2>1, <2>2
<1>9. CASE IsrNone
  <2>1. Types'
    BY <1>1, <1>9 DEF IsrNone, Types
  <2> QED BY <1>2, <1>3, <1>9, <2>1 DEF IsrNone
<1> QED BY <1>5, <1>6, <1>7, <1>8, <1>9 DEF IsrAct

\* Every step keeps the invariant.
LEMMA I2cNext == I2cInv /\ [Next]_vars => I2cInv'
<1> SUFFICES ASSUME I2cInv, [Next]_vars PROVE I2cInv'
  OBVIOUS
<1> USE DEF xferVars, isrVars, msgVars, ctlVars
<1>1. ASSUME UNCHANGED <<clkregs, bound>> \/ UNCHANGED clkregs
      PROVE  DelaysWithinHalf'
  BY <1>1 DEF I2cInv, DelaysWithinHalf
<1>2. ASSUME NEW m \in Transfers, Xfer(m) PROVE I2cInv'
  BY <1>2, XferInv
<1>3. CASE XferStart
  <2>1. Types'
    BY <1>3, StartTypes DEF XferStart, I2cInv, Types
  <2>2. WaitInv'
    BY <1>3 DEF XferStart, I2cInv, WaitInv
  <2> QED BY <1>1, <1>3, <2>1, <2>2 DEF XferStart, I2cInv
<1>4. CASE XferTimeout
  <2>1. Types'
    <3>1. /\ S' \subseteq {"CLKT", "ERR", "DONE", "TXW", "RXR"}
          /\ mode' \in {"idle", "write", "read", "rdone", "abort"}
      BY <1>4 DEF XferTimeout, WriteClear, I2cInv, Types
    <3>2. stray' \in BOOLEAN
      BY <1>4, Zenon DEF XferTimeout
    <3>3. /\ C' = {} /\ pc' = "idle" /\ ret' = "ETIMEDOUT"
          /\ UNCHANGED <<bound, msgs, clkregs, msgVars, msg_err, completion, isrVars>>
      BY <1>4 DEF XferTimeout, WriteClear
    <3> QED BY <3>1, <3>2, <3>3 DEF I2cInv, Types
  <2>2. WaitInv'
    BY <1>4 DEF XferTimeout, WriteClear, I2cInv, WaitInv, Quiet, Types
  <2> QED BY <1>1, <1>4, <2>1, <2>2 DEF XferTimeout, I2cInv
<1>5. CASE XferReturn
  <2>1. Types'
    <3>1. ret' \in {"num", "EREMOTEIO", "EIO"}
      BY <1>5 DEF XferReturn
    <3>2. /\ pc' = "idle"
          /\ UNCHANGED <<bound, msgs, clkregs, msgVars, msg_err, completion, isrVars, ctlVars, stray>>
      BY <1>5 DEF XferReturn
    <3> QED BY <3>1, <3>2 DEF I2cInv, Types
  <2>2. WaitInv'
    BY <1>5 DEF XferReturn, I2cInv, WaitInv, Quiet
  <2> QED BY <1>1, <1>5, <2>1, <2>2 DEF XferReturn, I2cInv
<1>6. CASE IsrEnter
  <2>1. Types'
    BY <1>6 DEF IsrEnter, I2cInv, Types
  <2>2. WaitInv'
    BY <1>6 DEF IsrEnter, I2cInv, WaitInv, Quiet, Types
  <2> QED BY <1>1, <1>6, <2>1, <2>2 DEF IsrEnter, I2cInv
<1>7. CASE IsrAct
  BY <1>7, IsrActInv
<1>8. CASE IsrComplete
  <2>1. Types'
    BY <1>8 DEF IsrComplete, WriteClear, I2cInv, Types
  <2>2. WaitInv'
    BY <1>8 DEF IsrComplete, WriteClear, I2cInv, WaitInv, Quiet, Types
  <2> QED BY <1>1, <1>8, <2>1, <2>2 DEF IsrComplete, I2cInv
<1>9. CASE ProbeIrq \/ ProbeAdapter \/ RemoveIrq \/ RemoveAdapter
  <2>1. Types'
    <3>1. CASE ProbeIrq
      BY <3>1 DEF ProbeIrq, I2cInv, Types
    <3>2. CASE ProbeAdapter
      BY <3>2 DEF ProbeAdapter, I2cInv, Types
    <3>3. CASE RemoveIrq
      BY <3>3 DEF RemoveIrq, I2cInv, Types
    <3>4. CASE RemoveAdapter
      BY <3>4 DEF RemoveAdapter, I2cInv, Types
    <3> QED BY <1>9, <3>1, <3>2, <3>3, <3>4
  <2>2. WaitInv'
    BY <1>9 DEF ProbeIrq, ProbeAdapter, RemoveIrq, RemoveAdapter, I2cInv, WaitInv, Quiet
  <2> QED BY <1>1, <1>9, <2>1, <2>2 DEF ProbeIrq, ProbeAdapter, RemoveIrq, RemoveAdapter, I2cInv
<1>10. CASE Controller
  <2>1. Types'
    <3>1. /\ S' \subseteq {"CLKT", "ERR", "DONE", "TXW", "RXR"}
          /\ mode' \in {"idle", "write", "read", "rdone", "abort"}
      BY <1>10 DEF Controller, I2cInv, Types
    <3>2. UNCHANGED <<bound, xferVars, msgVars, msg_err, completion, isrVars, C, stray>>
      BY <1>10 DEF Controller
    <3> QED BY <3>1, <3>2 DEF I2cInv, Types
  <2>2. WaitInv'
    BY <1>10 DEF Controller, I2cInv, WaitInv, Quiet
  <2> QED BY <1>1, <1>10, <2>1, <2>2 DEF Controller, I2cInv
<1>11. CASE UNCHANGED vars
  BY <1>11 DEF vars, I2cInv, Types, DelaysWithinHalf, WaitInv, Quiet
<1>12. CASE XferExpire
  <2>1. Types'
    BY <1>12 DEF XferExpire, I2cInv, Types
  <2>2. WaitInv'
    BY <1>12 DEF XferExpire, I2cInv, WaitInv, Quiet
  <2> QED BY <1>1, <1>12, <2>1, <2>2 DEF XferExpire, I2cInv
<1> QED
  BY <1>2, <1>3, <1>4, <1>5, <1>6, <1>7, <1>8, <1>9, <1>10, <1>11, <1>12 DEF Next, XferSteps

------------------------------------------------------------------------------
LEMMA I2cAlways == Spec => []I2cInv
  BY I2cInit, I2cNext, PTL DEF Spec

\* For every clock rate and register width, the delays that
\* bcm2835_i2c_set_divider() programs are within half a period of the divider.
THEOREM I2cDelaysWithinHalf == Spec => []DelaysWithinHalf
<1>1. I2cInv => DelaysWithinHalf
  BY DEF I2cInv
<1> QED BY <1>1, I2cAlways, PTL

\* After a completion or a time-out no interrupt of the controller is enabled
\* until the next transfer, unless a handler run crossed the wait's limits.
THEOREM I2cQuiet == Spec => []QuietBetweenTransfers
<1>1. I2cInv => QuietBetweenTransfers
  BY DEF I2cInv, WaitInv, Quiet, QuietBetweenTransfers
<1> QED BY <1>1, I2cAlways, PTL

\* No step moves a byte of a buffer whose owner is not waiting in xfer, unless
\* a handler run crossed the limits of a wait.
LEMMA MovesInWait ==
    ASSUME I2cInv, [Next]_vars, UNCHANGED pc, moved' # moved
    PROVE  pc \in {"wait", "expired"} \/ stray
<1> SUFFICES ASSUME pc \notin {"wait", "expired"}, ~ stray PROVE FALSE
  OBVIOUS
<1> USE DEF I2cInv, xferVars, isrVars, msgVars, ctlVars
<1>1. IsrAct
  <2>1. ASSUME NEW m \in Transfers, Xfer(m) PROVE FALSE
    BY <2>1 DEF Xfer
  <2> QED
    BY <2>1 DEF Next, vars, XferSteps, XferStart, XferExpire, XferTimeout, XferReturn, IsrEnter, IsrComplete,
                ProbeIrq, ProbeAdapter, RemoveIrq, RemoveAdapter, Controller
<1>2. pc = "idle" /\ mode \notin {"read", "rdone"} /\ val \cap {"TXW", "RXR"} = {}
  BY <1>1 DEF IsrAct, WaitInv, Quiet, Types
<1> QED
  BY <1>1, <1>2 DEF IsrAct, IsrError, IsrDone, IsrTxw, IsrRxr, IsrNone

\* The handler moves bytes only while their owner waits in xfer, for every
\* transfer, divider and behaviour of the controller, unless a handler run
\* crossed the limits of a wait.
THEOREM I2cNoBytesAfterReturn == Spec => NoBytesAfterReturn
<1>1. I2cInv /\ [Next]_vars => [UNCHANGED pc /\ moved' # moved => pc \in {"wait", "expired"} \/ stray]_vars
  BY MovesInWait
<1> QED BY <1>1, I2cAlways, PTL DEF Spec, NoBytesAfterReturn

------------------------------------------------------------------------------
\* The messages of the array, by position.
LEMMA MsgFacts ==
    ASSUME Types
    PROVE  /\ Len(msgs) \in Nat /\ DOMAIN msgs = 1 .. Len(msgs)
           /\ \A i \in 1 .. Len(msgs) : msgs[i].len \in Nat /\ msgs[i].rd \in BOOLEAN
           /\ NonEmpty => Len(msgs) # 0 /\ \A i \in 1 .. Len(msgs) : msgs[i].len > 0
<1>1. Len(msgs) \in Nat /\ DOMAIN msgs = 1 .. Len(msgs)
  BY MsgsSeq
<1>2. ASSUME NEW i \in 1 .. Len(msgs) PROVE msgs[i].len \in Nat /\ msgs[i].rd \in BOOLEAN
  <2>1. msgs[i] \in [rd : BOOLEAN, len : Nat]
    BY <1>1, MsgsSeq, ElementOf
  <2> QED BY <2>1
<1>3. msgs # <<>> => Len(msgs) # 0
  BY MsgsSeq
<1> QED BY <1>1, <1>2, <1>3 DEF NonEmpty

\* Inside the array k more bytes are k more of the current message.
LEMMA MovedAt ==
    ASSUME Types, curr_msg \in 1 .. Len(msgs), NEW k \in Nat, NEW i \in 1 .. Len(msgs)
    PROVE  Moved(k)[i] = IF i = curr_msg THEN moved[i] + k ELSE moved[i]
<1>1. DOMAIN msgs = 1 .. Len(msgs) /\ Len(msgs) \in Nat
  BY MsgFacts
<1>2. Moved(k) = [moved EXCEPT ![curr_msg] = @ + k]
  BY <1>1 DEF Moved
<1>3. moved \in [0 .. Len(msgs) -> Nat] /\ i \in 0 .. Len(msgs) /\ curr_msg \in 0 .. Len(msgs)
  BY <1>1 DEF Types
<1> QED BY <1>2, <1>3

\* Moving bytes within a message.
LEMMA CountedMove ==
    ASSUME Types, Counted, NEW k \in 0 .. remaining, num_msgs = 0 \/ k # remaining,
           moved' = Moved(k), remaining' = remaining - k, UNCHANGED <<msgs, curr_msg, num_msgs, mode>>
    PROVE  Counted'
<1>1. curr_msg \in 1 .. Len(msgs) /\ remaining \in Nat /\ k \in Nat
  BY DEF Counted, Types
<1>2. ASSUME NEW i \in 1 .. Len(msgs)
      PROVE  moved'[i] = IF i < curr_msg THEN msgs[i].len
                         ELSE IF i = curr_msg THEN msgs[i].len - (remaining - k) ELSE 0
  <2>1. moved'[i] = IF i = curr_msg THEN moved[i] + k ELSE moved[i]
    BY <1>1, MovedAt
  <2>2. moved[i] = IF i < curr_msg THEN msgs[i].len
                   ELSE IF i = curr_msg THEN msgs[i].len - remaining ELSE 0
    BY DEF Counted
  <2>3. msgs[i].len \in Nat /\ Len(msgs) \in Nat
    BY MsgFacts
  <2> QED BY <1>1, <2>1, <2>2, <2>3
<1>3. num_msgs # 0 => remaining - k # 0 /\ mode \notin {"read", "rdone"}
  BY <1>1 DEF Counted
<1> QED BY <1>2, <1>3 DEF Counted

\* The last byte of a message that is not the last, and the start of the next.
LEMMA CountedNext ==
    ASSUME Types, Counted, NonEmpty, \A i \in 1 .. Len(msgs) - 1 : ~ msgs[i].rd,
           num_msgs # 0, moved' = Moved(remaining), curr_msg' = curr_msg + 1, UNCHANGED msgs,
           start_transfer(msgs, curr_msg + 1, num_msgs)
    PROVE  Counted'
<1>1. /\ curr_msg \in 1 .. Len(msgs) /\ num_msgs = Len(msgs) - curr_msg
      /\ remaining \in Nat /\ Len(msgs) \in Nat /\ DOMAIN msgs = 1 .. Len(msgs)
  BY MsgFacts DEF Counted, Types
<1>2. curr_msg + 1 \in 1 .. Len(msgs)
  BY <1>1
<1>3. Start(msgs[curr_msg + 1], num_msgs)
  BY <1>1, <1>2 DEF start_transfer, MsgAt
<1>4. num_msgs' = Len(msgs) - (curr_msg + 1) /\ remaining' = msgs[curr_msg + 1].len
  BY <1>1, <1>3 DEF Start
<1>5. remaining' \in Nat /\ remaining' # 0
  BY <1>2, <1>4, MsgFacts
<1>6. num_msgs' # 0 => mode' = "write"
  <2>1. num_msgs' # 0 => curr_msg + 1 \in 1 .. Len(msgs) - 1
    BY <1>1, <1>2, <1>4
  <2> QED BY <1>3, <2>1 DEF Start
<1>7. ASSUME NEW i \in 1 .. Len(msgs)
      PROVE  moved'[i] = IF i < curr_msg + 1 THEN msgs[i].len
                         ELSE IF i = curr_msg + 1 THEN msgs[i].len - remaining' ELSE 0
  <2>1. moved'[i] = IF i = curr_msg THEN moved[i] + remaining ELSE moved[i]
    BY <1>1, MovedAt
  <2>2. moved[i] = IF i < curr_msg THEN msgs[i].len
                   ELSE IF i = curr_msg THEN msgs[i].len - remaining ELSE 0
    BY DEF Counted
  <2>3. msgs[i].len \in Nat
    BY MsgFacts
  <2>4. i = curr_msg + 1 => msgs[i].len - remaining' = 0
    BY <1>4, <2>3
  <2> QED BY <1>1, <2>1, <2>2, <2>3, <2>4
<1> QED BY <1>2, <1>4, <1>5, <1>6, <1>7 DEF Counted

\* The start of the first message.
LEMMA CountedFirst ==
    ASSUME Types, NonEmpty, \A i \in 1 .. Len(msgs) - 1 : ~ msgs[i].rd,
           curr_msg = 1, num_msgs = Len(msgs), moved = NoneMoved(msgs),
           start_transfer(msgs, curr_msg, num_msgs), UNCHANGED <<msgs, curr_msg, moved>>
    PROVE  Counted'
<1>1. Len(msgs) \in Nat /\ Len(msgs) # 0 /\ DOMAIN msgs = 1 .. Len(msgs)
  BY MsgFacts
<1>2. 1 \in 1 .. Len(msgs)
  BY <1>1
<1>3. Start(msgs[1], num_msgs)
  BY <1>1, <1>2 DEF start_transfer, MsgAt
<1>4. num_msgs' = Len(msgs) - 1 /\ remaining' = msgs[1].len
  BY <1>3 DEF Start
<1>5. remaining' \in Nat /\ remaining' # 0
  BY <1>2, <1>4, MsgFacts
<1>6. num_msgs' # 0 => mode' = "write"
  <2>1. num_msgs' # 0 => 1 \in 1 .. Len(msgs) - 1
    BY <1>1, <1>4
  <2> QED BY <1>3, <2>1 DEF Start
<1>7. ASSUME NEW i \in 1 .. Len(msgs)
      PROVE  moved[i] = IF i < 1 THEN msgs[i].len ELSE IF i = 1 THEN msgs[i].len - remaining' ELSE 0
  <2>1. moved[i] = 0
    BY <1>1 DEF NoneMoved
  <2>2. i = 1 => msgs[i].len - remaining' = 0
    BY <1>4, <1>5
  <2> QED BY <1>1, <2>1, <2>2
<1> QED BY <1>2, <1>4, <1>5, <1>6, <1>7 DEF Counted

------------------------------------------------------------------------------
LEMMA ProgressInit == Init => Progress
  BY DEF Init, Progress

\* The handler acts: it moves bytes, starts the next message or records the
\* outcome.
LEMMA IsrActProgress == ASSUME I2cInv, Progress, IsrAct PROVE Progress'
<1> USE DEF I2cInv, xferVars, isrVars, msgVars, ctlVars
<1>1. isr = "act" /\ UNCHANGED <<bound, pc, msgs, completion, stray>> /\ NonEmpty' = NonEmpty
  BY DEF IsrAct, NonEmpty
<1>2. CASE pc # "wait" \/ stray \/ ~ NonEmpty
  <2>1. pc # "idle" => bound' \in {"adapter", "dying"} /\ \A i \in 1 .. Len(msgs') - 1 : ~ msgs'[i].rd
    BY <1>1 DEF Progress
  <2>2. stray \/ pc # "start"
    BY <1>1 DEF WaitInv
  <2> QED BY <1>1, <1>2, <2>1, <2>2 DEF Progress
<1>3. CASE pc = "wait" /\ ~ stray /\ NonEmpty
  <2>1. Counted /\ (\A i \in 1 .. Len(msgs) - 1 : ~ msgs[i].rd) /\ bound \in {"adapter", "dying"}
    BY <1>3 DEF Progress
  <2>2. (msg_err = {} /\ completion => remaining = 0) /\ remaining \in Nat
    BY <1>3 DEF Progress, Types
  <2>3. SUFFICES Counted' /\ (msg_err' = {} /\ (completion \/ isr' = "complete") => remaining' = 0)
    BY <1>1, <1>3, <2>1 DEF Progress
  <2>4. ASSUME UNCHANGED <<msgVars, ctlVars>> PROVE Counted'
    BY <1>1, <2>1, <2>4 DEF Counted
  <2>5. ASSUME MoveBytes, mode \in {"read", "rdone"}, UNCHANGED <<curr_msg, num_msgs, mode>> PROVE Counted'
    <3>1. PICK k \in 0 .. remaining : remaining' = remaining - k /\ moved' = Moved(k)
      BY <2>5 DEF MoveBytes
    <3>2. num_msgs = 0
      BY <2>1, <2>5 DEF Counted
    <3> QED BY <1>1, <2>1, <2>5, <3>1, <3>2, CountedMove
  <2>6. CASE IsrError
    BY <2>4, <2>6 DEF IsrError
  <2>7. CASE IsrDone
    <3>1. CASE MoveBytes /\ mode \in {"read", "rdone"}
      BY <2>5, <2>7, <3>1 DEF IsrDone
    <3>2. CASE UNCHANGED <<remaining, moved>>
      BY <2>4, <2>7, <3>2 DEF IsrDone
    <3> QED BY <2>7, <3>1, <3>2 DEF IsrDone
  <2>8. CASE IsrTxw
    <3>1. CASE remaining = 0
      <4>1. UNCHANGED <<msgVars, ctlVars>> /\ msg_err' = val \cup {"LEN"}
        BY <2>8, <3>1 DEF IsrTxw
      <4> QED BY <2>4, <4>1
    <3>2. CASE remaining # 0
      <4>1. "TXW" \in val /\ isr' = "idle"
        BY <2>8, <3>2 DEF IsrTxw
      <4>2. ~ completion
        BY <1>3, <4>1 DEF WaitInv
      <4>3. PICK k \in 0 .. remaining :
              /\ moved' = Moved(k)
              /\ IF num_msgs # 0 /\ k = remaining
                 THEN curr_msg' = curr_msg + 1 /\ start_transfer(msgs, curr_msg + 1, num_msgs)
                 ELSE remaining' = remaining - k /\ UNCHANGED <<curr_msg, num_msgs, C, mode>>
        BY <2>8, <3>2 DEF IsrTxw
      <4>4. CASE num_msgs # 0 /\ k = remaining
        BY <1>1, <1>3, <2>1, <4>1, <4>2, <4>3, <4>4, CountedNext
      <4>5. CASE ~ (num_msgs # 0 /\ k = remaining)
        BY <1>1, <2>1, <4>1, <4>2, <4>3, <4>5, CountedMove
      <4> QED BY <4>4, <4>5
    <3> QED BY <3>1, <3>2
  <2>9. CASE IsrRxr
    <3>1. CASE remaining = 0
      <4>1. UNCHANGED <<msgVars, ctlVars>> /\ msg_err' = val \cup {"LEN"}
        BY <2>9, <3>1 DEF IsrRxr
      <4> QED BY <2>4, <4>1
    <3>2. CASE remaining # 0
      <4>1. "RXR" \in val /\ isr' = "idle" /\ UNCHANGED <<curr_msg, num_msgs, mode>>
        BY <2>9, <3>2 DEF IsrRxr
      <4>2. ~ completion
        BY <1>3, <4>1 DEF WaitInv
      <4>3. CASE MoveBytes /\ mode \in {"read", "rdone"}
        BY <2>5, <4>1, <4>2, <4>3
      <4>4. CASE UNCHANGED <<remaining, moved>>
        BY <1>1, <2>1, <4>1, <4>2, <4>4 DEF Counted
      <4> QED BY <2>9, <3>2, <4>3, <4>4 DEF IsrRxr
    <3> QED BY <3>1, <3>2
  <2>10. CASE IsrNone
    BY <2>2, <2>4, <2>10 DEF IsrNone
  <2> QED BY <2>6, <2>7, <2>8, <2>9, <2>10 DEF IsrAct
<1> QED BY <1>1, <1>2, <1>3 DEF Progress

LEMMA ProgressNext == ASSUME I2cInv, Progress, [Next]_vars PROVE Progress'
<1> USE DEF xferVars, isrVars, msgVars, ctlVars
<1>1. ASSUME pc' = "idle" PROVE Progress'
  BY <1>1 DEF Progress
<1>2. ASSUME UNCHANGED msgs PROVE NonEmpty' = NonEmpty
  BY <1>2 DEF NonEmpty
<1>3. ASSUME NEW m \in Transfers, Xfer(m) PROVE Progress'
  <2>1. CASE UNCHANGED pc
    BY <1>1, <1>3, <2>1 DEF Xfer
  <2>2. CASE pc' # pc
    <3>1. /\ \A i \in 1 .. Len(m) - 1 : ~ m[i].rd
          /\ msgs' = m /\ curr_msg' = 1 /\ num_msgs' = Len(m) /\ moved' = NoneMoved(m)
          /\ pc' = "start" /\ bound \in {"adapter", "dying"} /\ bound' = bound
      BY <1>3, <2>2 DEF Xfer
    <3>2. moved' = NoneMoved(msgs)'
      BY <3>1 DEF NoneMoved
    <3> QED BY <3>1, <3>2 DEF Progress
  <2> QED BY <2>1, <2>2
<1>4. CASE XferStart
  <2>1. /\ pc = "start" /\ pc' = "wait" /\ UNCHANGED <<bound, msgs, curr_msg, moved, msg_err, completion, isr, stray>>
        /\ start_transfer(msgs, curr_msg, num_msgs)
    BY <1>4 DEF XferStart
  <2>2. bound' \in {"adapter", "dying"} /\ \A i \in 1 .. Len(msgs') - 1 : ~ msgs'[i].rd
    BY <2>1 DEF Progress
  <2>3. CASE ~ stray /\ NonEmpty
    <3>1. curr_msg = 1 /\ num_msgs = Len(msgs) /\ moved = NoneMoved(msgs)
      BY <2>1, <2>3 DEF Progress
    <3>2. Counted'
      BY <2>1, <2>2, <2>3, <3>1, CountedFirst DEF I2cInv
    <3>3. isr' = "idle" /\ ~ completion'
      BY <2>1, <2>3 DEF I2cInv, WaitInv
    <3> QED BY <2>1, <2>2, <3>2, <3>3 DEF Progress
  <2> QED BY <1>2, <2>1, <2>2, <2>3 DEF Progress
<1>5. CASE XferTimeout \/ XferReturn
  BY <1>1, <1>5 DEF XferTimeout, XferReturn
<1>6. CASE IsrAct
  BY <1>6, IsrActProgress DEF I2cInv
<1>7. ASSUME UNCHANGED <<pc, msgs, msgVars, msg_err>>, bound' = bound \/ bound' \in {"adapter", "dying"},
             ~ stray' => ~ stray, mode' \in {"read", "rdone"} => mode \in {"read", "rdone"},
             ~ stray /\ (completion' \/ isr' = "complete") => completion \/ isr = "complete"
      PROVE  Progress'
  <2>1. Counted => Counted'
    BY <1>7 DEF Counted
  <2>2. moved' = NoneMoved(msgs)' <=> moved = NoneMoved(msgs)
    BY <1>7 DEF NoneMoved
  <2> QED BY <1>2, <1>7, <2>1, <2>2 DEF Progress
<1>8. CASE IsrEnter
  BY <1>7, <1>8 DEF IsrEnter
<1>9. CASE IsrComplete
  BY <1>7, <1>9 DEF IsrComplete, WriteClear
<1>10. CASE ProbeIrq \/ ProbeAdapter \/ RemoveAdapter
  <2>1. pc = "idle"
    BY <1>10 DEF ProbeIrq, ProbeAdapter, RemoveAdapter, Progress, I2cInv, Types
  <2> QED BY <1>1, <1>10, <2>1 DEF ProbeIrq, ProbeAdapter, RemoveAdapter
<1>11. CASE RemoveIrq
  BY <1>7, <1>11 DEF RemoveIrq
<1>12. CASE Controller
  BY <1>7, <1>12 DEF Controller
<1>13. CASE UNCHANGED vars
  BY <1>7, <1>13 DEF vars
<1>14. CASE XferExpire
  <2>1. pc = "wait" /\ pc' = "expired" /\ UNCHANGED <<bound, msgs>>
    BY <1>14 DEF XferExpire
  <2> QED BY <2>1 DEF Progress
<1> QED
  BY <1>3, <1>4, <1>5, <1>6, <1>8, <1>9, <1>10, <1>11, <1>12, <1>13, <1>14 DEF Next, XferSteps

LEMMA ProgressAlways == Spec => []Progress
<1>1. Progress /\ I2cInv /\ [Next]_vars => Progress'
  BY ProgressNext
<1> QED BY <1>1, ProgressInit, I2cAlways, PTL DEF Spec

------------------------------------------------------------------------------
\* InArray, and in the step before the first message num_msgs counts it too.
Positions ==
    pc # "idle" /\ ~ stray /\ msgs # <<>> =>
        /\ curr_msg \in 1 .. Len(msgs)
        /\ curr_msg + num_msgs = IF pc = "start" THEN Len(msgs) + 1 ELSE Len(msgs)

\* A message that is started is counted.
LEMMA StartCounts ==
    ASSUME Types, NEW i \in Nat, num_msgs # 0, start_transfer(msgs, i, num_msgs)
    PROVE  num_msgs' = num_msgs - 1
  BY DEF start_transfer, Start

LEMMA PositionsNext == ASSUME I2cInv, Progress, Positions, [Next]_vars PROVE Positions'
<1> USE DEF xferVars, isrVars, msgVars, ctlVars
<1>1. Types /\ Len(msgs) \in Nat /\ curr_msg \in Nat /\ num_msgs \in Nat
  BY MsgFacts DEF I2cInv, Types
<1>2. ASSUME pc' = "idle" PROVE Positions'
  BY <1>2 DEF Positions
<1>3. ASSUME pc' # "idle", pc # "idle", (pc' = "start") = (pc = "start"),
             UNCHANGED <<msgs, curr_msg, num_msgs>>, ~ stray' => ~ stray
      PROVE  Positions'
  BY <1>3 DEF Positions
<1>4. ASSUME NEW m \in Transfers, Xfer(m) PROVE Positions'
  <2>1. CASE UNCHANGED pc
    BY <1>2, <1>4, <2>1 DEF Xfer
  <2>2. CASE pc' # pc
    <3>1. msgs' = m /\ curr_msg' = 1 /\ num_msgs' = Len(m) /\ pc' = "start"
      BY <1>4, <2>2 DEF Xfer
    <3>2. m \in Seq([rd : BOOLEAN, len : Nat])
      BY I2cAssumption
    <3>3. m # <<>> => Len(m) \in Nat /\ Len(m) # 0
      BY <3>2
    <3> QED BY <3>1, <3>3 DEF Positions
  <2> QED BY <2>1, <2>2
<1>5. CASE XferStart
  <2>1. /\ pc = "start" /\ pc' = "wait" /\ UNCHANGED <<msgs, curr_msg, stray>>
        /\ start_transfer(msgs, curr_msg, num_msgs)
    BY <1>5 DEF XferStart
  <2>2. CASE ~ stray /\ msgs # <<>>
    <3>1. curr_msg \in 1 .. Len(msgs) /\ curr_msg + num_msgs = Len(msgs) + 1
      BY <2>1, <2>2 DEF Positions
    <3>2. num_msgs # 0
      BY <1>1, <3>1
    <3>3. num_msgs' = num_msgs - 1
      BY <1>1, <2>1, <3>2, StartCounts
    <3>4. curr_msg + num_msgs' = Len(msgs)
      BY <1>1, <3>1, <3>3
    <3> QED BY <2>1, <3>1, <3>4 DEF Positions
  <2> QED BY <2>1, <2>2 DEF Positions
<1>6. CASE XferTimeout \/ XferReturn
  BY <1>2, <1>6 DEF XferTimeout, XferReturn
<1>7. CASE XferExpire
  <2>1. pc = "wait" /\ pc' = "expired" /\ UNCHANGED <<msgs, curr_msg, num_msgs, stray>>
    BY <1>7 DEF XferExpire
  <2> QED BY <1>3, <2>1
<1>8. CASE IsrAct
  <2>1. isr = "act" /\ UNCHANGED <<pc, msgs, stray>>
    BY <1>8 DEF IsrAct
  <2>2. CASE UNCHANGED <<curr_msg, num_msgs>>
    BY <1>2, <1>3, <2>1, <2>2
  <2>3. CASE /\ curr_msg' = curr_msg + 1 /\ num_msgs # 0
             /\ start_transfer(msgs, curr_msg + 1, num_msgs)
    <3>1. CASE pc # "idle" /\ ~ stray /\ msgs # <<>>
      <4>1. pc # "start"
        BY <2>1, <3>1 DEF I2cInv, WaitInv
      <4>2. curr_msg \in 1 .. Len(msgs) /\ curr_msg + num_msgs = Len(msgs)
        BY <3>1, <4>1 DEF Positions
      <4>3. curr_msg + 1 \in 1 .. Len(msgs)
        BY <1>1, <2>3, <4>2
      <4>4. num_msgs' = num_msgs - 1
        BY <1>1, <2>3, StartCounts
      <4>5. curr_msg' + num_msgs' = Len(msgs)
        BY <1>1, <2>3, <4>2, <4>4
      <4> QED BY <2>1, <2>3, <4>1, <4>3, <4>5 DEF Positions
    <3>2. CASE ~ (pc # "idle" /\ ~ stray /\ msgs # <<>>)
      BY <2>1, <3>2 DEF Positions
    <3> QED BY <3>1, <3>2
  <2>4. CASE IsrTxw /\ remaining # 0
    <3>1. \/ /\ curr_msg' = curr_msg + 1 /\ num_msgs # 0
             /\ start_transfer(msgs, curr_msg + 1, num_msgs)
          \/ UNCHANGED <<curr_msg, num_msgs>>
      BY <2>4 DEF IsrTxw
    <3> QED BY <2>2, <2>3, <3>1
  <2>5. CASE IsrTxw /\ remaining = 0
    BY <2>2, <2>5 DEF IsrTxw
  <2>6. CASE IsrRxr
    BY <2>2, <2>6 DEF IsrRxr
  <2> QED BY <1>8, <2>2, <2>4, <2>5, <2>6 DEF IsrAct, IsrError, IsrDone, IsrNone
<1>9. CASE IsrEnter \/ IsrComplete \/ RemoveIrq \/ Controller \/ UNCHANGED vars
  <2>1. UNCHANGED <<pc, msgs, curr_msg, num_msgs>>
    BY <1>9 DEF IsrEnter, IsrComplete, RemoveIrq, Controller, vars
  <2>2. IsrEnter => (~ stray' => ~ stray)
    BY Zenon DEF IsrEnter
  <2>3. IsrComplete \/ RemoveIrq \/ Controller \/ UNCHANGED vars => stray' = stray
    BY DEF IsrComplete, RemoveIrq, Controller, vars
  <2> QED BY <1>2, <1>3, <1>9, <2>1, <2>2, <2>3
<1>10. CASE ProbeIrq \/ ProbeAdapter \/ RemoveAdapter
  <2>1. pc = "idle"
    BY <1>10 DEF ProbeIrq, ProbeAdapter, RemoveAdapter, Progress, I2cInv, Types
  <2> QED BY <1>2, <1>10, <2>1 DEF ProbeIrq, ProbeAdapter, RemoveAdapter
<1> QED BY <1>4, <1>5, <1>6, <1>7, <1>8, <1>9, <1>10 DEF Next, XferSteps

\* For all transfers and every interleaving of xfer() and the handler, curr_msg
\* never runs past the array, empty messages included, num_msgs counts the
\* messages behind it, and neither it nor the bytes left run below zero.
THEOREM I2cTypeOK == Spec => []TypeOK
<1>1. I2cInv /\ Positions => TypeOK
  BY MsgFacts DEF I2cInv, Positions, TypeOK, InArray
<1>2. Init => Positions
  BY DEF Init, Positions
<1>3. Positions /\ Progress /\ I2cInv /\ [Next]_vars => Positions'
  BY PositionsNext
<1> QED BY <1>1, <1>2, <1>3, ProgressAlways, I2cAlways, PTL DEF Spec

\* A transfer that ends with no error has moved every byte of every message,
\* for all arrays of messages: whatever the controller asks for, offers and
\* reports, and whenever the shared interrupt runs the handler.
THEOREM I2cSuccessIsReal == Spec => []SuccessIsReal
<1>1. I2cInv /\ Progress => SuccessIsReal
  <2> SUFFICES ASSUME Types, Progress, pc = "wait", completion, msg_err = {}, ~ stray, NonEmpty,
                      NEW i \in DOMAIN msgs
               PROVE  moved[i] = msgs[i].len
    BY DEF I2cInv, SuccessIsReal
  <2>1. Counted /\ remaining = 0
    BY DEF Progress
  <2>2. Len(msgs) \in Nat /\ i \in 1 .. Len(msgs) /\ msgs[i].len \in Nat
    BY MsgFacts
  <2>3. curr_msg = Len(msgs)
    BY <2>1, <2>2 DEF Counted
  <2> QED BY <2>1, <2>2, <2>3 DEF Counted
<1> QED BY <1>1, ProgressAlways, I2cAlways, PTL
==============================================================================
