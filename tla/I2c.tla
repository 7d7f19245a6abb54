--------------------------------- MODULE I2c ---------------------------------
(***************************************************************************)
(* The BCM2835 I2C bus driver (i2c-foo.c): bcm2835_i2c_xfer(), called by   *)
(* one thread at a time under the adapter's lock, and the interrupt        *)
(* handler bcm2835_i2c_isr(), which shares the interrupt line with other   *)
(* devices, so that it may run at any time and on another CPU.  The two    *)
(* share curr_msg, num_msgs, msg_buf, msg_buf_remaining and msg_err        *)
(* without a lock.  xfer takes the steps prepare / start / wait / stop the *)
(* controller when the wait expired, the handler the steps read the status *)
(* / act on it / complete.                                                 *)
(*                                                                         *)
(* Bytes are counted, message by message, and not stored.  The controller  *)
(* is external: while a transfer is active it may ask for bytes, offer     *)
(* bytes, fail or finish at any time, and never has to.  CLEAR empties its *)
(* FIFO, and with it go the requests TXW and RXR; the transfer it is told  *)
(* to abandon "will take some time to resolve" and ends later, with DONE.  *)
(***************************************************************************)
EXTENDS Integers, Sequences

CONSTANTS Transfers,    \* the message arrays callers pass to xfer
          Dividers,     \* DIV_ROUND_UP(clk_get_rate(), bus_clk_rate)
          CDIV_MIN, CDIV_MAX,
          UINT_MOD      \* 2^32: the divider is a u32

ASSUME I2cAssumption ==
    /\ Transfers \subseteq Seq([rd : BOOLEAN, len : Nat])
    /\ UINT_MOD \in Nat /\ CDIV_MIN \in Nat /\ CDIV_MAX \in Nat
    /\ 2 <= CDIV_MIN /\ CDIV_MAX < UINT_MOD
    /\ Dividers \subseteq 0 .. UINT_MOD - 1

VARIABLES
    bound,              \* probe: none, irq, adapter; remove: dying
    pc,                 \* xfer: idle, start (before start_transfer), wait, expired
    msgs,               \* the array curr_msg points into, alive while pc # idle
    curr_msg,           \* position in msgs, 0 for NULL
    num_msgs, remaining, msg_err,
    completion,         \* complete() was called since reinit_completion()
    ret,                \* what the last xfer returned, none while one runs
    isr, val,           \* the handler: idle, act, complete; its copy of S
    clkregs,            \* the registers DIV and DEL (fields FEDL, REDL)
    C,                  \* the interrupt enables in register C
    S, mode,            \* external: register S, what the controller is doing
    moved,              \* history: bytes moved of each message in this transfer; [0]: outside msgs
    stray               \* history: a handler run crosses the start or end of a wait

xferVars == <<pc, msgs, ret, clkregs>>
isrVars == <<isr, val>>
msgVars == <<curr_msg, num_msgs, remaining, moved>>
ctlVars == <<C, S, mode>>
vars == <<bound, xferVars, msgVars, msg_err, completion, isrVars, ctlVars, stray>>

Finish == {"CLKT", "ERR", "DONE"}
NoneMoved(m) == [i \in 0 .. Len(m) |-> 0]

\* devm_kzalloc() has zeroed the device, and the clock registers are unset.
Init ==
    /\ bound = "none" /\ pc = "idle" /\ msgs = <<>> /\ ret = "none"
    /\ curr_msg = 0 /\ num_msgs = 0 /\ remaining = 0 /\ moved = NoneMoved(<<>>)
    /\ msg_err = {} /\ completion = FALSE
    /\ isr = "idle" /\ val = {} /\ stray = FALSE
    /\ clkregs = [div |-> 0, fedl |-> 0, redl |-> 0]
    /\ C = {} /\ S = {} /\ mode = "idle"

------------------------------------------------------------------------------
\* C = CLEAR empties the FIFO and abandons the transfer; the bits ack are
\* acknowledged in S.
WriteClear(ack) ==
    /\ C' = {}
    /\ S' = S \ (ack \cup {"TXW", "RXR"})
    /\ mode' = IF mode \in {"write", "read"} THEN "abort" ELSE "idle"

\* The message at position i.  Behind the array any memory may be read; a
\* length of 0 or 1 stands for what is found there.
MsgAt(m, i) == IF i \in DOMAIN m THEN {m[i]} ELSE [rd : BOOLEAN, len : {0, 1}]

\* bcm2835_i2c_start_transfer() of message i of array m, n messages left.
Start(msg, n) ==
    /\ num_msgs' = n - 1
    /\ remaining' = msg.len
    /\ C' = (IF msg.rd THEN {"INTR"} ELSE {"INTT"}) \cup (IF n = 1 THEN {"INTD"} ELSE {})
    /\ mode' = IF msg.rd THEN "read" ELSE "write"

start_transfer(m, i, n) ==
    \/ n = 0 /\ UNCHANGED <<num_msgs, remaining, C, mode>>
    \/ n # 0 /\ \E msg \in MsgAt(m, i) : Start(msg, n)

\* A plausible slip: a delay of 0 is not raised to 1.
divider_no_minimum(d) ==
    LET even == IF d % 2 = 1 THEN (d + 1) % UINT_MOD ELSE d
    IN  IF even < CDIV_MIN \/ even > CDIV_MAX THEN {}
        ELSE {[div |-> even, fedl |-> even \div 16, redl |-> even \div 4]}

\* bcm2835_i2c_set_divider(): the registers it writes, none for -EINVAL.
set_divider(d) ==
    LET even == IF d % 2 = 1 THEN (d + 1) % UINT_MOD ELSE d
        AtLeast1(x) == IF x > 1 THEN x ELSE 1
    IN  IF even < CDIV_MIN \/ even > CDIV_MAX THEN {}
        ELSE {[div |-> even, fedl |-> AtLeast1(even \div 16), redl |-> AtLeast1(even \div 4)]}

------------------------------------------------------------------------------
\* bcm2835_i2c_xfer(), up to the start of the first message.
Xfer(m) ==
    /\ bound \in {"adapter", "dying"} /\ pc = "idle"
    /\ \/ /\ \E i \in 1 .. Len(m) - 1 : m[i].rd
          /\ ret' = "EOPNOTSUPP"
          /\ UNCHANGED <<pc, msgs, clkregs, msgVars, completion, stray>>
       \/ /\ \A i \in 1 .. Len(m) - 1 : ~ m[i].rd
          /\ \E d \in Dividers :
                IF set_divider(d) = {}
                THEN /\ ret' = "EINVAL"
                     /\ UNCHANGED <<pc, msgs, clkregs, msgVars, completion, stray>>
                ELSE /\ clkregs' \in set_divider(d)
                     /\ msgs' = m /\ curr_msg' = 1 /\ num_msgs' = Len(m)
                     /\ moved' = NoneMoved(m)
                     /\ completion' = FALSE
                     /\ stray' = (isr # "idle")
                     /\ pc' = "start"
                     /\ ret' = "none"
                     /\ UNCHANGED remaining
    /\ UNCHANGED <<bound, msg_err, isrVars, ctlVars>>

XferStart ==
    /\ pc = "start"
    /\ pc' = "wait"
    /\ start_transfer(msgs, curr_msg, num_msgs)
    /\ UNCHANGED <<bound, msgs, ret, clkregs, curr_msg, moved, msg_err,
                   completion, isrVars, S, stray>>

\* A plausible slip: the wait has no time limit.
xfer_waits_forever == FALSE /\ UNCHANGED vars

\* wait_for_completion_timeout() returned 0.
XferExpire ==
    /\ pc = "wait" /\ ~ completion
    /\ pc' = "expired"
    /\ UNCHANGED <<bound, msgs, ret, clkregs, msgVars, msg_err, completion, isrVars, ctlVars, stray>>

\* A plausible slip: the controller is left running after a time-out.
xfer_timeout_no_clear ==
    /\ pc = "expired"
    /\ pc' = "idle" /\ ret' = "ETIMEDOUT"
    /\ stray' = (isr # "idle")
    /\ UNCHANGED <<bound, msgs, clkregs, msgVars, msg_err, completion, isrVars, ctlVars>>

\* The controller is stopped, whatever the handler has done since the expiry.
XferTimeout ==
    /\ pc = "expired"
    /\ WriteClear({})
    /\ pc' = "idle" /\ ret' = "ETIMEDOUT"
    /\ stray' = (isr # "idle")
    /\ UNCHANGED <<bound, msgs, clkregs, msgVars, msg_err, completion, isrVars>>

XferReturn ==
    /\ pc = "wait" /\ completion
    /\ pc' = "idle"
    /\ ret' = CASE msg_err = {} -> "num"
                [] "ERR" \in msg_err -> "EREMOTEIO"
                [] OTHER -> "EIO"
    /\ UNCHANGED <<bound, msgs, clkregs, msgVars, msg_err, completion, isrVars,
                   ctlVars, stray>>

------------------------------------------------------------------------------
\* bcm2835_i2c_isr() is entered and reads S.
IsrEnter ==
    /\ bound \in {"irq", "adapter"} /\ isr = "idle"
    /\ isr' = "act"
    /\ val' = S
    /\ stray' = (stray \/ pc = "start")
    /\ UNCHANGED <<bound, xferVars, msgVars, msg_err, completion, ctlVars>>

\* k more bytes moved to or from the buffer of the current message.
Moved(k) ==
    LET i == IF curr_msg \in DOMAIN msgs THEN curr_msg ELSE 0
    IN  [moved EXCEPT ![i] = @ + k]

\* bcm2835_fill_txfifo() and bcm2835_drain_rxfifo(): as many of the bytes
\* that remain as the FIFO takes or has.
MoveBytes == \E k \in 0 .. remaining :
    /\ remaining' = remaining - k
    /\ moved' = Moved(k)

IsrError ==
    /\ val \cap {"CLKT", "ERR"} # {}
    /\ msg_err' = val \cap {"CLKT", "ERR"}
    /\ isr' = "complete"
    /\ UNCHANGED <<msgVars, ctlVars>>

\* A plausible slip: bytes that are still to be moved at DONE are not an error.
isr_done_ignores_remaining ==
    /\ val \cap Finish = {"DONE"}
    /\ msg_err' = {}
    /\ isr' = "complete"
    /\ UNCHANGED <<msgVars, ctlVars>>

\* DONE.  Bytes of a read are in the FIFO only if it was not cleared; RXD may
\* still be on once the buffer is full.
IsrDone ==
    /\ val \cap Finish = {"DONE"}
    /\ \E msg \in MsgAt(msgs, curr_msg) :
          IF curr_msg # 0 /\ msg.rd /\ mode \in {"read", "rdone"}
          THEN MoveBytes
          ELSE UNCHANGED <<remaining, moved>>
    /\ \/ msg_err' = {"LEN"} /\ (remaining' # 0 \/ mode \in {"read", "rdone"})
       \/ msg_err' = {} /\ remaining' = 0
    /\ isr' = "complete"
    /\ UNCHANGED <<curr_msg, num_msgs, ctlVars>>

\* A plausible slip: the handler goes on after the last message, too.
isr_txw_goes_on ==
    /\ val \cap Finish = {} /\ "TXW" \in val /\ remaining # 0
    /\ isr' = "idle"
    /\ S' = S \ {"TXW"}
    /\ \E k \in 0 .. remaining :
          /\ moved' = Moved(k)
          /\ IF k = remaining
             THEN curr_msg' = curr_msg + 1 /\ start_transfer(msgs, curr_msg + 1, num_msgs)
             ELSE remaining' = remaining - k /\ UNCHANGED <<curr_msg, num_msgs, C, mode>>
    /\ UNCHANGED msg_err

\* TXW: fill the FIFO; when the message is complete start the next.
IsrTxw ==
    /\ val \cap Finish = {} /\ "TXW" \in val
    /\ \/ /\ remaining = 0
          /\ msg_err' = val \cup {"LEN"}
          /\ isr' = "complete"
          /\ UNCHANGED <<msgVars, ctlVars>>
       \/ /\ remaining # 0
          /\ isr' = "idle"
          /\ S' = S \ {"TXW"}
          /\ UNCHANGED msg_err
          /\ \E k \in 0 .. remaining :
                /\ moved' = Moved(k)
                /\ IF num_msgs # 0 /\ k = remaining
                   THEN /\ curr_msg' = curr_msg + 1
                        /\ start_transfer(msgs, curr_msg + 1, num_msgs)
                   ELSE /\ remaining' = remaining - k
                        /\ UNCHANGED <<curr_msg, num_msgs, C, mode>>

IsrRxr ==
    /\ val \cap (Finish \cup {"TXW"}) = {} /\ "RXR" \in val
    /\ \/ /\ remaining = 0
          /\ msg_err' = val \cup {"LEN"}
          /\ isr' = "complete"
          /\ UNCHANGED <<msgVars, ctlVars>>
       \/ /\ remaining # 0
          /\ IF mode \in {"read", "rdone"} THEN MoveBytes ELSE UNCHANGED <<remaining, moved>>
          /\ isr' = "idle"
          /\ S' = S \ {"RXR"}
          /\ UNCHANGED <<msg_err, curr_msg, num_msgs, C, mode>>

\* IRQ_NONE: the interrupt was another device's.
IsrNone ==
    /\ val = {}
    /\ isr' = "idle"
    /\ UNCHANGED <<msg_err, msgVars, ctlVars>>

IsrAct ==
    /\ isr = "act"
    /\ IsrError \/ IsrDone \/ IsrTxw \/ IsrRxr \/ IsrNone
    /\ val' = {}
    /\ UNCHANGED <<bound, xferVars, completion, stray>>

\* A plausible slip: C is written only on errors.
isr_complete_no_clear ==
    /\ isr = "complete"
    /\ S' = S \ Finish
    /\ completion' = TRUE
    /\ isr' = "idle"
    /\ UNCHANGED <<bound, xferVars, msgVars, msg_err, val, C, mode, stray>>

\* The label complete: stop the controller, clear S, wake xfer.
IsrComplete ==
    /\ isr = "complete"
    /\ WriteClear(Finish)
    /\ completion' = TRUE
    /\ isr' = "idle"
    /\ UNCHANGED <<bound, xferVars, msgVars, msg_err, val, stray>>

------------------------------------------------------------------------------
\* bcm2835_i2c_probe(): request_irq(), after which the handler may run; then
\* C = 0 and i2c_add_adapter(), whose failure gives the interrupt back.
ProbeIrq ==
    /\ bound = "none"
    /\ bound' = "irq"
    /\ curr_msg' = 0 /\ num_msgs' = 0 /\ remaining' = 0
    /\ msg_err' = {} /\ completion' = FALSE
    /\ UNCHANGED <<xferVars, moved, isrVars, ctlVars, stray>>

ProbeAdapter ==
    /\ bound = "irq"
    /\ C' = {}
    /\ \/ bound' = "adapter"
       \/ bound' = "none" /\ isr = "idle"
    /\ UNCHANGED <<xferVars, msgVars, msg_err, completion, isrVars, S, mode, stray>>

\* bcm2835_i2c_remove(): free_irq() waits for the handler, i2c_del_adapter()
\* for the transfer in progress, which can now only time out.
RemoveIrq ==
    /\ bound = "adapter" /\ isr = "idle"
    /\ bound' = "dying"
    /\ UNCHANGED <<xferVars, msgVars, msg_err, completion, isrVars, ctlVars, stray>>

RemoveAdapter ==
    /\ bound = "dying" /\ pc = "idle"
    /\ bound' = "none"
    /\ UNCHANGED <<xferVars, msgVars, msg_err, completion, isrVars, ctlVars, stray>>

------------------------------------------------------------------------------
\* External: the controller.  DONE outside a transfer is the firmware's.
Controller ==
    /\ \/ mode = "write" /\ S' = S \cup {"TXW"} /\ UNCHANGED mode
       \/ mode = "read" /\ S' = S \cup {"RXR"} /\ UNCHANGED mode
       \/ /\ mode \in {"write", "read"}
          /\ \E b \in {"ERR", "CLKT"} : S' = S \cup {b}
          /\ UNCHANGED mode
       \/ /\ S' = (S \ {"TXW"}) \cup {"DONE"}
          /\ mode' = IF mode \in {"read", "rdone"} THEN "rdone" ELSE "idle"
    /\ UNCHANGED <<bound, xferVars, msgVars, msg_err, completion, isrVars, C, stray>>

XferSteps == XferStart \/ XferExpire \/ XferTimeout \/ XferReturn

Next ==
    \/ \E m \in Transfers : Xfer(m)
    \/ XferSteps
    \/ IsrEnter \/ IsrAct \/ IsrComplete
    \/ ProbeIrq \/ ProbeAdapter \/ RemoveIrq \/ RemoveAdapter
    \/ Controller

\* The thread in xfer runs, and its timer expires: nothing is assumed of the
\* controller or of interrupts.
Spec == Init /\ [][Next]_vars /\ WF_vars(XferSteps)

------------------------------------------------------------------------------
\* The types of the variables; num_msgs and remaining do not go below zero.
Types ==
    /\ bound \in {"none", "irq", "adapter", "dying"}
    /\ pc \in {"idle", "start", "wait", "expired"}
    /\ msgs \in Transfers \cup {<<>>}
    /\ curr_msg \in Nat /\ num_msgs \in Nat /\ remaining \in Nat
    /\ moved \in [0 .. Len(msgs) -> Nat]
    /\ msg_err \subseteq {"CLKT", "ERR", "TXW", "RXR", "LEN"}
    /\ completion \in BOOLEAN /\ stray \in BOOLEAN
    /\ isr \in {"idle", "act", "complete"}
    /\ val \subseteq {"CLKT", "ERR", "DONE", "TXW", "RXR"}
    /\ S \subseteq {"CLKT", "ERR", "DONE", "TXW", "RXR"}
    /\ C \subseteq {"INTR", "INTT", "INTD"}
    /\ mode \in {"idle", "write", "read", "rdone", "abort"}
    /\ clkregs \in [div : Nat, fedl : Nat, redl : Nat]
    /\ ret \in {"none", "num", "EOPNOTSUPP", "EINVAL", "ETIMEDOUT", "EREMOTEIO", "EIO"}

\* From the start of a transfer to its end curr_msg is a message of the array
\* and num_msgs counts those behind it.  Only an array without messages, and a
\* handler run that crosses the beginning or the end of the wait, are not covered.
InArray ==
    pc # "idle" /\ ~ stray /\ msgs # <<>> =>
        /\ curr_msg \in DOMAIN msgs
        /\ pc # "start" => curr_msg + num_msgs = Len(msgs)

\* Types, and the handler stays within the array of the transfer: with empty
\* messages, extra interrupts and time-outs too, curr_msg and num_msgs move
\* together, and neither they nor the bytes left of a message run out of range.
TypeOK == Types /\ InArray

\* The comment in set_divider(): "both FEDL and REDL can't be greater than
\* CDIV/2".  It holds of the registers whatever dividers were refused before,
\* and the divider programmed is even and within its limits.
DelaysWithinHalf ==
    clkregs.div # 0 =>
        /\ clkregs.div % 2 = 0
        /\ CDIV_MIN <= clkregs.div /\ clkregs.div <= CDIV_MAX
        /\ 1 <= clkregs.fedl /\ 2 * clkregs.fedl <= clkregs.div
        /\ 1 <= clkregs.redl /\ 2 * clkregs.redl <= clkregs.div

\* The array has messages and each has bytes.
NonEmpty == msgs # <<>> /\ \A i \in DOMAIN msgs : msgs[i].len > 0

\* xfer is about to report success only when every byte of every message went
\* through the FIFO.  Two cases are not covered: a handler run that crosses
\* the beginning or the end of the wait, which completes the wrong transfer,
\* and an empty array or message, which DONE cannot tell from a finished one.
SuccessIsReal ==
    pc = "wait" /\ completion /\ msg_err = {} /\ ~ stray /\ NonEmpty
        => \A i \in DOMAIN msgs : moved[i] = msgs[i].len

\* Once xfer has returned, by completion or by time-out, the controller raises
\* no interrupt of its own: none is enabled until the next transfer starts.
QuietBetweenTransfers == pc = "idle" /\ ~ stray => C = {}

\* The handler reads or writes the caller's buffers only while the caller is
\* still in xfer, whatever the controller does after a time-out.  (xfer's own
\* steps, which change pc, only reset the count.)
NoBytesAfterReturn ==
    [][UNCHANGED pc /\ moved' # moved => pc \in {"wait", "expired"} \/ stray]_vars

\* Every transfer returns to its caller, even if the controller never answers
\* or the interrupt has been freed by remove.
XferReturns == pc # "idle" ~> pc = "idle"
==============================================================================
