# Verification of the linuxinsid2018 exercises

The repository holds the exercises of a Linux study group: a TCP message server
(`source/socket-programming`), small device drivers (`source/device-driver`) and
kernel modules (`source/module-programming`), with lecture notes in `memo/`.
This directory holds TLA+ models of them, TLC runs and TLAPS proofs. The models
are translated from the C code; where notes or comments disagree with the code,
a run that ends in a violation shows the disagreement.

## Inventory

Paths are relative to `src/source/`.

| Component | State it keeps | Operations | What is hard | What makes it correct |
|---|---|---|---|---|
| send queue, `socket-programming/practice2_190112/queue.c` | array, `current` | create, enqueue, dequeue, dequeue_all | limits of the array, stale slots | bounds; a bounded buffer that loses nothing it accepted |
| peer, `peer.c` | `tx_buff`/`tx_bytes`, `rx_bytes`, retry counter, queue | receive_from_peer, send_to_peer, peer_add_to_send | failures and put-off sends between any two calls | no message lost, doubled or sent to another client |
| protocol, `msg.c` | `sequence_id`, `transaction_id` of a peer | prepare_message, handle_received_message | wrap-around, sentinel -1, ids kept across connections | a conforming client is served |
| server loop, `server.c`, `stdin.c`, `signal.c`, `main.c` | `clients[]`, the three fd sets, descriptors | select loop, accept, close, broadcast from stdin, signals | reports that are stale when used, reuse of descriptor numbers and slots, full table, SIGPIPE | descriptors accounted for, reports fresh, nobody starves |
| options, `option.c` | none | setsockopt/fcntl wrappers | - | - |
| test client, `client/client_main.c` | last ids | connect, send, wait for an answer | waits for 532 bytes where the server sends 2 | both sides make progress |
| `moonc_tcp-1` | as tcpd | as tcpd, with an echo handler | as tcpd | as tcpd |
| `practice_190112`, `echo_tcp` | - | unfinished drafts | - | - |
| i2c driver, `device-driver/i2c/i2c-foo.c` (= `i2c-bcm2835.c`) | `curr_msg`, `num_msgs`, `msg_buf`, completion, registers | xfer, isr, set_divider, probe, remove | interrupt against timeout, stale `curr_msg` | a transfer reports the outcome of its own messages |
| generic gpio, `gpio/gpio-mmio.c` | data and direction registers, their shadows, lock, the functions picked at init | init, get, set, set_multiple, direction | level and direction in two locked sections; shadows read once | a call changes its own lines, in one move |
| lpc32xx gpio, `gpio/gpio-lpc32xx.c` | registers shared by six chips, no lock | probe, of_xlate, request, set, direction | chips that share registers at different shifts | as above; inputs read from bits of their own |
| ns2 pin mux, `pinctrl/pinctrl-ns2-mux.c` | mux log, mux and configuration registers, lock | set_mux, config_set, config_get | log searched and changed outside the lock, never reset | a granted mux has its value; settings are kept |
| iproc gpio, `pinctrl/pinctrl-iproc-gpio.c` | registers in banks of 32, lock, disabled parameters | gpio calls, irq mask/type, handler, pin configuration, probe | read-modify-write of shared registers; status cleared before the child handler | no line or setting disturbs another; no edge lost |
| bcm2835 pin controller, `pinctrl/pinctrl-bcm2835.c` | function select, pulls, detectors, `enabled_irq_map`, `irq_type`, locks per bank; maps | set_mux, gpio calls, pinconf_set, irq enable/disable/type, handlers, dt_node_to_map, probe | unlocked function select and pulls; enable against handler; unwinding of maps | software maps agree with registers; events served; nothing leaked |
| gpio exercises `gpio/gpio-foo-dynamic.c`, `gpio-foo.c`, `gpio-foo2.c`, `pinctrl/pinctrl-my.c`, `i2c/i2c-foo2.c` | plain words, tables | copies of parts of the drivers above | - | - |
| `character/foo-char.c`, `platform-device/`, `module-programming/` | registrations | init, exit, open, read, write | unwinding after partial failure | released once, and not while in use |

The gpio and pinctrl drivers are copies of kernel drivers that the exercises are
written after; they are where the repository's drivers have their concurrency.

How the server's parts interact: `do_server()` is one thread. `build_fd_sets()`
reads every slot; `select()` reports; `do_server_ex()` then calls, in this order,
`handle_read_from_stdin()` (queues a message for every client), 
`handle_new_connection()` (fills a slot) and, per slot, `receive_from_peer()`
(which calls the handler of `msg.c`, which may queue an answer),
`send_to_peer()` and the check of `except_fds`; each of these may end in
`close_client_connection()`. Clients, the kernel and signals act between any two
calls.

How the drivers interact with their surroundings: the i2c core calls `xfer` for
one caller at a time, the interrupt (shared with other devices) runs
`bcm2835_i2c_isr()` on any CPU at any time. The gpio and pin control cores give a
line or pin to one user at a time and then let users of different lines call in
parallel; the drivers meet where lines share registers. Chained interrupt
handlers run against all of these calls. No driver calls another.

## Modules

| Module | Models |
|---|---|
| `BoundedStack` | abstract: a bounded buffer, newest message out first |
| `MessageQueue` | `queue.c`, on the array |
| `Peer` | one `peer_t` and every call on it, as operators from a record to a record |
| `Session` | one slot through all the connections it serves; abstract specification of what the server does for a slot |
| `ConformingClient` | a Session whose clients number messages as the protocol asks |
| `Tcpd` | the whole server with the kernel's side: composes the slots, refines `Session` slot by slot |
| `I2c` | `i2c-foo.c`: xfer, interrupt handler, time-out, probe and remove; the controller is environment |
| `GpioLines` | abstract: lines that change only by requests for them, in one move (`Spec`) or with a glitch until the request returns (`GlitchSpec`) |
| `GpioMmio`, `GpioLpc32xx`, `IprocGpio` | the three gpio drivers; each refines `GpioLines` |
| `Ns2Mux` | `pinctrl-ns2-mux.c`, with its complete tables of pins, groups and functions |
| `Bcm2835Regs`, `Bcm2835Mux`, `Bcm2835Irq`, `Bcm2835Map`, `PinctrlBcm2835` | `pinctrl-bcm2835.c`: register layout; functions and pulls; interrupts; device tree maps; all together |
| `MC*` | constants for TLC |
| `MessageQueueProofs`, `TcpdProofs` (with the lemmas on `Peer` and the theorems on `Session`), `I2cProofs`, `GpioMmioProofs`, `GpioLpc32xxProofs`, `Ns2MuxProofs`, `IprocGpioProofs`, `PinctrlBcm2835Proofs` | theorems |

`Peer` sees the queue as the sequence `MessageQueue!Waiting`; that this is what
the array does is `ImplementsStack`. `tx_bytes` is -1 (`tx = NoMessage`) or 0
(`tx` is the contents of `tx_buff`) whenever a call returns: a send that takes
any number of bytes sets it back to -1. The program is built without `_USE_MSG`
(see the `Makefile`), so each chunk `recv()` returns is handled as one message,
and `send()` is asked for `strlen(data)` bytes, which is 2 for the constant
payload (`tot_len` computes it from the two integers). A header is reduced to
whether its magic number is right and its two ids; `Incoming` is any set of
headers. `recv()` and `send()` may answer anything the code tells apart.

`Tcpd` makes each call of `do_server()` and `do_server_ex()` one action; `at` and
`i` say which comes next. `rd` is what `select()` reports, from the kernel's
state; the bits of `wr` and `ex` are those asked for, and the `skip_*` actions
stand for a bit that was not reported. The sets are emptied at the end of a pass
(`FD_ZERO` empties them before they are used again), which only saves states.
`accept()` returns the lowest free descriptor. `sa_flags` of `setup_signals()` is
uninitialized: `do_write_sigpipe` lets SIGPIPE be handled ever after or once
only. `conn`, `cut`, `tag` and `polled` are observers: no guard that models code
reads them.

In `I2c` bytes are counted message by message (`moved`; under 0 those of memory
outside the array), not stored. The handler is three steps:
read the status, act on it, and (from the label `complete`) stop the controller
and wake `xfer`; between them `xfer` may time out, return, and be called again.
A time-out is two steps, the end of the wait and the CLEAR that follows, so that
the handler may run in between.
The controller may set any status bit a transfer can cause at any time, and never
has to. CLEAR empties its FIFO, so TXW and RXR, which follow from the FIFO, go at
once; what "will take some time to resolve" is the end of the transfer on the bus,
for which the controller stays in mode `abort`. `stray` records that a handler run crossed the start or the end of a
wait: such a run works on `curr_msg` of the caller before, or completes the
transfer after it; the code does not prevent that, and the properties that it
breaks exclude it by name. An array or message of length zero is the other case
`SuccessIsReal` leaves out: the handler's test cannot tell it from a finished one.
`InArray` covers empty messages: whatever interrupts come, `curr_msg` stays in the
array and `num_msgs` counts the messages behind it.

In the gpio and pinctrl modules a register is a function or a set of the bits
that are 1, restricted to the pins in use; an update under a lock is two steps,
read and write, so that a missing lock would show. `Owner` says which thread has
requested a line: that is the cores' contract, not a lock of the driver. In
`GpioMmio` the chip (which registers it has, its flags) is chosen in `Init`, and
`setup_io`, `setup_direction` and `setup_accessors` pick the functions as the code
does. In `GpioLpc32xx` the six chips, their sizes, register blocks and shifts are
the code's tables; `Named` is the lines with a name. In `Ns2Mux` a mux slot is
`<<base, offset, shift>>`; the register and byte of each configurable pin are
computed by `Register` and `Lane` instead of listed. In `IprocGpio` a call is the
sequence of bits `iproc_set_bit()` is called for. In `Bcm2835Irq` an operation is the
sequence of its effects under the bank's lock (`irq_enable`, `irq_disable`,
`irq_set_type`); the flow handlers of the interrupt core (mask, ack, action, unmask)
are external but call these operations. `raced` in `Bcm2835Mux` marks pins whose
call overlapped another call on the same function register, or on the one
register all pulls go through: without the exemption both `MuxSettingsKept` and
`CleanTransitions` fail, because `bcm2835_pinctrl_fsel_set()` and
`bcm2835_pinconf_set()` take no lock (run `bcm2835_race`). In `Bcm2835Map`
`misfreed` records a configuration freed that was not allocated, or not any more.
`want`, `asked`, `set`, `due`, `written`, `misfreed` and `moved` are history
variables that no guard that models code reads.

Definitions introduced by the comment "A plausible slip" (and, in the server's
modules, named `*_off_by_one`, `*_without_*`, `*_no_select`, `answer_twice`,
`dequeue_wrong_end` and `max_fds_of_first`) are not part of any specification:
they are variants that a slip in the code would give, each of which one property
is shown to catch.

## Runs

| Run | Result | Shows |
|---|---|---|
| `queue` | pass | `queue.c` stays in bounds and implements `BoundedStack`: the member called `fifo` hands out the newest message |
| `session` | pass | `OwnMessages`, `NoDuplicate` and `Drains` for a slot |
| `session_put_off` | violation of `PutOffIsSent` | "try again later" (`peer.c`) does not happen if nothing else is queued: the message has left the queue, and `build_fd_sets()` looks only at the queue |
| `conforming_client` | violation of `KeptWhileConforming` | the first message of a transaction is not recorded, so the second is refused and the client closed |
| `tcpd` | pass | `FdAccounting`, `ReportsFresh`, `SlotsAreSessions`, `InputIsRead` for the server |
| `i2c` | pass | a transfer reported as done has moved all its bytes (`SuccessIsReal`), the handler stays within the messages of the transfer (`TypeOK`, by its conjunct `InArray`), the controller is silent between transfers, buffers are not touched after their owner returned, every transfer returns, and the clock delays stay within half a period |
| `gpio_mmio` | pass | every layout of registers refines `GpioLines!Spec`; `get` reads the line |
| `gpio_lpc32xx` | pass | six chips without a lock refine `GpioLines!Spec`; each named input has its own bit, but for `gpio_p3` pin 5 and `gpi_p3` pin 24, which both read bit 24 |
| `ns2_mux` | pass | a device that holds a group has its function once the announced write is done (`MuxHonoured`), no mux is written twice (`ConfiguredOnce`), settings are kept, the log has a slot for every group (`TablesAgree`) |
| `iproc_gpio` | pass | `GpioLines!GlitchSpec` (the output is enabled before its level is set), settings read back as made, no edge lost, every edge of an unmasked pin served, in the last bank too |
| `bcm2835` | pass | detectors follow type and enable state, no event is left on a disabled pin, every event is served, functions and pulls are kept and changed through input unless calls overlap, maps are right, leak nothing and free nothing twice |
| `bcm2835_race` | violation of `AlwaysThroughInput` | when calls for two pins of a function register overlap, one puts back the other pin's old function, which then changes to the new one without passing through input |

Bounds. `queue`: 4 slots, 3 values, so full, empty and stale slots with other
contents occur. `session`: ids are two bits wide (0, 1 and the sentinel 3, so
wrap-around and the collision with -1 occur), the queue holds 2 (a message can
be put off while the queue is full), two connection names (a slot's successor
differs from its predecessor), 4 tags (at most 3 are in use at once), and
`rx_retry_cnt`, which the code never resets on close, is followed up to 5, past
the limit of 3. `tcpd`: two slots and three descriptors, so that a connection is
turned away and numbers are reused; queue of one; one header, always answered
(refusing it has the effect of an end of file); one connection in the backlog;
failed `recv()` calls with a retry are left to `session` (`MAX_RX_RETRY` = 0).
`i2c`: messages of 0 to 2 bytes, alone, combined and refused; dividers at both
limits, odd and even, and the one that wraps to 0 (integers are 20 bits wide,
well above the limit of the register). `gpio_mmio`: three lines of two threads,
eight layouts that cover every setting and direction function and both bit
orders, and four chips that init refuses; any boot value. `gpio_lpc32xx`: pins of
the same number on chips that share registers, nodes whose bank or pin does not
exist. `ns2_mux`: two devices with groups that overlap in pins, in mux field and in
register; two pins of one configuration register. `iproc_gpio`: two pins of the
first bank and one of a second, partly used bank, on the four kinds of
controllers; a behaviour makes calls of one kind (gpio, irq, configuration), which
share only the lock. `bcm2835`: a behaviour exercises one part; two pins of one
function register, pulls in the same and in different banks, one pin with every
interrupt type and two that are refused, two pins of a bank on two
interrupts, the first and last pin of each bank, and device tree nodes with zero,
one or two cells of each kind, right and wrong.

Deadlock is checked except in `tcpd`, where the process may exit, and in
`gpio_mmio`, `gpio_lpc32xx`, `iproc_gpio`, `bcm2835` and `bcm2835_race`: a probe that fails, a chip that
is only an input and a set of lines none of which is registered leave nothing to do.

Fairness. `Session`: a queue that is not empty keeps the slot in `write_fds`, and
a client that reads lets a `send()` succeed at last: weak fairness of
`Send("sent")`. `Drains` is about what the server does for such clients.
`Tcpd`: the loop runs as long as the process does (weak fairness of
`do_server`), and a socket that is reported readable again and again does not
answer EAGAIN each time (strong fairness of `TakesInput`); clients, signals and
failures get no fairness.
`I2c`: the caller's thread runs and its timer expires (weak fairness of the steps
of `xfer`); the interrupt and the controller get none. `IprocGpio`: an interrupt
handler that is pending or running goes on (weak fairness of `Handler`).
`PinctrlBcm2835`: sections under a spin lock finish, probe finishes, and a handler
that waits for the lock gets it (strong fairness of `Handle(g)`), because queued
spin locks are granted in order; callers of the driver get none.

## Proofs

All for every value of the constants, under the named assumptions
`QueueAssumption`, `PeerAssumption`, `NoMessageAssumption`, `IncomingAssumption`,
`TcpdAssumption` (positive sizes, descriptors above the listening socket's),
`I2cAssumption`, `MmioAssumption`, `Lpc32xxAssumption`, `Ns2Assumption`,
`IprocAssumption`, `Bcm2835Assumption`, `MuxAssumption`, `IrqAssumption` and
`MapAssumption`. Those of the drivers say that constants are of the right kind
(a register has 32 bits, each pin in use has an owner, a device asks for groups
that exist, "none" is no thread). Three say more. `MmioAssumption`: a chip whose
flags say that the set register is read has one that can be read, and a chip
without outputs has no direction register; the code leaves both to the callers of
`bgpio_init()`. `IprocAssumption`: a controller with
an `io_ctrl` register block has one bank of pins. The code leaves that to the
device tree; the strength registers of such a block are addressed with the bank
ignored, so with more pins, `p` and `p + 32` would share their bits and
`SettingsKept` would fail. `IrqAssumption`: handlers are not threads.

* `QueueTypeOK`, `QueueImplementsStack`: bounds of the array; refinement by the
  mapping `items <- Waiting`, one case per call.
* `SessionTypeOK`, `SessionOwnMessages`, `SessionNoDuplicate`. The inductive
  invariant is `PeerInv(peer)`: types and capacity, a connected
  slot serves a connection, every message held was made for that connection,
  tags in the queue are distinct, and `tx` is empty until a send is put off. There is
  one lemma per call of `peer.c` and `msg.c`; the steps of `Session` and of
  `Tcpd` both rest on them.
* `TcpdTypeOK`, `TcpdFdAccounting`, `TcpdReportsFresh`. The inductive invariant
  `TcpdInv` adds to the three: `PeerInv` of every slot; until `accept()` the
  descriptors are those `select()` saw, and only descriptors then open are in
  the sets (`SetsInv`), which is why a descriptor accepted in this pass is in no
  set, and one closed in this pass is not given out again before the next;
  a slot in `write_fds` that the pass has not reached still has messages
  (`WriteInv`).
* `TcpdSlotsAreSessions`: the server implements `Session` in each slot. `WriteInv`
  is what makes `send_to_peer()` legal there.
* `I2cDelaysWithinHalf`, `I2cQuiet`, `I2cNoBytesAfterReturn`. The
  inductive invariant `I2cInv` adds `WaitInv`: unless a handler run crosses the
  limits of a wait (`stray`), none runs while `xfer` starts a transfer, and from the
  completion or time-out on the enables are cleared, the controller is idle or
  abandoning, and the status a handler holds asks for no bytes. The completion is
  in it because `complete()` comes before `xfer` returns. The divider needs only
  `2 <= CDIV_MIN` and a width that holds it (`I2cAssumption`).
* `I2cSuccessIsReal` needs, on top of `I2cInv`, where a transfer stands (`Progress`,
  `Counted`): the messages before `curr_msg` have moved all their bytes, the
  current one all but `msg_buf_remaining`, and unless it is the last it has bytes
  left and is a write. So a handler that finds DONE and no bytes left is at the
  last message, whenever DONE came: the run that moves the last byte of a message
  also starts the next, and `xfer` refuses a read that is not last. An empty
  message breaks the first half, a stray handler run the rest, which is why the
  property leaves both out.
* `I2cTypeOK` rests on `Progress` too: `curr_msg` and `num_msgs` move together
  (`Positions`), the handler starts a next message only while `num_msgs` counts one
  (`StartCounts`), and `xfer` starts with one more counted than lie behind the first.
* `MmioTypeOK`, `MmioGetReadsLine`, `MmioImplementsGpioLines`. The inductive
  invariant `MmioInv` says, besides types and that `bgpio_lock` is held exactly
  between the read of a shadow and the write of its register: the shadow of the
  directions is the register, and that of the levels is right about every line
  that is driven (`Shadows`); what
  the holder is about to write differs from the register in its own lines only
  (`Copies`); and how far each call is (`Phase`, `Written`, `Asked`), which is what
  makes a level written before the direction one move of the line and not two.
* `Lpc32xxTypeOK`, `Lpc32xxReadsOwnBit`, `Lpc32xxImplementsGpioLines`. The table
  lemmas carry the argument: no two lines that can be driven share a bit of an
  output register (`LevelsApart`), none a direction bit (`DirectionsApart`),
  and but for one pair none an input bit (`InputsApart`); every change is one write to a
  set or clear register, so no lock is needed. `Lpc32xxInv` adds that what a call
  has still to write is all that is missing between the line and the request.
* `Ns2TypeOK`, `Ns2MuxHonoured`, `Ns2ConfiguredOnce`, `Ns2SettingsKept`,
  `Ns2TablesAgree`, for the driver's complete tables. In `Ns2Inv` the log decides
  (`MuxInv`): an entry once made never changes its value, a held group and a
  written field agree with it, and an entry whose field does not has a thread that
  is about to write it. That a thread which looked at the log before another made the
  entry overwrites it with the same value is not the lock's doing: groups that want
  different values of a field share a pin (`FieldShared`, from the tables), and
  the core has given that pin to one device. `ConfInv` is the read-modify-write
  argument for the configuration registers: pins of a register have separate bytes
  (`LanesApart`), fields separate bits (`FieldsApart`), and a field reads
  back as written (`PutHere`, `PutElsewhere`).
* `IprocTypeOK`, `IprocSettingsKept`, `IprocNoEdgeLost`, `IprocImplementsGpioLines`.
  `IprocInv` follows each call bit by bit: the value read under `chip->lock` is
  still the register's (`Locked`), and the bits a call has not written yet are
  those in which its pin still differs from what it was asked for (`LineWill` for
  the gpio calls, `SetWill` for bias and strength). `NoEdgeLost` is
  inductive with the types.
* `Bcm2835TypeOK`, `Bcm2835SettingsKept`, `Bcm2835CleanTransitions`,
  `Bcm2835DetectsByType`, `Bcm2835NoEventLeft`, `Bcm2835MapsRight`. `Bcm2835Inv` is
  one invariant for each part. `MuxInv`: a call's copy of the function register is
  right about every other pin that is not marked `raced`, and a pin is as asked
  for unless it is marked or a call on it is in progress. `IrqInv`: the operations the
  holder of a bank's lock has still to do lead its pin to exactly the detectors
  of its type and enable state, and at no moment on the way does a disabled pin
  detect anything or keep an event (`Leads`, `Covered`). `MapInv`: the entries made
  so far are those of the pins before `next`, and the configurations owned are
  those of the pull entries, whatever error ends the loop, so that
  `bcm2835_pctl_dt_free_map()` frees each of them and none twice.

Only model-checked: `Drains`, `InputIsRead`, `XferReturns`, `EdgeServed` and
`EventServed` (liveness under fairness, out of the prover's reach) and the three
violations.

## What the models show of the code beyond the properties

* `msg.c`, `peer.c`: after a send is put off the handler builds the next answer over
  the message in `tx_buff`, which is lost, and the answer is then in `tx_buff` and in
  the queue. `NoDuplicate` says what remains true.
* `i2c-foo.c`: nothing orders a handler run and the end of a transfer. After a
  time-out a handler that had read the status goes on with the old `curr_msg`, and
  its `complete()` may wake the next transfer. `remove()` frees the interrupt
  first; a transfer in between ends by its time-out.
* `gpio-mmio.c`: with an unreadable direction register the shadow starts at 0
  whatever the boot loader set, so the model assumes the reset value. With
  inverted directions and `READ_OUTPUT_REG_SET`, `bgpio_get_set()` tests the shadow
  the wrong way round; `GetReadsLine` says for which chips `get` is right.
* `pinctrl-ns2-mux.c`: the log is changed before the register, outside the lock, so
  a second group of the same mux may be told of success too early; entries are
  never reset, so pins cannot be given another function later.
* `pinctrl-bcm2835.c`: function select and pulls are read-modify-write sequences
  without a lock (see `raced`); a refused interrupt type still changes the flow
  handler; a failed `gpiochip_irqchip_add()` leaves the gpio chip registered.
* `pinctrl-iproc-gpio.c`: on NSP the unsupported drive strength can be written
  between the registration of pin configuration and the end of probe.

## Not modelled, and the plan

Server: start-up (`start_listen_socket`, options) is a straight line of system
calls that leads to `Init` or to `exit()`. Logging, addresses and keep-alive are
left out. Bytes in flight are not counted. The interactive client is outside;
`moonc_tcp-1` is the server's predecessor.

Drivers: device tree look-ups, debugfs output and `get` functions without a
decision are left out; in `pinctrl-iproc-gpio.c` `request`/`free` only forward to
the core and `irq_ack` is not called under `handle_simple_irq()`; in
`pinctrl-bcm2835.c` the failures of probe are not followed. The exercises
`gpio-foo*.c`, `i2c-foo2.c` and `pinctrl-my.c` are unfinished copies of parts of the
drivers that are modelled (the last does not compile); the character device,
platform device and module exercises are sequential registrations.

Every invariant and action property of the passing runs is proved for all values
of the constants; the liveness properties stay with TLC.
