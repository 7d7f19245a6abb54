------------------------------ MODULE IprocGpio ------------------------------
(***************************************************************************)
(* The iProc GPIO controller (pinctrl-iproc-gpio.c): levels, directions,   *)
(* interrupts, pull resistors and drive strengths of the pins.  Every      *)
(* setting is one bit per pin in registers shared by the 32 pins of a      *)
(* bank, read, modified and written under chip->lock.  The interrupt       *)
(* handler clears and handles the pending pins without the lock.           *)
(*                                                                         *)
(* A register is the set of pins whose bit is set.  A call is the sequence *)
(* of bits it sets or clears while it holds the lock.  External: the       *)
(* interrupt status is latched when an enabled edge or level occurs, and   *)
(* INT_MSTAT shows the latched pins whose INT_MSK bit is set; a child      *)
(* handler starts, and returns, without touching the registers.            *)
(***************************************************************************)
EXTENDS Integers, Sequences, FiniteSets, Functions, FiniteSetsExt

CONSTANTS Pin, Thread, Owner,   \* Owner[p]: the thread that works on pin p
          Chips,                \* the controllers: [ngpio, io_ctrl, nsp, stingray],
                                \* with the pins in use, the kind of calls made and the
                                \* pins whose bits the boot loader set
          IrqTypes, ConfCalls   \* the types and the configuration lists passed

NGPIOS_PER_BANK == 32

\* The strength registers at io_ctrl are not found by bank: a controller that has
\* them is taken to have one bank, which the driver leaves to its device tree.
ASSUME IprocAssumption ==
    /\ Pin \subseteq Nat /\ Owner \in [Pin -> Thread] /\ "none" \notin Thread
    /\ \A c \in Chips :
          /\ c.ngpio \in Nat /\ c.pins \subseteq Pin /\ c.boot \subseteq {p \in c.pins : p < c.ngpio}
          /\ c.io_ctrl => c.ngpio <= NGPIOS_PER_BANK
    /\ ConfCalls \subseteq Seq(STRING \X Nat)

VARIABLES chip,                 \* one of Chips
          probe,                \* how far iproc_gpio_probe() is
          reg, stat,            \* the registers, INT_STAT
          lock, th,             \* chip->lock; what each thread is doing
          input,                \* the pins other devices hold high
          hnd,                  \* the interrupt handler
          want, set, due        \* history: line states and settings requested;
                                \* edges since the pin's child handler started
vars == <<chip, probe, reg, stat, lock, th, input, hnd, want, set, due>>

Drv == <<"DRV0", "DRV1", "DRV2">>
BIT == <<1, 2, 4>>
Names == {"DATA_OUT", "OUT_EN", "INT_TYPE", "INT_DE", "INT_EDGE", "INT_MSK", "PAD_RES", "RES_EN"}
             \cup Range(Drv)
Line == {p \in chip.pins : p < chip.ngpio}
Bank(b) == {p \in Line : p \div NGPIOS_PER_BANK = b}

\* A plausible slip: the last bank, only partly used, is not counted.
banks_rounded_down == chip.ngpio \div NGPIOS_PER_BANK

num_banks == (chip.ngpio + NGPIOS_PER_BANK - 1) \div NGPIOS_PER_BANK

\* IPROC_GPIO_REG and IPROC_GPIO_SHIFT: with io_ctrl the drive strength
\* registers are the same for every bank.
Cell(n, p) == IF n \in Range(Drv) /\ chip.io_ctrl THEN p % NGPIOS_PER_BANK ELSE p
SameRegister(c) == {d \in Pin : d \div NGPIOS_PER_BANK = c \div NGPIOS_PER_BANK}

iproc_get_bit(n, p) == Cell(n, p) \in reg[n]

\* The state of a line, and of the requests, as its users see them.
Level(v) == IF v THEN "high" ELSE "low"
st == [p \in Pin |-> IF iproc_get_bit("OUT_EN", p) THEN Level(iproc_get_bit("DATA_OUT", p)) ELSE "in"]
busy == IF chip.calls = "gpio" THEN {th[t].pin : t \in {t \in Thread : th[t].pc # "idle"}} ELSE {}

------------------------------------------------------------------------------
\* What the calls do: the bits, in order.  irq_set_type() knows five types.
Bit(n, v) == [reg |-> n, on |-> v]
direction_input(p) == <<Bit("OUT_EN", FALSE)>>
direction_output(p, v) == <<Bit("OUT_EN", TRUE), Bit("DATA_OUT", v)>>
set_level(p, v) == <<Bit("DATA_OUT", v)>>
set_mask(p, unmask) == <<Bit("INT_MSK", unmask)>>
set_type(p, type) ==
    <<Bit("INT_TYPE", type \in {"high", "low"}), Bit("INT_DE", type = "both"),
      Bit("INT_EDGE", type \in {"rising", "high"})>>
set_pull(p, disable, up) ==
    IF disable THEN <<Bit("RES_EN", FALSE)>> ELSE <<Bit("PAD_RES", up), Bit("RES_EN", TRUE)>>

\* A plausible slip: the strength is stored without subtracting one.
strength_off_by_one(p, s) ==
    IF s \in 2 .. 16 /\ s % 2 = 0
    THEN [i \in 1 .. 3 |-> Bit(Drv[i], ((s \div 2) \div BIT[i]) % 2 = 1)]
    ELSE <<>>

set_strength(p, s) ==
    IF s \in 2 .. 16 /\ s % 2 = 0
    THEN [i \in 1 .. 3 |-> Bit(Drv[i], ((s \div 2 - 1) \div BIT[i]) % 2 = 1)]
    ELSE <<>>                                          \* -ENOTSUPP

\* A plausible slip: the disabled parameters are forgotten.
nothing_is_disabled(param) == FALSE

\* iproc_pinconf_param_is_disabled(); the map is made at the end of probe().
param_is_disabled(param) == probe = "ready" /\ chip.nsp /\ param = "drive_strength"

\* iproc_pin_config_set(): the bits for one parameter, none if it is refused.
config_bits(p, c) ==
    IF param_is_disabled(c[1]) THEN <<>>
    ELSE IF c[1] = "bias_disable" THEN set_pull(p, TRUE, FALSE)
    ELSE IF c[1] = "bias_pull_up" THEN set_pull(p, FALSE, TRUE)
    ELSE IF c[1] = "bias_pull_down" THEN set_pull(p, FALSE, FALSE)
    ELSE IF c[1] = "drive_strength" THEN set_strength(p, c[2])
    ELSE <<>>

\* iproc_pin_config_get(): the bias and the strength in mA that are read back.
config_get(p) ==
    LET bit(i) == IF iproc_get_bit(Drv[i], p) THEN BIT[i] ELSE 0
    IN  [bias |-> IF ~ iproc_get_bit("RES_EN", p) THEN "bias_disable"
                  ELSE IF iproc_get_bit("PAD_RES", p) THEN "bias_pull_up" ELSE "bias_pull_down",
         strength |-> (bit(1) + bit(2) + bit(3) + 1) * 2]

\* What a parameter asks for, and whether the controller supports it.
Supported(c) ==
    \/ c[1] \in {"bias_disable", "bias_pull_up", "bias_pull_down"}
    \/ c[1] = "drive_strength" /\ c[2] \in {2, 4, 6, 8, 10, 12, 14, 16}
         /\ ~ (chip.nsp /\ probe = "ready")
Wanted(s, c) == IF c[1] = "drive_strength" THEN [s EXCEPT !.strength = c[2]] ELSE [s EXCEPT !.bias = c[1]]

------------------------------------------------------------------------------
Idle == [pc |-> "idle", pin |-> 0, bits |-> <<>>, conf |-> <<>>, tmp |-> {}]
Quiet == [pc |-> "idle", bank |-> 0, bits |-> {}, pin |-> 0]

\* One controller, its registers as the boot loader left them.
Init ==
    /\ chip \in Chips
    /\ probe = "start"
    /\ reg = [n \in Names |-> chip.boot]
    /\ stat = {} /\ input = {} /\ due = {}
    /\ lock = "none" /\ th = [t \in Thread |-> Idle]
    /\ hnd = Quiet
    /\ want = st
    /\ set = [p \in Line |-> config_get(p)]

\* iproc_gpio_probe(): add the GPIO chip, then the pin configuration, then
\* (for NSP) the disabled parameters, and the interrupt; a failure removes
\* the chip again.
Probe ==
    /\ \/ probe = "start" /\ probe' \in {"gpio", "failed"}
       \/ probe = "gpio" /\ probe' \in {IF chip.stingray THEN "ready" ELSE "pinconf", "failed"}
       \/ probe = "pinconf" /\ probe' \in {"ready", "failed"}
    /\ UNCHANGED <<chip, reg, stat, lock, th, input, hnd, want, set, due>>

Begin(t, p, bits) ==
    /\ th[t].pc = "idle" /\ Owner[p] = t /\ p \in Line
    /\ th' = [th EXCEPT ![t] = [Idle EXCEPT !.pc = "read", !.pin = p, !.bits = bits]]
    /\ UNCHANGED <<chip, probe, reg, stat, lock, input, hnd, set, due>>

\* The gpio_chip and irq_chip calls.
GpioCall(t, p) ==
    /\ chip.calls = "gpio" /\ probe \in {"gpio", "pinconf", "ready"}
    /\ \/ Begin(t, p, direction_input(p)) /\ want' = [want EXCEPT ![p] = "in"]
       \/ \E v \in BOOLEAN :
             \/ Begin(t, p, direction_output(p, v)) /\ want' = [want EXCEPT ![p] = Level(v)]
             \/ /\ Begin(t, p, set_level(p, v))
                /\ want' = [want EXCEPT ![p] = IF @ = "in" THEN @ ELSE Level(v)]

IrqCall(t, p) ==
    /\ chip.calls = "irq" /\ probe = "ready"
    /\ \/ \E unmask \in BOOLEAN : Begin(t, p, set_mask(p, unmask))
       \/ \E type \in IrqTypes : Begin(t, p, set_type(p, type))
    /\ UNCHANGED want

\* iproc_pin_config_set(), one parameter after the other.
ConfigSet(t, p, cs) ==
    /\ chip.calls = "conf" /\ probe \in {"pinconf", "ready"} /\ ~ chip.stingray
    /\ th[t].pc = "idle" /\ Owner[p] = t /\ p \in Line
    /\ th' = [th EXCEPT ![t] = [Idle EXCEPT !.pc = "conf", !.pin = p, !.conf = cs]]
    /\ UNCHANGED <<chip, probe, reg, stat, lock, input, hnd, want, set, due>>

ConfigParam(t) ==
    LET c == Head(th[t].conf)
        p == th[t].pin
    IN  /\ th[t].pc = "conf"
        /\ IF th[t].conf = <<>> \/ config_bits(p, c) = <<>>
           THEN th' = [th EXCEPT ![t] = Idle]
           ELSE th' = [th EXCEPT ![t].pc = "read", ![t].bits = config_bits(p, c), ![t].conf = Tail(@)]
        /\ set' = IF th[t].conf # <<>> /\ Supported(c) THEN [set EXCEPT ![p] = Wanted(@, c)] ELSE set
        /\ UNCHANGED <<chip, probe, reg, stat, lock, input, hnd, want, due>>

\* A plausible slip: the register is read without the lock.
read_unlocked(t) ==
    LET n == Head(th[t].bits).reg
    IN  /\ th[t].pc = "read"
        /\ th' = [th EXCEPT ![t].pc = "write", ![t].tmp = reg[n] \cap SameRegister(Cell(n, th[t].pin))]
        /\ UNCHANGED <<chip, probe, reg, stat, lock, input, hnd, want, set, due>>

\* iproc_set_bit(), inside raw_spin_lock_irqsave(): read the register ...
ReadReg(t) ==
    LET n == Head(th[t].bits).reg
    IN  /\ th[t].pc = "read" /\ lock \in {"none", t}
        /\ lock' = t
        /\ th' = [th EXCEPT ![t].pc = "write", ![t].tmp = reg[n] \cap SameRegister(Cell(n, th[t].pin))]
        /\ UNCHANGED <<chip, probe, reg, stat, input, hnd, want, set, due>>

\* ... and write it; after the last bit the lock is released.
WriteReg(t) ==
    LET n == Head(th[t].bits).reg
        c == Cell(n, th[t].pin)
        rest == Tail(th[t].bits)
    IN  /\ th[t].pc = "write"
        /\ reg' = [reg EXCEPT ![n] = (@ \ SameRegister(c)) \cup
                     (IF Head(th[t].bits).on THEN th[t].tmp \cup {c} ELSE th[t].tmp \ {c})]
        /\ IF rest # <<>>
           THEN th' = [th EXCEPT ![t].pc = "read", ![t].bits = rest] /\ UNCHANGED lock
           ELSE /\ lock' = "none"
                /\ th' = [th EXCEPT ![t] = IF chip.calls = "conf"
                            THEN [th[t] EXCEPT !.pc = "conf", !.bits = <<>>, !.tmp = {}]
                            ELSE Idle]
        /\ UNCHANGED <<chip, probe, stat, input, hnd, want, set, due>>

------------------------------------------------------------------------------
\* External: a pin changes; an edge the pin is set to detect is latched.
Toggle(p) ==
    LET rises == p \notin input
        edge == /\ ~ iproc_get_bit("INT_TYPE", p)
                /\ iproc_get_bit("INT_DE", p) \/ (iproc_get_bit("INT_EDGE", p) <=> rises)
    IN  /\ chip.calls = "irq" /\ probe = "ready" /\ p \in Line
        /\ input' = IF rises THEN input \cup {p} ELSE input \ {p}
        /\ stat' = IF edge THEN stat \cup {p} ELSE stat
        /\ due' = IF edge THEN due \cup {p} ELSE due
        /\ UNCHANGED <<chip, probe, reg, lock, th, hnd, want, set>>

\* External: a level the pin is set to detect is latched as long as it lasts.
Latch(p) ==
    /\ chip.calls = "irq" /\ p \in Line \ stat
    /\ iproc_get_bit("INT_TYPE", p) /\ (iproc_get_bit("INT_EDGE", p) <=> p \in input)
    /\ stat' = stat \cup {p}
    /\ UNCHANGED <<chip, probe, reg, lock, th, input, hnd, want, set, due>>

MSTAT(b) == stat \cap reg["INT_MSK"] \cap Bank(b)

\* iproc_gpio_irq_handler(): bank after bank, read what is pending ...
HandlerEnter ==
    /\ hnd.pc = "idle" /\ probe = "ready"
    /\ stat \cap reg["INT_MSK"] # {}
    /\ hnd' = [Quiet EXCEPT !.pc = "bank"]
    /\ UNCHANGED <<chip, probe, reg, stat, lock, th, input, want, set, due>>

HandlerBank ==
    /\ hnd.pc = "bank"
    /\ hnd' = IF hnd.bank = num_banks THEN Quiet
              ELSE [hnd EXCEPT !.pc = "pin", !.bits = MSTAT(hnd.bank)]
    /\ UNCHANGED <<chip, probe, reg, stat, lock, th, input, want, set, due>>

\* ... and for each pin in turn clear it, "so we do not leave any window", ...
HandlerClear ==
    /\ hnd.pc = "pin"
    /\ IF hnd.bits = {}
       THEN hnd' = [hnd EXCEPT !.pc = "bank", !.bank = @ + 1] /\ UNCHANGED stat
       ELSE /\ hnd' = [hnd EXCEPT !.pc = "invoke", !.pin = Min(hnd.bits), !.bits = @ \ {Min(hnd.bits)}]
            /\ stat' = stat \ {Min(hnd.bits)}
    /\ UNCHANGED <<chip, probe, reg, lock, th, input, want, set, due>>

\* ... and invoke its child handler.
HandlerInvoke ==
    /\ hnd.pc = "invoke"
    /\ hnd' = [hnd EXCEPT !.pc = "child"]
    /\ due' = due \ {hnd.pin}
    /\ UNCHANGED <<chip, probe, reg, stat, lock, th, input, want, set>>

\* A plausible slip: the interrupt is cleared once it has been handled.
handler_clears_late ==
    /\ hnd.pc = "child"
    /\ hnd' = [hnd EXCEPT !.pc = "pin"]
    /\ stat' = stat \ {hnd.pin}
    /\ UNCHANGED <<chip, probe, reg, lock, th, input, want, set, due>>

HandlerReturn ==
    /\ hnd.pc = "child"
    /\ hnd' = [hnd EXCEPT !.pc = "pin"]
    /\ UNCHANGED <<chip, probe, reg, stat, lock, th, input, want, set, due>>

Handler == HandlerEnter \/ HandlerBank \/ HandlerClear \/ HandlerInvoke \/ HandlerReturn

Next ==
    \/ Probe
    \/ \E t \in Thread, p \in Pin :
          GpioCall(t, p) \/ IrqCall(t, p) \/ \E cs \in ConfCalls : ConfigSet(t, p, cs)
    \/ \E t \in Thread : ConfigParam(t) \/ ReadReg(t) \/ WriteReg(t)
    \/ \E p \in Pin : Toggle(p) \/ Latch(p)
    \/ Handler

\* A pending interrupt is handled: the handler, once entered, goes on.
Spec == Init /\ [][Next]_vars /\ WF_vars(Handler)

------------------------------------------------------------------------------
\* Types, and a thread that writes a register has held the lock since it read it.
TypeOK ==
    /\ chip \in Chips /\ probe \in {"start", "gpio", "pinconf", "ready", "failed"}
    /\ reg \in [Names -> SUBSET Line] /\ stat \subseteq Line /\ due \subseteq Line
    /\ want \in [Pin -> {"in", "low", "high"}]
    /\ hnd.bits \subseteq Line /\ hnd.bank \in 0 .. num_banks
    /\ \A t \in Thread : th[t].pc = "write" => lock = t

Lines == INSTANCE GpioLines WITH Line <- Pin

\* Lines behave as GpioLines says, in parallel or not, except that
\* direction_output() enables the output before it sets the level.
ImplementsGpioLines == Lines!GlitchSpec

\* When no call works on a pin, its bias and strength read back as what the
\* supported parameters of the calls asked for, whatever is done to the other
\* pins of the bank, and an NSP controller's strength is left alone.
SettingsKept ==
    \A p \in Line : (\A t \in Thread : th[t].pc # "idle" => th[t].pin # p) => config_get(p) = set[p]

\* "Clear the interrupt before invoking the handler, so we do not leave any
\* window": an edge after the child handler started is still latched.
NoEdgeLost == due \subseteq stat \cup (IF hnd.pc = "invoke" THEN {hnd.pin} ELSE {})

\* An edge of an unmasked pin, in whatever bank, reaches its child handler.
EdgeServed ==
    \A p \in Pin : (p \in due /\ p \in reg["INT_MSK"]) ~> (p \notin due \/ p \notin reg["INT_MSK"])
==============================================================================
