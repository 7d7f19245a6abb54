------------------------------- MODULE Ns2Mux --------------------------------
(***************************************************************************)
(* The Northstar2 pin multiplexer (pinctrl-ns2-mux.c): which function the  *)
(* pins of a group have (ns2_pinmux_set), and the electrical settings of   *)
(* single pins (ns2_pin_config_set).  Registers are changed by reading,    *)
(* modifying and writing them under pinctrl->lock; the log that prevents a *)
(* mux from being configured twice is read and changed without it.         *)
(*                                                                         *)
(* External: the pin control core gives each pin of a group to one device  *)
(* before it calls set_mux, and takes the pins back when that fails or     *)
(* when the device lets go of the group.                                   *)
(***************************************************************************)
EXTENDS Integers, Sequences, FiniteSets, Functions, TLC

CONSTANTS Device, Wants,    \* Wants[d]: the groups device d may ask for
          ConfPins,         \* the pins that devices configure
          ConfCalls,        \* the configuration lists they pass
          BootMux, BootConf \* register contents a boot loader may leave

VARIABLES held,             \* <<device, group>>: set_mux succeeded, pins still held
          mux_log,          \* mux_log[i]: [alt, is_configured]
          mux,              \* the mux registers, by field: the slot's value
          conf,             \* the pin configuration registers, sets of bits
          lock, th,         \* pinctrl->lock; what each device's thread is doing
          written,          \* history: the slots set_mux has written
          want              \* history: the settings last made for each pin

vars == <<held, mux_log, mux, conf, lock, th, written, want>>

------------------------------------------------------------------------------
\* ns2_pins[]: pins 63 .. 118 can be configured, four to a register, except
\* that the registers of 107 and of 117 have two.
Register(p) == IF p < 107 THEN (p - 63) \div 4
               ELSE IF p < 109 THEN 11
               ELSE IF p < 117 THEN 13 + (p - 109) \div 4 ELSE 15
\* The lowest bit of the pin's byte in it.
Lane(p) == 24 - 8 * (IF p < 107 THEN (p - 63) % 4
                     ELSE IF p < 109 THEN p - 105
                     ELSE IF p < 117 THEN (p - 109) % 4 ELSE p - 115)
Configurable(p) == p >= 63

\* A plausible slip: the slew rate bit is one place too low.
shift_overlaps == [src |-> 6, input_en |-> 6, pull |-> 3, drive |-> 0]

\* Shift and width of a field in the pin's byte.
Shift == [src |-> 7, input_en |-> 6, pull |-> 3, drive |-> 0]
Width == [src |-> 1, input_en |-> 1, pull |-> 2, drive |-> 3]

\* ns2_pin_groups[]: name, pins, base, offset, shift, mask, alt.
G(name, pins, base, offset, shift, mask, alt) ==
    [name |-> name, pins |-> pins, slot |-> <<base, offset, shift>>, mask |-> mask, alt |-> alt]
Pad1(shift, pins, alts) == {G(name, pins, 0, 4, shift, 3, alts[name]) : name \in DOMAIN alts}

ns2_pin_groups ==
    {G("nand", 0 .. 23, 0, 0, 31, 1, 0), G("nor_data", 0 .. 25, 0, 0, 31, 1, 1),
     G("gpio_0_1", 24 .. 25, 0, 0, 31, 1, 0)}
    \cup Pad1(30, {26}, [uart1_ext_clk |-> 1, nor_adv |-> 2])
    \cup Pad1(28, 27 .. 30, [gpio_2_5 |-> 0, pcie_ab1_clk_wak |-> 1, nor_addr_0_3 |-> 2])
    \cup Pad1(26, 31 .. 32, [gpio_6_7 |-> 0, pcie_a3_clk_wak |-> 1, nor_addr_4_5 |-> 2])
    \cup Pad1(24, 33 .. 34, [gpio_8_9 |-> 0, pcie_b3_clk_wak |-> 1, nor_addr_6_7 |-> 2])
    \cup Pad1(22, 35 .. 36, [gpio_10_11 |-> 0, pcie_b2_clk_wak |-> 1, nor_addr_8_9 |-> 2])
    \cup Pad1(20, 37 .. 38, [gpio_12_13 |-> 0, pcie_a2_clk_wak |-> 1, nor_addr_10_11 |-> 2])
    \cup Pad1(18, 39 .. 42, [gpio_14_17 |-> 0, uart0_modem |-> 1, nor_addr_12_15 |-> 2])
    \cup Pad1(16, 43 .. 44, [gpio_18_19 |-> 0, uart0_rts_cts |-> 1])
    \cup Pad1(14, 45 .. 46, [gpio_20_21 |-> 0, uart0_in_out |-> 1])
    \cup Pad1(12, 47 .. 48, [gpio_22_23 |-> 0, uart1_dcd_dsr |-> 1])
    \cup Pad1(10, 49 .. 50, [gpio_24_25 |-> 0, uart1_ri_dtr |-> 1])
    \cup Pad1(8, 51 .. 52, [gpio_26_27 |-> 0, uart1_rts_cts |-> 1])
    \cup Pad1(6, 53 .. 54, [gpio_28_29 |-> 0, uart1_in_out |-> 1])
    \cup Pad1(4, 55 .. 56, [gpio_30_31 |-> 0, uart2_rts_cts |-> 1])
    \cup {G("pwm_0", {24}, 1, 0, 0, 1, 1), G("pwm_1", {25}, 1, 0, 1, 1, 1),
          G("pwm_2", {27}, 1, 0, 2, 1, 1), G("pwm_3", {28}, 1, 0, 3, 1, 1)}

\* ns2_pin_functions[]: the groups of each function.
ns2_pin_functions ==
    [nand |-> {"nand"},
     nor |-> {"nor_data", "nor_adv", "nor_addr_0_3", "nor_addr_4_5", "nor_addr_6_7",
              "nor_addr_8_9", "nor_addr_10_11", "nor_addr_12_15"},
     gpio |-> {"gpio_0_1", "gpio_2_5", "gpio_6_7", "gpio_8_9", "gpio_10_11", "gpio_12_13",
               "gpio_14_17", "gpio_18_19", "gpio_20_21", "gpio_22_23", "gpio_24_25",
               "gpio_26_27", "gpio_28_29", "gpio_30_31"},
     pcie |-> {"pcie_ab1_clk_wak", "pcie_a3_clk_wak", "pcie_b3_clk_wak", "pcie_b2_clk_wak",
               "pcie_a2_clk_wak"},
     uart0 |-> {"uart0_modem", "uart0_rts_cts", "uart0_in_out"},
     uart1 |-> {"uart1_ext_clk", "uart1_dcd_dsr", "uart1_ri_dtr", "uart1_rts_cts", "uart1_in_out"},
     uart2 |-> {"uart2_rts_cts"},
     pwm |-> {"pwm_0", "pwm_1", "pwm_2", "pwm_3"}]

\* A plausible slip: the log has one entry too few.
mux_log_short ==
    {<<0, 0, 31>>} \cup {<<0, 4, 32 - i * 2>> : i \in 1 .. 13} \cup {<<1, 0, i>> : i \in 0 .. 3}

\* ns2_mux_log_init(): the slots of the log.
mux_log_init ==
    {<<0, 0, 31>>} \cup {<<0, 4, 32 - i * 2>> : i \in 1 .. 14} \cup {<<1, 0, i>> : i \in 0 .. 3}

Group == [n \in {g.name : g \in ns2_pin_groups} |-> CHOOSE g \in ns2_pin_groups : g.name = n]

\* The devices ask for groups that exist; a register has 32 bits.
ASSUME Ns2Assumption ==
    /\ "none" \notin Device /\ Wants \in [Device -> SUBSET DOMAIN Group]
    /\ ConfPins \subseteq 0 .. 118 /\ ConfCalls \subseteq Seq([param : STRING, arg : Nat])
    /\ BootMux \subseteq 0 .. 3 /\ BootConf \subseteq SUBSET (0 .. 31)

UsedSlots == {Group[n].slot : n \in UNION {Wants[d] : d \in Device}}
SameRegister(s, r) == s[1] = r[1] /\ s[2] = r[2]

------------------------------------------------------------------------------
\* Fields are at most three bits wide.
BIT(i) == IF i = 0 THEN 1 ELSE IF i = 1 THEN 2 ELSE 4
Bits(v, width) == {i \in 0 .. width - 1 : (v \div BIT(i)) % 2 = 1}
Put(reg, p, f, v) ==
    LET low == Lane(p) + Shift[f]
    IN  (reg \ (low .. low + Width[f] - 1)) \cup {low + i : i \in Bits(v, Width[f])}
Get(reg, p, f) ==
    LET low == Lane(p) + Shift[f]
        bit(i) == IF i < Width[f] /\ low + i \in reg THEN BIT(i) ELSE 0
    IN  bit(0) + bit(1) + bit(2)

\* ns2_pin_set_pull(), _set_strength(), _set_slew(), _set_enable(): the field
\* of a configuration, or none if it is not supported, and the value.
Pulls == {"bias_disable", "bias_pull_up", "bias_pull_down"}
Field(c) ==
    IF c.param \in Pulls THEN "pull"
    ELSE IF c.param = "slew_rate" THEN "src"
    ELSE IF c.param = "input_enable" THEN "input_en"
    ELSE IF c.param = "drive_strength" /\ c.arg \in 2 .. 16 /\ c.arg % 2 = 0 THEN "drive" ELSE "none"
Value(c) ==
    IF c.param \in Pulls THEN (IF c.param = "bias_disable" THEN 0 ELSE IF c.param = "bias_pull_up" THEN 1 ELSE 2)
    ELSE IF c.param = "slew_rate" THEN (IF c.arg # 0 THEN 1 ELSE 0)
    ELSE IF c.param = "input_enable" THEN (IF c.arg # 0 THEN 0 ELSE 1)
    ELSE c.arg \div 2 - 1

\* ns2_pin_get_pull(), _get_strength(), _get_slew(), _get_enable(), as
\* ns2_pin_config_get() reports them: the configuration the pin has.
config_get(p) ==
    LET get(f) == Get(conf[Register(p)], p, f)
    IN  [pull |-> get("pull"), drive |-> (get("drive") + 1) * 2,
         src |-> get("src"), input_en |-> IF get("input_en") = 0 THEN 1 ELSE 0]

Idle == [pc |-> "idle", grp |-> "", pin |-> 0, todo |-> <<>>, tmp |-> << >>]
Registers == {Register(p) : p \in ConfPins \ 0 .. 62}

\* The log is empty and no group is held; the registers are as booted.
Init ==
    /\ held = {}
    /\ mux_log = [s \in mux_log_init |-> [alt |-> 0, is_configured |-> FALSE]]
    /\ mux \in [UsedSlots -> BootMux] /\ conf \in [Registers -> BootConf]
    /\ lock = "none" /\ th = [d \in Device |-> Idle]
    /\ written = {}
    /\ want = [p \in {q \in ConfPins : Configurable(q)} |-> config_get(p)]

Goto(d, pc, tmp) == th' = [th EXCEPT ![d].pc = pc, ![d].tmp = tmp]
Return(d) == th' = [th EXCEPT ![d] = Idle]

\* External: the core claims the pins of a group, then calls set_mux.
Muxing(d) == th[d].pc \in {"scan", "log", "mux", "write mux"}
Claimed(d) == UNION ({Group[h[2]].pins : h \in {k \in held : k[1] # d}} \cup
                     {Group[th[e].grp].pins : e \in {k \in Device \ {d} : Muxing(k)}})
Enable(d, g) ==
    /\ th[d].pc = "idle" /\ <<d, g>> \notin held
    /\ Group[g].pins \cap Claimed(d) = {}
    /\ th' = [th EXCEPT ![d] = [Idle EXCEPT !.pc = "scan", !.grp = g]]
    /\ UNCHANGED <<held, mux_log, mux, conf, lock, written, want>>

Disable(d, g) ==
    /\ th[d].pc = "idle" /\ <<d, g>> \in held
    /\ held' = held \ {<<d, g>>}
    /\ UNCHANGED <<mux_log, mux, conf, lock, th, written, want>>

\* A plausible slip: a mux that was configured is not told from a new one.
scan_no_check(d) ==
    /\ th[d].pc = "scan"
    /\ Goto(d, "log", << >>)
    /\ UNCHANGED <<held, mux_log, mux, conf, lock, written, want>>

\* A plausible slip: the value configured is not compared.
scan_no_compare(d) ==
    LET g == Group[th[d].grp]
    IN  /\ th[d].pc = "scan"
        /\ IF mux_log[g.slot].is_configured
           THEN held' = held \cup {<<d, g.name>>} /\ Return(d)
           ELSE UNCHANGED held /\ Goto(d, "log", << >>)
        /\ UNCHANGED <<mux_log, mux, conf, lock, written, want>>

\* ns2_pinmux_set(): look for the slot in the log.
Scan(d) ==
    LET g == Group[th[d].grp]
        found == g.slot \in mux_log_init
        fresh == found /\ ~ mux_log[g.slot].is_configured
        same == found /\ ~ fresh /\ mux_log[g.slot].alt = g.alt
    IN  /\ th[d].pc = "scan"
        /\ IF fresh THEN Goto(d, "log", << >>) ELSE Return(d)
        /\ held' = IF same THEN held \cup {<<d, g.name>>} ELSE held   \* 0, else -EINVAL
        /\ UNCHANGED <<mux_log, mux, conf, lock, written, want>>

\* It is new: enter it in the log ...
Log(d) ==
    LET g == Group[th[d].grp]
    IN  /\ th[d].pc = "log"
        /\ mux_log' = [mux_log EXCEPT ![g.slot] = [alt |-> g.alt, is_configured |-> TRUE]]
        /\ Goto(d, "mux", << >>)
        /\ UNCHANGED <<held, mux, conf, lock, written, want>>

\* A plausible slip: the register is read before the lock is taken.
lock_mux_missing(d) ==
    /\ th[d].pc = "mux"
    /\ Goto(d, "write mux", mux)
    /\ UNCHANGED <<held, mux_log, mux, conf, lock, written, want>>

\* ... read its register under the lock, and write the field.
LockMux(d) ==
    /\ th[d].pc = "mux" /\ lock = "none"
    /\ lock' = d
    /\ Goto(d, "write mux", mux)
    /\ UNCHANGED <<held, mux_log, mux, conf, written, want>>

WriteMux(d) ==
    LET g == Group[th[d].grp]
    IN  /\ th[d].pc = "write mux"
        /\ mux' = [s \in UsedSlots |->
                     IF s = g.slot THEN g.alt
                     ELSE IF SameRegister(s, g.slot) THEN th[d].tmp[s] ELSE mux[s]]
        /\ lock' = "none"
        /\ held' = held \cup {<<d, g.name>>}
        /\ written' = written \cup {g.slot}
        /\ Return(d)
        /\ UNCHANGED <<mux_log, conf, want>>

------------------------------------------------------------------------------
\* ns2_pin_config_set(): the configurations in turn, up to the first that is
\* not supported.
ConfigSet(d, p, cs) ==
    /\ th[d].pc = "idle" /\ Configurable(p)
    /\ th' = [th EXCEPT ![d] = [Idle EXCEPT !.pc = "conf", !.pin = p, !.todo = cs]]
    /\ UNCHANGED <<held, mux_log, mux, conf, lock, written, want>>

ConfigEnd(d) ==
    /\ th[d].pc = "conf"
    /\ IF th[d].todo = <<>> THEN TRUE ELSE Field(Head(th[d].todo)) = "none"
    /\ Return(d)
    /\ UNCHANGED <<held, mux_log, mux, conf, lock, written, want>>

LockConf(d) ==
    /\ th[d].pc = "conf" /\ lock = "none"
    /\ th[d].todo # <<>> /\ Field(Head(th[d].todo)) # "none"
    /\ lock' = d
    /\ Goto(d, "write conf", conf[Register(th[d].pin)])
    /\ UNCHANGED <<held, mux_log, mux, conf, written, want>>

WriteConf(d) ==
    LET p == th[d].pin
        c == Head(th[d].todo)
        f == Field(c)
    IN  /\ th[d].pc = "write conf"
        /\ conf' = [conf EXCEPT ![Register(p)] = Put(th[d].tmp, p, f, Value(c))]
        /\ want' = [want EXCEPT ![p][f] =
                      IF f = "pull" THEN Value(c) ELSE IF f = "drive" THEN c.arg
                      ELSE IF c.arg # 0 THEN 1 ELSE 0]
        /\ lock' = "none"
        /\ th' = [th EXCEPT ![d].pc = "conf", ![d].todo = Tail(@), ![d].tmp = << >>]
        /\ UNCHANGED <<held, mux_log, mux, written>>

Next == \E d \in Device :
    \/ \E g \in Wants[d] : Enable(d, g) \/ Disable(d, g)
    \/ Scan(d) \/ Log(d) \/ LockMux(d) \/ WriteMux(d)
    \/ \E p \in ConfPins, cs \in ConfCalls : ConfigSet(d, p, cs)
    \/ ConfigEnd(d) \/ LockConf(d) \/ WriteConf(d)

Spec == Init /\ [][Next]_vars

------------------------------------------------------------------------------
\* Types, and the lock is held by exactly the device that is between reading a
\* register and writing it.
TypeOK ==
    /\ held \subseteq {h \in Device \X UNION {Wants[d] : d \in Device} : h[2] \in Wants[h[1]]}
    /\ \A s \in mux_log_init : mux_log[s].alt \in 0 .. 3 /\ mux_log[s].is_configured \in BOOLEAN
    /\ mux \in [UsedSlots -> 0 .. 3]
    /\ conf \in [Registers -> SUBSET (0 .. 31)]
    /\ written \subseteq UsedSlots
    /\ \A d \in Device : lock = d <=> th[d].pc \in {"write mux", "write conf"}

\* A device that holds a group has the function it asked for on its pins,
\* although the log is read and changed without the lock: what set_mux told it
\* stays true.  Until the write that the log announces is done it need not yet
\* be: a second group of the same field is told so too early.
MuxHonoured ==
    \A h \in held :
        LET g == Group[h[2]]
        IN  \/ mux[g.slot] = g.alt
            \/ \E d \in Device : th[d].pc \in {"mux", "write mux"} /\ Group[th[d].grp].slot = g.slot

\* "Keep track of Northstar2 IOMUX configuration and prevent double
\* configuration": a field that set_mux has written never changes again.
ConfiguredOnce == [][\A s \in written : mux'[s] = mux[s]]_vars

\* The settings made for a pin are the ones that are read back, whatever is
\* done to the other pins of its register, in parallel or not.
SettingsKept == \A p \in DOMAIN want : want[p] = config_get(p)

\* The tables: every group's field is in the log and holds its value, and two
\* groups that want different values of one field share a pin, so that the
\* core never lets both be held; every function has groups that exist.
TablesAgree ==
    /\ \A g \in ns2_pin_groups : g.slot \in mux_log_init /\ g.alt <= g.mask
    /\ \A g, h \in ns2_pin_groups :
          g.slot = h.slot /\ g.alt # h.alt => g.pins \cap h.pins # {}
    /\ UNION Range(ns2_pin_functions) = {g.name : g \in ns2_pin_groups}
    /\ held \subseteq Device \X UNION Range(ns2_pin_functions)
==============================================================================
