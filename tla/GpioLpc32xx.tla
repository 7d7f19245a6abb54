----------------------------- MODULE GpioLpc32xx -----------------------------
(***************************************************************************)
(* The LPC32xx GPIO driver (gpio-lpc32xx.c): six gpio chips over one       *)
(* register block.  gpio_p3, gpi_p3 and gpo_p3 share the P3 output and     *)
(* input registers, and gpio_p3 shares the direction registers of gpio_p2. *)
(* There is no lock: a level or a direction is changed by one write to a   *)
(* set or a clear register, direction_output() by two.  A register is the  *)
(* set of its bits that are 1; a line is a pair <<chip, pin>>.             *)
(***************************************************************************)
EXTENDS Integers, Sequences, FiniteSets, Functions, TLC

CONSTANTS Spec_args,    \* the <<bank, pin>> of the consumers' device tree nodes
          Boot,         \* the values a boot loader may leave in a register
          AddFails      \* the sets of chips devm_gpiochip_add_data() may refuse

ASSUME Lpc32xxAssumption == Boot \subseteq SUBSET (0 .. 31)

VARIABLES added,        \* the chips registered by probe
          owned,        \* the lines consumers have requested
          outp, dirs,   \* the output and direction registers
          call,         \* the call in progress on each line
          want          \* history: the state last requested of each line

vars == <<added, owned, outp, dirs, call, want>>

------------------------------------------------------------------------------
\* lpc32xx_gpiochip[], in the order of its banks.
lpc32xx_gpiochip == <<"gpio_p0", "gpio_p1", "gpio_p2", "gpio_p3", "gpi_p3", "gpo_p3">>
Chips == {lpc32xx_gpiochip[i] : i \in 1 .. 6}
ngpio == [gpio_p0 |-> 8, gpio_p1 |-> 24, gpio_p2 |-> 13, gpio_p3 |-> 6, gpi_p3 |-> 29, gpo_p3 |-> 24]
AllLines == UNION {{c} \X (0 .. ngpio[c] - 1) : c \in Chips}
Named == AllLines \ ({"gpi_p3"} \X (10 .. 14))

\* gpio_grp_regs_p0 .. gpio_grp_regs_p3.
outp_reg == [gpio_p0 |-> "P0", gpio_p1 |-> "P1", gpio_p2 |-> "P2",
             gpio_p3 |-> "P3", gpi_p3 |-> "P3", gpo_p3 |-> "P3"]
dir_reg == [gpio_p0 |-> "P0", gpio_p1 |-> "P1", gpio_p2 |-> "P2",
            gpio_p3 |-> "P2", gpi_p3 |-> "P2", gpo_p3 |-> "P2"]

\* A plausible slip: the pins of gpio_p3 are not shifted.
bit_unshifted(l) == l[2]

\* GPIO012_PIN_TO_BIT, GPIO3_PIN_TO_BIT, GPO3_PIN_TO_BIT.
PIN_TO_BIT(l) == IF l[1] = "gpio_p3" THEN l[2] + 25 ELSE l[2]

\* A plausible slip: the input of the sixth pin is taken to follow the others.
shift_contiguous(l) == IF l[1] = "gpio_p3" THEN 10 + l[2] ELSE l[2]

\* The bit of inp_state a line is read from: GPIO012_PIN_IN_SEL,
\* GPIO3_PIN_IN_SHIFT, GPI3_PIN_IN_SEL.
PIN_IN_SHIFT(l) ==
    IF l[1] # "gpio_p3" THEN l[2] ELSE IF l[2] = 5 THEN 24 ELSE 10 + l[2]

\* The primitives of each chip: gpi_p3 cannot drive, gpo_p3 always drives.
HasDirection(l) == l[1] \notin {"gpi_p3", "gpo_p3"}
drives(l) == IF HasDirection(l) THEN PIN_TO_BIT(l) \in dirs[dir_reg[l[1]]] ELSE l[1] = "gpo_p3"
Level(v) == IF v THEN "high" ELSE "low"

\* lpc32xx_of_xlate() and lpc32xx_gpio_request(): the line of a device tree
\* node, when its bank is registered and has the pin.
Line == {l \in AllLines : \E a \in Spec_args :
            a[1] < 6 /\ l = <<lpc32xx_gpiochip[a[1] + 1], a[2]>>}
st == [l \in Line |-> IF drives(l) THEN Level(PIN_TO_BIT(l) \in outp[outp_reg[l[1]]]) ELSE "in"]

Idle == [pc |-> "idle"]

Init ==
    /\ added = {} /\ owned = {}
    /\ \E b \in Boot : outp = [r \in {"P0", "P1", "P2", "P3"} |-> b]
    /\ \E b \in Boot : dirs = [r \in {"P0", "P1", "P2"} |-> b]
    /\ call = [l \in Line |-> Idle]
    /\ want = st

\* lpc32xx_gpio_probe(): the chips are added in turn, and it is not noticed
\* when that fails.
probe ==
    /\ added = {}
    /\ \E F \in AddFails : added' = Chips \ F
    /\ UNCHANGED <<owned, outp, dirs, call, want>>

\* A plausible slip: of_xlate does not compare the chip.
request_any_chip(l) ==
    /\ added # {} /\ l \notin owned
    /\ owned' = owned \cup {l}
    /\ UNCHANGED <<added, outp, dirs, call, want>>

request(l) ==
    /\ l[1] \in added /\ l \notin owned
    /\ owned' = owned \cup {l}
    /\ UNCHANGED <<added, outp, dirs, call, want>>

------------------------------------------------------------------------------
Call(l, c, w) ==
    /\ l \in owned /\ call[l] = Idle
    /\ call' = [call EXCEPT ![l] = c]
    /\ want' = [want EXCEPT ![l] = w]
    /\ UNCHANGED <<added, owned, outp, dirs>>

\* set: gpi_p3 has none.
set_value(l, v) ==
    /\ l[1] # "gpi_p3"
    /\ Call(l, [pc |-> "level", high |-> v, out |-> FALSE],
            IF drives(l) THEN Level(v) ELSE "in")

\* direction_output: gpi_p3 has none, lpc32xx_gpio_dir_out_always() only sets.
dir_output(l, v) ==
    /\ l[1] # "gpi_p3"
    /\ Call(l, [pc |-> "level", high |-> v, out |-> HasDirection(l)], Level(v))

\* direction_input: gpo_p3 has none, lpc32xx_gpio_dir_in_always() does nothing.
dir_input(l) ==
    /\ HasDirection(l)
    /\ Call(l, [pc |-> "dir", input |-> TRUE], "in")

Write(reg, r, b, one) == [reg EXCEPT ![r] = IF one THEN @ \cup {b} ELSE @ \ {b}]

\* A plausible slip: the direction is set before the level.
level_after_dir(l) ==
    /\ call[l].pc = "level"
    /\ IF call[l].out
       THEN /\ dirs' = Write(dirs, dir_reg[l[1]], PIN_TO_BIT(l), TRUE)
            /\ call' = [call EXCEPT ![l].out = FALSE]
            /\ UNCHANGED outp
       ELSE /\ outp' = Write(outp, outp_reg[l[1]], PIN_TO_BIT(l), call[l].high)
            /\ call' = [call EXCEPT ![l] = Idle]
            /\ UNCHANGED dirs
    /\ UNCHANGED <<added, owned, want>>

\* __set_gpio_level_p012(), __set_gpio_level_p3(), __set_gpo_level_p3().
set_level(l) ==
    /\ call[l].pc = "level"
    /\ outp' = Write(outp, outp_reg[l[1]], PIN_TO_BIT(l), call[l].high)
    /\ call' = [call EXCEPT ![l] = IF @.out THEN [pc |-> "dir", input |-> FALSE] ELSE Idle]
    /\ UNCHANGED <<added, owned, dirs, want>>

\* __set_gpio_dir_p012(), __set_gpio_dir_p3().
set_dir(l) ==
    /\ call[l].pc = "dir"
    /\ dirs' = Write(dirs, dir_reg[l[1]], PIN_TO_BIT(l), ~ call[l].input)
    /\ call' = [call EXCEPT ![l] = Idle]
    /\ UNCHANGED <<added, owned, outp, want>>

Next ==
    \/ probe
    \/ \E l \in Line :
          \/ request(l) \/ dir_input(l) \/ set_level(l) \/ set_dir(l)
          \/ \E v \in BOOLEAN : set_value(l, v) \/ dir_output(l, v)

Spec == Init /\ [][Next]_vars

------------------------------------------------------------------------------
\* Types, and consumers own lines of registered chips only, which of_xlate and
\* request see to.
TypeOK ==
    /\ added \subseteq Chips
    /\ owned \subseteq {l \in Line : l[1] \in added}
    /\ outp \in [{"P0", "P1", "P2", "P3"} -> SUBSET (0 .. 31)]
    /\ dirs \in [{"P0", "P1", "P2"} -> SUBSET (0 .. 31)]
    /\ want \in [Line -> {"in", "low", "high"}]

busy == {l \in Line : call[l] # Idle}

Lines == INSTANCE GpioLines

\* Without any lock, a call changes its own line and no other, in one move,
\* although chips share registers: no two lines share a bit of a register, and
\* the level is written before the direction.
ImplementsGpioLines == Lines!Spec

\* A line that has a name is read from a bit of its own, though the inputs of
\* gpio_p3 lie among those of gpi_p3.  One pair does share a bit: gpio_p3 pin 5
\* and gpi_p3 pin 24 both read bit 24.
ReadsOwnBit ==
    \A k \in owned, l \in Named :
        (/\ k # l /\ outp_reg[k[1]] = outp_reg[l[1]]
         /\ "gpo_p3" \notin {k[1], l[1]} /\ k \in Named
         /\ {k, l} # {<<"gpio_p3", 5>>, <<"gpi_p3", 24>>})
            => PIN_IN_SHIFT(k) # PIN_IN_SHIFT(l)
==============================================================================
