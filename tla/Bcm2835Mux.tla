----------------------------- MODULE Bcm2835Mux -------------------------------
(***************************************************************************)
(* Pin functions, GPIO levels and pull resistors of the BCM2835.           *)
(* bcm2835_pinctrl_fsel_set() reads a register that holds the functions of *)
(* ten pins and writes it back without a lock; bcm2835_pinconf_set() sets  *)
(* a pull through one register common to all pins.                         *)
(*                                                                         *)
(* External: a pin has one owner; the pin control core holds a mutex while *)
(* it passes on a GPIO direction or release, but not for set_mux, free and *)
(* pin_config_set.  A clocked pin takes the pull that GPPUD holds; if      *)
(* GPPUD changes while it is clocked it may take either.                   *)
(***************************************************************************)
EXTENDS Bcm2835Regs

CONSTANTS Fns,                  \* the functions set_mux asks for
          ConfCalls             \* the configurations pin_config_set gets: <<param, arg>>

ASSUME MuxAssumption == Fns \subseteq fsel_values /\ ConfCalls \subseteq Seq(STRING \X Nat)

VARIABLES fsel, out,            \* the function registers; the pins set high
          pud, clk, pull,       \* GPPUD, GPPUDCLK; the pull each pin has
          core,                 \* external: the holder of the core's mutex
          mth,                  \* what each thread is doing
          asked, raced          \* history: the settings last asked for; the pins
                                \* whose last call overlapped another one's
muxVars == <<fsel, out, pud, clk, pull, core, mth, asked, raced>>

MIdle == [pc |-> "idle", pin |-> 0, fn |-> 0, gpio |-> FALSE, tmp |-> << >>, conf |-> <<>>]

\* What the boot loader left: all pins inputs, or with function 7 (ALT3).
MuxInit ==
    /\ fsel = [p \in case.pins |-> IF case.boot THEN 7 ELSE GPIO_IN]
    /\ out = {} /\ pud = 0 /\ clk = {}
    /\ pull = [p \in case.pins |-> 0]
    /\ core = "none" /\ mth = [t \in Thread |-> MIdle]
    /\ asked = [p \in case.pins |-> [fn |-> fsel[p], high |-> FALSE, pull |-> 0]]
    /\ raced = {}

FselCall(t, p, f, gpio) ==
    /\ case.calls = "mux" /\ mth[t].pc = "idle" /\ Owner[p] = t
    /\ mth' = [mth EXCEPT ![t] = [MIdle EXCEPT !.pc = "fsel", !.pin = p, !.fn = f, !.gpio = gpio]]
    /\ UNCHANGED <<fsel, pud, clk, pull, core, raced>>

\* bcm2835_pmx_set() and bcm2835_pmx_free().
pmx_set(t, p) ==
    /\ \E f \in Fns \cup {GPIO_IN} : FselCall(t, p, f, FALSE) /\ asked' = [asked EXCEPT ![p].fn = f]
    /\ UNCHANGED out

\* bcm2835_gpio_direction_input(), bcm2835_pmx_gpio_disable_free().
gpio_direction_input(t, p) ==
    /\ FselCall(t, p, GPIO_IN, TRUE)
    /\ asked' = [asked EXCEPT ![p].fn = GPIO_IN]
    /\ UNCHANGED out

\* bcm2835_gpio_set(): GPSET and GPCLR change single pins.
SetLevel(p, v) == out' = IF v THEN out \cup {p} ELSE out \ {p}

gpio_set(t, p) ==
    /\ case.calls = "mux" /\ mth[t].pc = "idle" /\ Owner[p] = t
    /\ \E v \in BOOLEAN : SetLevel(p, v) /\ asked' = [asked EXCEPT ![p].high = v]
    /\ UNCHANGED <<fsel, pud, clk, pull, core, mth, raced>>

\* A plausible slip: the pin becomes an output at the level it had before.
output_without_level(t, p) ==
    \E v \in BOOLEAN :
        /\ FselCall(t, p, GPIO_OUT, TRUE)
        /\ asked' = [asked EXCEPT ![p].fn = GPIO_OUT, ![p].high = v]
        /\ UNCHANGED out

\* bcm2835_gpio_direction_output(): the level, then the direction.
gpio_direction_output(t, p) ==
    \E v \in BOOLEAN :
        /\ FselCall(t, p, GPIO_OUT, TRUE)
        /\ SetLevel(p, v)
        /\ asked' = [asked EXCEPT ![p].fn = GPIO_OUT, ![p].high = v]

\* Pins of other calls that are between reading and writing the register.
Overlapping(t, p) ==
    {mth[u].pin : u \in {u \in Thread \ {t} : mth[u].pc \in {"trans", "write"}}} \cap FSEL_REG(p)

\* A plausible slip: the function is changed in one step.
fsel_read_direct(t) ==
    LET p == mth[t].pin
    IN  /\ mth[t].pc = "fsel" /\ (mth[t].gpio => core = "none")
        /\ mth' = [mth EXCEPT ![t].pc = "write", ![t].tmp = [q \in FSEL_REG(p) |-> fsel[q]]]
        /\ core' = IF mth[t].gpio THEN t ELSE core
        /\ raced' = IF Overlapping(t, p) = {} THEN raced \ {p} ELSE raced
        /\ UNCHANGED <<fsel, out, pud, clk, pull, asked>>

\* bcm2835_pinctrl_fsel_set(): read the register ...
FselRead(t) ==
    LET p == mth[t].pin
        f == mth[t].fn
    IN  /\ mth[t].pc = "fsel" /\ (mth[t].gpio => core = "none")
        /\ IF fsel[p] = f
           THEN mth' = [mth EXCEPT ![t] = MIdle] /\ UNCHANGED core
           ELSE /\ mth' = [mth EXCEPT
                     ![t].pc = IF fsel[p] # GPIO_IN /\ f # GPIO_IN THEN "trans" ELSE "write",
                     ![t].tmp = [q \in FSEL_REG(p) |-> fsel[q]]]
                /\ core' = IF mth[t].gpio THEN t ELSE core
        /\ raced' = IF Overlapping(t, p) = {} THEN raced \ {p} ELSE raced
        /\ UNCHANGED <<fsel, out, pud, clk, pull, asked>>

Written(t) == IF mth[t].pc = "trans" THEN GPIO_IN ELSE mth[t].fn

\* A plausible slip: the other fields of the register are not kept.
fields_lost(t) == [q \in FSEL_REG(mth[t].pin) |-> IF q = mth[t].pin THEN Written(t) ELSE GPIO_IN]

fields(t) == [q \in FSEL_REG(mth[t].pin) |-> IF q = mth[t].pin THEN Written(t) ELSE mth[t].tmp[q]]

\* ... and write it, first with the pin as an input if it was and will be
\* neither: "always transition through GPIO_IN".
FselWrite(t) ==
    LET p == mth[t].pin
        others == Overlapping(t, p)
    IN  /\ mth[t].pc \in {"trans", "write"}
        /\ fsel' = [q \in case.pins |-> IF q \in FSEL_REG(p) THEN fields(t)[q] ELSE fsel[q]]
        /\ IF mth[t].pc = "trans"
           THEN mth' = [mth EXCEPT ![t].pc = "write"] /\ UNCHANGED core
           ELSE mth' = [mth EXCEPT ![t] = MIdle] /\ core' = IF mth[t].gpio THEN "none" ELSE core
        /\ raced' = IF others = {} THEN raced ELSE raced \cup others \cup {p}
        /\ UNCHANGED <<out, pud, clk, pull, asked>>

------------------------------------------------------------------------------
\* bcm2835_pinconf_set(): for each configuration, which must be a pull, ...
pinconf_set(t, p) ==
    /\ case.calls = "pull" /\ mth[t].pc = "idle" /\ Owner[p] = t
    /\ \E cs \in ConfCalls : mth' = [mth EXCEPT ![t] = [MIdle EXCEPT !.pc = "conf", !.pin = p, !.conf = cs]]
    /\ UNCHANGED <<fsel, out, pud, clk, pull, core, asked, raced>>

\* ... write it to GPPUD, ...
PullValue(t) ==
    LET p == mth[t].pin
        arg == Head(mth[t].conf)[2] % 4
        others == {mth[u].pin : u \in {u \in Thread \ {t} : mth[u].pc \in {"clock", "unclock"}}}
        ends == IF mth[t].conf = <<>> THEN TRUE ELSE Head(mth[t].conf)[1] # "pull"
    IN  /\ mth[t].pc = "conf"
        /\ \/ /\ ends
              /\ mth' = [mth EXCEPT ![t] = MIdle]
              /\ UNCHANGED <<pud, pull, asked, raced>>
           \/ /\ ~ ends
              /\ mth' = [mth EXCEPT ![t].pc = "clock", ![t].conf = Tail(@)]
              /\ pud' = arg
              /\ \E S \in SUBSET clk : pull' = [q \in case.pins |-> IF q \in S THEN arg ELSE pull[q]]
              /\ asked' = [asked EXCEPT ![p].pull = arg]
              /\ raced' = IF others = {} THEN raced \ {p} ELSE raced \cup others \cup {p}
        /\ UNCHANGED <<fsel, out, clk, core>>

\* A plausible slip: the wrong bit of the clock register is set.
clock_wrong_pin(t) == (mth[t].pin + 1) % BCM2835_NUM_GPIOS

clock_pin(t) == mth[t].pin

\* ... clock the pin, and stop the clock of the pin's bank.
PullClock(t) ==
    /\ \/ /\ mth[t].pc = "clock"
          /\ clk' = (clk \ GPIO_REG(mth[t].pin)) \cup ({clock_pin(t)} \cap case.pins)
          /\ pull' = [q \in case.pins |-> IF q = clock_pin(t) THEN pud ELSE pull[q]]
          /\ mth' = [mth EXCEPT ![t].pc = "unclock"]
       \/ /\ mth[t].pc = "unclock"
          /\ clk' = clk \ GPIO_REG(mth[t].pin)
          /\ mth' = [mth EXCEPT ![t].pc = "conf"]
          /\ UNCHANGED pull
    /\ UNCHANGED <<fsel, out, pud, core, asked, raced>>

MuxNext == \E t \in Thread :
    \/ \E p \in case.pins :
          \/ pmx_set(t, p) \/ gpio_direction_input(t, p) \/ gpio_direction_output(t, p)
          \/ gpio_set(t, p) \/ pinconf_set(t, p)
    \/ FselRead(t) \/ FselWrite(t) \/ PullValue(t) \/ PullClock(t)

------------------------------------------------------------------------------
\* Types, and the core calls under its mutex for GPIO users only.
MuxTypeOK ==
    /\ fsel \in [case.pins -> fsel_values] /\ out \subseteq case.pins
    /\ pull \in [case.pins -> 0 .. 3] /\ clk \subseteq case.pins
    /\ core \in Thread => mth[core].gpio

\* A pin that no call works on has the function, the level and the pull last
\* asked for it, unless that call overlapped one for another pin.
MuxSettingsKept ==
    \A p \in case.pins :
        p \notin raced /\ (\A t \in Thread : mth[t].pc # "idle" => mth[t].pin # p) =>
            /\ fsel[p] = asked[p].fn
            /\ p \in out <=> asked[p].high
            /\ pull[p] = asked[p].pull

\* "always transition through GPIO_IN": unless calls overlap, a pin never goes
\* from one function to another but through input, and when it becomes an
\* output it drives the level that was asked for.
CleanTransitions ==
    [][\A p \in case.pins : fsel'[p] # fsel[p] /\ p \notin raced' =>
         /\ GPIO_IN \in {fsel[p], fsel'[p]}
         /\ fsel'[p] = GPIO_OUT => (p \in out' <=> asked'[p].high)]_muxVars

\* The same comment taken at its word, for every call: no write of a function
\* register takes a pin from one function to another but through input, not
\* even a write for another pin of the register.
AlwaysThroughInput ==
    [][\A p \in case.pins : fsel'[p] # fsel[p] => GPIO_IN \in {fsel[p], fsel'[p]}]_muxVars
===============================================================================
