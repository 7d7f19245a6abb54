----------------------------- MODULE Bcm2835Regs ------------------------------
(***************************************************************************)
(* The pins of the BCM2835 and how they are spread over its registers      *)
(* (pinctrl-bcm2835.c): ten pins to a function select register, 32 to a    *)
(* bank of the others.  The tables name every pin gpio<n> and give each a  *)
(* group of its own, which can have every function.                        *)
(***************************************************************************)
EXTENDS Integers, Sequences, FiniteSets, Functions, FiniteSetsExt

CONSTANTS Thread, Owner,        \* Owner[p]: the thread that requested pin p
          Cases                 \* what is done in one behaviour: the kind of calls,
                                \* the pins in use, the interrupt types passed, and
                                \* whether the boot loader has set the pins up

BCM2835_NUM_GPIOS == 54
Pin == 0 .. BCM2835_NUM_GPIOS - 1

ASSUME Bcm2835Assumption ==
    /\ \A c \in Cases : c.pins \subseteq Pin
    /\ Owner \in [Pin -> Thread] /\ "none" \notin Thread

VARIABLE case                   \* one of Cases

\* enum bcm2835_fsel, bcm2835_functions[].
GPIO_IN == 0
GPIO_OUT == 1
fsel_values == 0 .. 7

\* FSEL_REG and GPIO_REG_OFFSET: the pins in use in the same register as p.
FSEL_REG(p) == {q \in case.pins : q \div 10 = p \div 10}
GPIO_REG(p) == {q \in case.pins : q \div 32 = p \div 32}
===============================================================================
