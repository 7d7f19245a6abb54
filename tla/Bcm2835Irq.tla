----------------------------- MODULE Bcm2835Irq -------------------------------
(***************************************************************************)
(* GPIO interrupts of the BCM2835.  irq_enable, irq_disable and            *)
(* irq_set_type change a pin's bits in the detection registers, its bit in *)
(* enabled_irq_map and its irq_type under irq_lock[bank]; they are         *)
(* sequences of operations here, of which reading and writing a register   *)
(* are two.  The handler of each of the three interrupts reads the events  *)
(* and the map without the lock.                                           *)
(*                                                                         *)
(* External: an edge or level that is detected is latched in GPEDS, whose  *)
(* pins keep their interrupt asserted; the kernel's edge flow acknowledges *)
(* an event and runs the action, its level flow masks, acknowledges, runs  *)
(* the action and unmasks unless the interrupt was disabled meanwhile.     *)
(***************************************************************************)
EXTENDS Bcm2835Regs

VARIABLES probe,                \* how far bcm2835_pinctrl_probe() is
          det, events,          \* the detection registers, GPEDS
          enabled, irq_type,    \* enabled_irq_map, irq_type[]
          flow, on,             \* external: a pin's flow; enabled by its owner
          irq_lock, ith,        \* irq_lock[]; the operations each actor has to do
          hnd, input            \* the handlers; the pins that are high
irqVars == <<probe, det, events, enabled, irq_type, flow, on, irq_lock, ith, hnd, input>>

Detectors == {"GPREN", "GPFEN", "GPHEN", "GPLEN", "GPAREN", "GPAFEN"}
Types == {"none", "rising", "falling", "both", "high", "low"}
EdgeTypes == {"rising", "falling", "both", "rising+high"}
Group == {"irq0", "irq1", "irq2"}
Actor == Thread \cup Group
Bank == 0 .. 1

ASSUME IrqAssumption == Thread \cap Group = {}

\* A plausible slip: interrupt 1 is thought to cover one bank only.
groups_one_bank == [irq0 |-> <<0 .. 27>>, irq1 |-> <<28 .. 31>>, irq2 |-> <<46 .. 53>>]

\* The masks of bcm2835_gpio_irq_handler(): the banks of each interrupt, in order.
groups == [irq0 |-> <<0 .. 27>>, irq1 |-> <<28 .. 31, 32 .. 45>>, irq2 |-> <<46 .. 53>>]
\* External: the pins that each interrupt is wired to.
Wired == [irq0 |-> 0 .. 27, irq1 |-> 28 .. 45, irq2 |-> 46 .. 53]

------------------------------------------------------------------------------
Regs == [none |-> <<>>, rising |-> <<"GPREN">>, falling |-> <<"GPFEN">>,
         both |-> <<"GPREN", "GPFEN">>, high |-> <<"GPHEN">>, low |-> <<"GPLEN">>]

\* bcm2835_gpio_irq_config().
irq_config(type, enable) == [i \in DOMAIN Regs[type] |-> <<"config", Regs[type][i], enable>>]
SetType(type) == << <<"type", type, TRUE>> >>
Map(enable) == << <<"map", "", enable>> >>
Clear == << <<"clear", "", TRUE>> >>

irq_enable(p) == Map(TRUE) \o irq_config(irq_type[p], TRUE)

\* A plausible slip: the event is cleared while it can still be latched.
disable_clears_first(p) == Clear \o irq_config(irq_type[p], FALSE) \o Map(FALSE)

\* "Clear events that were latched prior to clearing event sources".
irq_disable(p) == irq_config(irq_type[p], FALSE) \o Clear \o Map(FALSE)

set_type_disabled(p, type) == IF type \in Types THEN SetType(type) ELSE <<>>

\* A plausible slip: going from both edges to one, the other is left on.
set_type_leaves_edge(p, type) ==
    LET cur == irq_type[p]
    IN  CASE type \notin Types \/ type = cur -> <<>>
          [] type \in {"rising", "falling"} /\ cur = "both" -> SetType(type)
          [] OTHER -> irq_config(cur, FALSE) \o SetType(type) \o irq_config(type, TRUE)

\* __bcm2835_gpio_irq_set_type_enabled(): between one edge and both only the
\* other edge is changed.
set_type_enabled(p, type) ==
    LET cur == irq_type[p]
        Other(edge) == IF edge = "rising" THEN "falling" ELSE "rising"
        edges == {"rising", "falling"}
    IN  IF type \notin Types \/ type = cur THEN <<>>
        ELSE IF type \in edges /\ cur = "both"
             THEN SetType(Other(type)) \o irq_config(Other(type), FALSE) \o SetType(type)
        ELSE IF type = "both" /\ cur \in edges
             THEN SetType(Other(cur)) \o irq_config(Other(cur), TRUE) \o SetType(type)
        ELSE irq_config(cur, FALSE) \o SetType(type) \o irq_config(type, TRUE)

\* The flow is set even when the type was refused.
irq_set_type(p, type) ==
    (IF p \in enabled THEN set_type_enabled(p, type) ELSE set_type_disabled(p, type))
        \o << <<"flow", "", type \in EdgeTypes>> >>

------------------------------------------------------------------------------
NoOps == [pin |-> 0, ops |-> <<>>, reading |-> FALSE, tmp |-> {}]
HIdle == [pc |-> "idle", parts |-> <<>>, ev |-> {}, pin |-> 0, level |-> FALSE]

\* The boot loader may have left every detector on.
IrqInit ==
    /\ probe = "start"
    /\ events = IF case.calls = "irq" /\ case.boot THEN case.pins ELSE {}
    /\ det = [r \in Detectors |-> events]
    /\ enabled = {} /\ irq_type = [p \in case.pins |-> "none"]
    /\ flow = [p \in case.pins |-> "level"] /\ on = {}
    /\ irq_lock = [b \in Bank |-> "none"] /\ ith = [a \in Actor |-> NoOps]
    /\ hnd = [g \in Group |-> HIdle] /\ input = {}

\* bcm2835_pinctrl_probe() turns every detector off, clears the events that
\* were latched, and registers the chip and the handlers.
ProbeDetect ==
    /\ case.calls = "irq" /\ probe = "start"
    /\ det' = [r \in Detectors |-> {}]
    /\ probe' = "off"
    /\ UNCHANGED <<events, enabled, irq_type, flow, on, irq_lock, ith, hnd, input>>

ProbeEvents ==
    /\ probe = "off"
    /\ events' = {}
    /\ probe' = "ready"
    /\ UNCHANGED <<det, enabled, irq_type, flow, on, irq_lock, ith, hnd, input>>

\* A plausible slip: the lock is not taken.
begin_unlocked(a, p, ops) == ith' = [ith EXCEPT ![a] = [NoOps EXCEPT !.pin = p, !.ops = ops]] /\ UNCHANGED irq_lock

\* An operation starts when it has the lock of the pin's bank.
Begin(a, p, ops) ==
    /\ irq_lock[p \div 32] = "none"
    /\ irq_lock' = [irq_lock EXCEPT ![p \div 32] = a]
    /\ ith' = [ith EXCEPT ![a] = [NoOps EXCEPT !.pin = p, !.ops = ops]]

IrqCall(t, p) ==
    /\ probe = "ready" /\ Owner[p] = t /\ ith[t].ops = <<>>
    /\ \/ p \notin on /\ on' = on \cup {p} /\ Begin(t, p, irq_enable(p))
       \/ p \in on /\ on' = on \ {p} /\ Begin(t, p, irq_disable(p))
       \/ \E type \in case.types : Begin(t, p, irq_set_type(p, type)) /\ UNCHANGED on
    /\ UNCHANGED <<probe, det, events, enabled, irq_type, flow, hnd, input>>

\* __bcm2835_gpio_irq_config() reads the register, ...
Read(a) ==
    /\ ith[a].ops # <<>> /\ ~ ith[a].reading
    /\ Head(ith[a].ops)[1] = "config"
    /\ ith' = [ith EXCEPT ![a].reading = TRUE,
                          ![a].tmp = det[Head(ith[a].ops)[2]] \cap GPIO_REG(ith[a].pin)]
    /\ UNCHANGED <<probe, det, events, enabled, irq_type, flow, on, irq_lock, hnd, input>>

\* ... and writes it; the other operations are one step.  After the last the
\* lock is released.
Do(a) ==
    LET p == ith[a].pin
        op == Head(ith[a].ops)
        put(S) == IF op[3] THEN S \cup {p} ELSE S \ {p}
        done == Tail(ith[a].ops) = <<>>
    IN  /\ ith[a].ops # <<>> /\ (op[1] = "config" => ith[a].reading)
        /\ det' = IF op[1] = "config"
                  THEN [det EXCEPT ![op[2]] = (@ \ GPIO_REG(p)) \cup put(ith[a].tmp)] ELSE det
        /\ enabled' = IF op[1] = "map" THEN put(enabled) ELSE enabled
        /\ events' = IF op[1] = "clear" THEN events \ {p} ELSE events
        /\ irq_type' = IF op[1] = "type" THEN [irq_type EXCEPT ![p] = op[2]] ELSE irq_type
        /\ flow' = IF op[1] = "flow" THEN [flow EXCEPT ![p] = IF op[3] THEN "edge" ELSE "level"] ELSE flow
        /\ ith' = [ith EXCEPT ![a] = IF done THEN NoOps
                                     ELSE [NoOps EXCEPT !.pin = p, !.ops = Tail(ith[a].ops)]]
        /\ irq_lock' = IF done THEN [irq_lock EXCEPT ![p \div 32] = "none"] ELSE irq_lock
        /\ UNCHANGED <<probe, on, hnd, input>>

------------------------------------------------------------------------------
\* External: a pin changes, or its level lasts; what is detected is latched.
Toggle(p) ==
    LET rises == p \notin input
    IN  /\ case.calls = "irq"
        /\ input' = IF rises THEN input \cup {p} ELSE input \ {p}
        /\ events' = events \cup ({p} \cap (IF rises THEN det["GPREN"] \cup det["GPAREN"]
                                                    ELSE det["GPFEN"] \cup det["GPAFEN"]))
        /\ UNCHANGED <<probe, det, enabled, irq_type, flow, on, irq_lock, ith, hnd>>

Latch(p) ==
    /\ case.calls = "irq" /\ p \notin events
    /\ p \in IF p \in input THEN det["GPHEN"] ELSE det["GPLEN"]
    /\ events' = events \cup {p}
    /\ UNCHANGED <<probe, det, enabled, irq_type, flow, on, irq_lock, ith, hnd, input>>

\* bcm2835_gpio_irq_handler(): find the group, ...
HandlerEnter(g) ==
    /\ hnd[g].pc = "idle" /\ probe = "ready"
    /\ events \cap Wired[g] # {}
    /\ hnd' = [hnd EXCEPT ![g] = [HIdle EXCEPT !.pc = "bank", !.parts = groups[g]]]
    /\ UNCHANGED <<probe, det, events, enabled, irq_type, flow, on, irq_lock, ith, input>>

\* ... bcm2835_gpio_irq_handle_bank(): for each bank read its events, ...
HandleBank(g) ==
    /\ hnd[g].pc = "bank"
    /\ IF hnd[g].parts = <<>>
       THEN hnd' = [hnd EXCEPT ![g] = HIdle]
       ELSE hnd' = [hnd EXCEPT ![g].pc = "pin", ![g].parts = Tail(@),
                               ![g].ev = events \cap enabled \cap Head(hnd[g].parts)]
    /\ UNCHANGED <<probe, det, events, enabled, irq_type, flow, on, irq_lock, ith, input>>

\* ... and handle each of its pins.  External: a level interrupt is masked, ...
HandlePin(g) ==
    LET p == Min(hnd[g].ev)
        mask == flow[p] = "level" /\ p \in enabled
    IN  /\ hnd[g].pc = "pin" /\ ith[g].ops = <<>>
        /\ IF hnd[g].ev = {}
           THEN hnd' = [hnd EXCEPT ![g].pc = "bank"] /\ UNCHANGED <<irq_lock, ith>>
           ELSE /\ hnd' = [hnd EXCEPT ![g].pc = "ack", ![g].ev = @ \ {p}, ![g].pin = p,
                                      ![g].level = flow[p] = "level"]
                /\ IF mask THEN Begin(g, p, irq_disable(p)) ELSE UNCHANGED <<irq_lock, ith>>
        /\ UNCHANGED <<probe, det, events, enabled, irq_type, flow, on, input>>

\* ... the event acknowledged by bcm2835_gpio_irq_ack(), the action run, ...
HandleAck(g) ==
    /\ hnd[g].pc = "ack" /\ ith[g].ops = <<>>
    /\ events' = events \ {hnd[g].pin}
    /\ hnd' = [hnd EXCEPT ![g].pc = "action"]
    /\ UNCHANGED <<probe, det, enabled, irq_type, flow, on, irq_lock, ith, input>>

\* ... and a level interrupt unmasked again.
HandleAction(g) ==
    LET p == hnd[g].pin
    IN  /\ hnd[g].pc = "action"
        /\ IF hnd[g].level /\ p \in on \ enabled
           THEN Begin(g, p, irq_enable(p)) ELSE UNCHANGED <<irq_lock, ith>>
        /\ hnd' = [hnd EXCEPT ![g].pc = "pin"]
        /\ UNCHANGED <<probe, det, events, enabled, irq_type, flow, on, input>>

Handle(g) == HandlerEnter(g) \/ HandleBank(g) \/ HandlePin(g) \/ HandleAck(g) \/ HandleAction(g)

IrqNext ==
    \/ ProbeDetect \/ ProbeEvents
    \/ \E t \in Thread, p \in case.pins : IrqCall(t, p)
    \/ \E a \in Actor : Read(a) \/ Do(a)
    \/ \E p \in case.pins : Toggle(p) \/ Latch(p)
    \/ \E g \in Group : Handle(g)

------------------------------------------------------------------------------
\* Types, and an actor has operations to do exactly while it holds a lock.
IrqTypeOK ==
    /\ det \in [Detectors -> SUBSET case.pins] /\ events \subseteq case.pins
    /\ enabled \subseteq case.pins /\ irq_type \in [case.pins -> Types]
    /\ \A a \in Actor : ith[a].ops # <<>> <=> \E b \in Bank : irq_lock[b] = a

Steady(p) == probe = "ready" /\ \A a \in Actor : ith[a].ops # <<>> => ith[a].pin # p

\* Whatever is enabled, disabled, changed of type or handled in parallel, an
\* enabled pin has exactly the detectors of its type on, and a disabled none.
DetectsByType ==
    \A p \in case.pins : Steady(p) =>
        {r \in Detectors : p \in det[r]} = IF p \in enabled THEN Range(Regs[irq_type[p]]) ELSE {}

\* "Clear events that were latched prior to clearing event sources": no event
\* is left of a pin that is disabled, where the handler would never clear it
\* and the interrupt would stay asserted.
NoEventLeft == \A p \in case.pins : Steady(p) /\ p \in events => p \in enabled

\* Every event is cleared in the end, because one of the handlers covers the
\* pin: Pending(k) is an event of the k-th of the pins in use.
Pending(k) == \E p \in events : Cardinality({q \in case.pins : q <= p}) = k
EventServed ==
    \A k \in 1 .. Max({Cardinality(c.pins) : c \in Cases}) : Pending(k) ~> ~ Pending(k)
===============================================================================
