---------------------------- MODULE PinctrlBcm2835 ----------------------------
(***************************************************************************)
(* The BCM2835 pin controller driver: pin functions and pulls, interrupts, *)
(* and the maps made of device tree nodes.  The parts share no state but   *)
(* the registers' layout; a behaviour exercises one of them.               *)
(***************************************************************************)
EXTENDS Bcm2835Mux, Bcm2835Irq, Bcm2835Map

vars == <<case, muxVars, irqVars, mapVars>>

Init == case \in Cases /\ MuxInit /\ IrqInit /\ MapInit

Next ==
    \/ case.calls \in {"mux", "pull"} /\ MuxNext /\ UNCHANGED <<case, irqVars, mapVars>>
    \/ case.calls = "irq" /\ IrqNext /\ UNCHANGED <<case, muxVars, mapVars>>
    \/ case.calls = "map" /\ MapNext /\ UNCHANGED <<case, muxVars, irqVars>>

\* Operations under a spin lock finish, the probe does, and a handler that
\* waits for the lock gets it: queued spin locks are fair.
Spec ==
    /\ Init /\ [][Next]_vars
    /\ WF_irqVars(ProbeDetect \/ ProbeEvents)
    /\ \A a \in Actor : WF_irqVars(Read(a) \/ Do(a))
    /\ \A g \in Group : SF_irqVars(Handle(g))

\* The types of the parts, and who holds which lock.
TypeOK == case \in Cases /\ MuxTypeOK /\ IrqTypeOK
===============================================================================
