--------------------------- MODULE MCPinctrlBcm2835 ---------------------------
(* PinctrlBcm2835 for TLC: two pins of one function register; pulls of pins   *)
(* in one bank and in another; one pin with every interrupt type, two pins    *)
(* of one bank on two interrupts, and the first and last pin of each bank.    *)
EXTENDS PinctrlBcm2835

Case(calls, pins, types, boot) == [calls |-> calls, pins |-> pins, types |-> types, boot |-> boot]
MCCases ==
    {Case("mux", {8, 9}, {}, FALSE), Case("mux", {8, 9}, {}, TRUE),
     Case("pull", {0, 1}, {}, FALSE), Case("pull", {0, 33}, {}, FALSE), Case("map", {}, {}, FALSE),
     Case("irq", {28}, Types \cup {"rising+high", "low+high"}, TRUE),
     Case("irq", {27, 28}, {"both"}, FALSE)}
    \cup {Case("irq", {p}, {"high"}, FALSE) : p \in {0, 31, 32, 45, 46, 53}}
MCOwner == [p \in 0 .. 53 |-> IF p \in {0, 8} THEN "a" ELSE "b"]
MCConfCalls == {<< <<"pull", 1>> >>, << <<"pull", 2>>, <<"other", 0>>, <<"pull", 0>> >>}

Prop(cells) == [given |-> TRUE, cells |-> cells]
None == [given |-> FALSE, cells |-> <<>>]
Lists(ones, twos) == {Prop(<<>>), Prop(<<ones>>), Prop(<<ones, twos>>), Prop(<<twos, ones>>), None}
MCDtNodes == [pins : Lists(3, 53) \cup Lists(4, 54), funcs : Lists(1, 7) \cup Lists(0, 8),
              pulls : Lists(0, 2) \cup Lists(1, 3)]
===============================================================================
