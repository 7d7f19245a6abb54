------------------------------- MODULE MCGpioMmio -----------------------------
(* GpioMmio for TLC: three lines, two of one thread and one of another; every *)
(* way of setting levels with every way of setting directions, both bit      *)
(* orders, and four chips bgpio_init() refuses.                              *)
EXTENDS GpioMmio

Chip(sz, res, flags) == [sz |-> sz, res |-> res, flags |-> flags]
MCChips ==
    {Chip(4, {"dat"}, {}),
     Chip(1, {"dat", "dirout"}, {"BE"}),
     Chip(2, {"dat", "set", "dirin"}, {"READ_OUTPUT_REG_SET"}),
     Chip(2, {"dat", "set", "dirout"}, {"READ_OUTPUT_REG_SET"}),
     Chip(8, {"dat", "set", "dirin"}, {"UNREADABLE_REG_SET", "UNREADABLE_REG_DIR"}),
     Chip(4, {"dat", "set", "clr", "dirout"}, {"BE", "READ_OUTPUT_REG_SET"}),
     Chip(4, {"dat", "dirout"}, {"UNREADABLE_REG_DIR"}),
     Chip(4, {"dat"}, {"NO_OUTPUT"}), Chip(4, {"dat", "set"}, {"READ_OUTPUT_REG_SET"}),
     Chip(3, {"dat"}, {}), Chip(8, {"dat"}, {"BE_BYTE"}),
     Chip(4, {"set"}, {}), Chip(4, {"dat", "dirout", "dirin"}, {})}
MCOwner == [l \in 0 .. 2 |-> IF l = 2 THEN "t2" ELSE "t1"]
MCPins == [l \in 0 .. 2 |-> l = 1]
===============================================================================
