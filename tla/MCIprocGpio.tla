------------------------------ MODULE MCIprocGpio -----------------------------
(* IprocGpio for TLC: two pins in one bank and one in a second bank that is   *)
(* only partly used, on the four kinds of controllers.                       *)
EXTENDS IprocGpio

Chip(n, io, nsp, sr, calls, pins, boot) ==
    [ngpio |-> n, io_ctrl |-> io, nsp |-> nsp, stingray |-> sr,
     calls |-> calls, pins |-> pins, boot |-> boot]
MCPin == {0, 31, 33}
MCChips == {Chip(34, FALSE, FALSE, FALSE, "gpio", MCPin, {}),
            Chip(34, FALSE, FALSE, TRUE, "gpio", MCPin, MCPin),
            Chip(34, FALSE, FALSE, FALSE, "irq", {31, 33}, {33}),
            Chip(34, FALSE, FALSE, FALSE, "conf", {0, 33}, {33}),
            Chip(32, TRUE, FALSE, FALSE, "conf", {0, 31}, {0, 31}),
            Chip(32, FALSE, TRUE, FALSE, "conf", {0, 31}, {0})}
MCOwner == [p \in MCPin |-> IF p = 0 THEN "a" ELSE "b"]
MCConfCalls ==
    {<< <<"bias_pull_up", 0>>, <<"drive_strength", 16>> >>,
     << <<"drive_strength", 5>>, <<"bias_disable", 0>> >>,
     << <<"bias_pull_down", 0>>, <<"drive_strength", 2>>, <<"slew_rate", 0>> >>}
===============================================================================
