-------------------------------- MODULE MCNs2Mux ------------------------------
(* Ns2Mux for TLC: a NOR driver against a NAND driver and a GPIO user on one  *)
(* field, another group in the same register as the others, and settings of  *)
(* two pins that share a register.                                           *)
EXTENDS Ns2Mux

MCWants == [a |-> {"nand", "nor_adv"}, b |-> {"nor_data", "gpio_0_1", "gpio_2_5"}]
MCConfCalls ==
    LET config(param, arg) == [param |-> param, arg |-> arg]
    IN  {<<config("bias_pull_up", 0), config("drive_strength", 16), config("slew_rate", 1)>>,
         <<config("input_enable", 1), config("drive_strength", 3), config("bias_pull_down", 0)>>}
MCBootConf == {0 .. 31}
===============================================================================
