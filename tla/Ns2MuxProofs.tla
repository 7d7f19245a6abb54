----------------------------- MODULE Ns2MuxProofs -----------------------------
(***************************************************************************)
(* The Northstar2 pin multiplexer for any devices, groups they want and    *)
(* configurations they make.                                               *)
(***************************************************************************)
EXTENDS Ns2Mux, TLAPS

(* The tables.                                                               *)

\* The lowest pin of each two-bit field, which all its groups have.
Low(shift) == IF shift = 30 THEN 26 ELSE IF shift = 28 THEN 27
              ELSE IF shift >= 18 THEN 57 - shift ELSE 59 - shift
Shifts == {4, 6, 8, 10, 12, 14, 16, 18, 20, 22, 24, 26, 28, 30}

\* What the entries of one two-bit field have in common.
Entry(g) ==
    \E shift \in Shifts : g.slot = <<0, 4, shift>> /\ Low(shift) \in g.pins /\ g.mask = 3 /\ g.alt \in 0 .. 2

LEMMA PadEntry ==
    ASSUME NEW shift \in Shifts, NEW pins, Low(shift) \in pins, NEW alts, \A n \in DOMAIN alts : alts[n] \in 0 .. 2
    PROVE  \A g \in Pad1(shift, pins, alts) : Entry(g)
BY DEF Pad1, G, Entry

LEMMA Groups ==
    ASSUME NEW g \in ns2_pin_groups
    PROVE  \/ Entry(g)
           \/ g = G("nand", 0 .. 23, 0, 0, 31, 1, 0) \/ g = G("nor_data", 0 .. 25, 0, 0, 31, 1, 1)
           \/ g = G("gpio_0_1", 24 .. 25, 0, 0, 31, 1, 0)
           \/ g = G("pwm_0", {24}, 1, 0, 0, 1, 1) \/ g = G("pwm_1", {25}, 1, 0, 1, 1, 1)
           \/ g = G("pwm_2", {27}, 1, 0, 2, 1, 1) \/ g = G("pwm_3", {28}, 1, 0, 3, 1, 1)
<1>1. \A e \in Pad1(30, {26}, [uart1_ext_clk |-> 1, nor_adv |-> 2]) : Entry(e)
  BY PadEntry DEF Shifts, Low
<1>2. \A e \in Pad1(28, 27 .. 30, [gpio_2_5 |-> 0, pcie_ab1_clk_wak |-> 1, nor_addr_0_3 |-> 2]) : Entry(e)
  BY PadEntry DEF Shifts, Low
<1>3. \A e \in Pad1(26, 31 .. 32, [gpio_6_7 |-> 0, pcie_a3_clk_wak |-> 1, nor_addr_4_5 |-> 2]) : Entry(e)
  BY PadEntry DEF Shifts, Low
<1>4. \A e \in Pad1(24, 33 .. 34, [gpio_8_9 |-> 0, pcie_b3_clk_wak |-> 1, nor_addr_6_7 |-> 2]) : Entry(e)
  BY PadEntry DEF Shifts, Low
<1>5. \A e \in Pad1(22, 35 .. 36, [gpio_10_11 |-> 0, pcie_b2_clk_wak |-> 1, nor_addr_8_9 |-> 2]) : Entry(e)
  BY PadEntry DEF Shifts, Low
<1>6. \A e \in Pad1(20, 37 .. 38, [gpio_12_13 |-> 0, pcie_a2_clk_wak |-> 1, nor_addr_10_11 |-> 2]) : Entry(e)
  BY PadEntry DEF Shifts, Low
<1>7. \A e \in Pad1(18, 39 .. 42, [gpio_14_17 |-> 0, uart0_modem |-> 1, nor_addr_12_15 |-> 2]) : Entry(e)
  BY PadEntry DEF Shifts, Low
<1>8. \A e \in Pad1(16, 43 .. 44, [gpio_18_19 |-> 0, uart0_rts_cts |-> 1]) : Entry(e)
  BY PadEntry DEF Shifts, Low
<1>9. \A e \in Pad1(14, 45 .. 46, [gpio_20_21 |-> 0, uart0_in_out |-> 1]) : Entry(e)
  BY PadEntry DEF Shifts, Low
<1>10. \A e \in Pad1(12, 47 .. 48, [gpio_22_23 |-> 0, uart1_dcd_dsr |-> 1]) : Entry(e)
  BY PadEntry DEF Shifts, Low
<1>11. \A e \in Pad1(10, 49 .. 50, [gpio_24_25 |-> 0, uart1_ri_dtr |-> 1]) : Entry(e)
  BY PadEntry DEF Shifts, Low
<1>12. \A e \in Pad1(8, 51 .. 52, [gpio_26_27 |-> 0, uart1_rts_cts |-> 1]) : Entry(e)
  BY PadEntry DEF Shifts, Low
<1>13. \A e \in Pad1(6, 53 .. 54, [gpio_28_29 |-> 0, uart1_in_out |-> 1]) : Entry(e)
  BY PadEntry DEF Shifts, Low
<1>14. \A e \in Pad1(4, 55 .. 56, [gpio_30_31 |-> 0, uart2_rts_cts |-> 1]) : Entry(e)
  BY PadEntry DEF Shifts, Low
<1> QED BY <1>1, <1>2, <1>3, <1>4, <1>5, <1>6, <1>7, <1>8, <1>9, <1>10, <1>11, <1>12, <1>13, <1>14 DEF ns2_pin_groups

\* Every field is in the log, and holds the value of each of its groups.
LEMMA FieldLogged ==
    ASSUME NEW g \in ns2_pin_groups
    PROVE  g.slot \in mux_log_init /\ g.alt \in Nat /\ g.mask \in Nat /\ g.alt <= g.mask /\ g.alt \in 0 .. 3
<1>1. CASE Entry(g)
  <2>1. PICK shift \in Shifts : g.slot = <<0, 4, shift>> /\ g.mask = 3 /\ g.alt \in 0 .. 2
    BY <1>1 DEF Entry
  <2>2. \E i \in 1 .. 14 : shift = 32 - i * 2
    BY DEF Shifts
  <2> QED BY <2>1, <2>2 DEF mux_log_init
<1>2. CASE ~ Entry(g)
  BY <1>2, Groups DEF G, mux_log_init
<1> QED BY <1>1, <1>2

\* Groups that want different values of one field share a pin.
LEMMA FieldShared ==
    ASSUME NEW g \in ns2_pin_groups, NEW h \in ns2_pin_groups, g.slot = h.slot, g.alt # h.alt
    PROVE  g.pins \cap h.pins # {}
<1>1. ASSUME NEW k \in ns2_pin_groups, Entry(k)
      PROVE  k.slot[1] = 0 /\ k.slot[2] = 4 /\ Low(k.slot[3]) \in k.pins
  BY <1>1 DEF Entry
<1>2. ASSUME NEW k \in ns2_pin_groups, ~ Entry(k) PROVE k.slot[2] = 0
  BY <1>2, Groups DEF G
<1>3. CASE Entry(g)
  BY <1>1, <1>2, <1>3
<1>4. CASE ~ Entry(g)
  <2>1. ~ Entry(h)
    BY <1>1, <1>2, <1>4
  <2>2. /\ 0 \in 0 .. 23 /\ 0 \in 0 .. 25 /\ 24 \in 24 .. 25 /\ 24 \in 0 .. 25
    OBVIOUS
  <2> QED BY <1>4, <2>1, <2>2, Groups DEF G
<1> QED BY <1>3, <1>4
\* Every function has groups that exist, and every group has a function.
Names(S) == {g.name : g \in S}

LEMMA NamesSubset == ASSUME NEW T, NEW S, S \subseteq T PROVE Names(S) \subseteq Names(T)
BY DEF Names

LEMMA PadNames ==
    ASSUME NEW shift, NEW pins, NEW alts
    PROVE  Names(Pad1(shift, pins, alts)) = DOMAIN alts
<1>1. ASSUME NEW n \in DOMAIN alts PROVE n \in Names(Pad1(shift, pins, alts))
  <2>1. PICK g : g = G(n, pins, 0, 4, shift, 3, alts[n])
    OBVIOUS
  <2>2. g.name = n
    BY <2>1 DEF G
  <2>3. g \in Pad1(shift, pins, alts)
    BY <2>1 DEF Pad1
  <2> QED BY <2>2, <2>3 DEF Names
<1>2. ASSUME NEW n \in Names(Pad1(shift, pins, alts)) PROVE n \in DOMAIN alts
  <2>1. PICK g \in Pad1(shift, pins, alts) : n = g.name
    BY DEF Names
  <2> QED BY <2>1 DEF Pad1, G
<1> QED BY <1>1, <1>2

LEMMA FunctionGroups == UNION Range(ns2_pin_functions) = {g.name : g \in ns2_pin_groups}
<1> DEFINE F == UNION Range(ns2_pin_functions)
<1>1. DOMAIN ns2_pin_functions = {"nand", "nor", "gpio", "pcie", "uart0", "uart1", "uart2", "pwm"}
  BY DEF ns2_pin_functions
<1>2. F = ns2_pin_functions["nand"] \cup ns2_pin_functions["nor"] \cup ns2_pin_functions["gpio"]
          \cup ns2_pin_functions["pcie"] \cup ns2_pin_functions["uart0"] \cup ns2_pin_functions["uart1"]
          \cup ns2_pin_functions["uart2"] \cup ns2_pin_functions["pwm"]
  BY <1>1 DEF Range
<1>3. /\ \A g \in Pad1(30, {26}, [uart1_ext_clk |-> 1, nor_adv |-> 2]) : g.name \in F
      /\ {"uart1_ext_clk", "nor_adv"} \subseteq Names(ns2_pin_groups)
  <2>1. Names(Pad1(30, {26}, [uart1_ext_clk |-> 1, nor_adv |-> 2])) =
          {"uart1_ext_clk", "nor_adv"}
    BY PadNames
  <2>2. Pad1(30, {26}, [uart1_ext_clk |-> 1, nor_adv |-> 2]) \subseteq ns2_pin_groups
    BY ZenonT(40) DEF ns2_pin_groups
  <2>3. {"uart1_ext_clk", "nor_adv"} \subseteq F
    BY <1>2 DEF ns2_pin_functions
  <2> QED BY <2>1, <2>2, <2>3, NamesSubset DEF Names
<1>4. /\ \A g \in Pad1(28, 27 .. 30, [gpio_2_5 |-> 0, pcie_ab1_clk_wak |-> 1, nor_addr_0_3 |-> 2]) : g.name \in F
      /\ {"gpio_2_5", "pcie_ab1_clk_wak", "nor_addr_0_3"} \subseteq Names(ns2_pin_groups)
  <2>1. Names(Pad1(28, 27 .. 30, [gpio_2_5 |-> 0, pcie_ab1_clk_wak |-> 1, nor_addr_0_3 |-> 2])) =
          {"gpio_2_5", "pcie_ab1_clk_wak", "nor_addr_0_3"}
    BY PadNames
  <2>2. Pad1(28, 27 .. 30, [gpio_2_5 |-> 0, pcie_ab1_clk_wak |-> 1, nor_addr_0_3 |-> 2]) \subseteq ns2_pin_groups
    BY ZenonT(40) DEF ns2_pin_groups
  <2>3. {"gpio_2_5", "pcie_ab1_clk_wak", "nor_addr_0_3"} \subseteq F
    BY <1>2 DEF ns2_pin_functions
  <2> QED BY <2>1, <2>2, <2>3, NamesSubset DEF Names
<1>5. /\ \A g \in Pad1(26, 31 .. 32, [gpio_6_7 |-> 0, pcie_a3_clk_wak |-> 1, nor_addr_4_5 |-> 2]) : g.name \in F
      /\ {"gpio_6_7", "pcie_a3_clk_wak", "nor_addr_4_5"} \subseteq Names(ns2_pin_groups)
  <2>1. Names(Pad1(26, 31 .. 32, [gpio_6_7 |-> 0, pcie_a3_clk_wak |-> 1, nor_addr_4_5 |-> 2])) =
          {"gpio_6_7", "pcie_a3_clk_wak", "nor_addr_4_5"}
    BY PadNames
  <2>2. Pad1(26, 31 .. 32, [gpio_6_7 |-> 0, pcie_a3_clk_wak |-> 1, nor_addr_4_5 |-> 2]) \subseteq ns2_pin_groups
    BY ZenonT(40) DEF ns2_pin_groups
  <2>3. {"gpio_6_7", "pcie_a3_clk_wak", "nor_addr_4_5"} \subseteq F
    BY <1>2 DEF ns2_pin_functions
  <2> QED BY <2>1, <2>2, <2>3, NamesSubset DEF Names
<1>6. /\ \A g \in Pad1(24, 33 .. 34, [gpio_8_9 |-> 0, pcie_b3_clk_wak |-> 1, nor_addr_6_7 |-> 2]) : g.name \in F
      /\ {"gpio_8_9", "pcie_b3_clk_wak", "nor_addr_6_7"} \subseteq Names(ns2_pin_groups)
  <2>1. Names(Pad1(24, 33 .. 34, [gpio_8_9 |-> 0, pcie_b3_clk_wak |-> 1, nor_addr_6_7 |-> 2])) =
          {"gpio_8_9", "pcie_b3_clk_wak", "nor_addr_6_7"}
    BY PadNames
  <2>2. Pad1(24, 33 .. 34, [gpio_8_9 |-> 0, pcie_b3_clk_wak |-> 1, nor_addr_6_7 |-> 2]) \subseteq ns2_pin_groups
    BY ZenonT(40) DEF ns2_pin_groups
  <2>3. {"gpio_8_9", "pcie_b3_clk_wak", "nor_addr_6_7"} \subseteq F
    BY <1>2 DEF ns2_pin_functions
  <2> QED BY <2>1, <2>2, <2>3, NamesSubset DEF Names
<1>7. /\ \A g \in Pad1(22, 35 .. 36, [gpio_10_11 |-> 0, pcie_b2_clk_wak |-> 1, nor_addr_8_9 |-> 2]) : g.name \in F
      /\ {"gpio_10_11", "pcie_b2_clk_wak", "nor_addr_8_9"} \subseteq Names(ns2_pin_groups)
  <2>1. Names(Pad1(22, 35 .. 36, [gpio_10_11 |-> 0, pcie_b2_clk_wak |-> 1, nor_addr_8_9 |-> 2])) =
          {"gpio_10_11", "pcie_b2_clk_wak", "nor_addr_8_9"}
    BY PadNames
  <2>2. Pad1(22, 35 .. 36, [gpio_10_11 |-> 0, pcie_b2_clk_wak |-> 1, nor_addr_8_9 |-> 2]) \subseteq ns2_pin_groups
    BY ZenonT(40) DEF ns2_pin_groups
  <2>3. {"gpio_10_11", "pcie_b2_clk_wak", "nor_addr_8_9"} \subseteq F
    BY <1>2 DEF ns2_pin_functions
  <2> QED BY <2>1, <2>2, <2>3, NamesSubset DEF Names
<1>8. /\ \A g \in Pad1(20, 37 .. 38, [gpio_12_13 |-> 0, pcie_a2_clk_wak |-> 1, nor_addr_10_11 |-> 2]) : g.name \in F
      /\ {"gpio_12_13", "pcie_a2_clk_wak", "nor_addr_10_11"} \subseteq Names(ns2_pin_groups)
  <2>1. Names(Pad1(20, 37 .. 38, [gpio_12_13 |-> 0, pcie_a2_clk_wak |-> 1, nor_addr_10_11 |-> 2])) =
          {"gpio_12_13", "pcie_a2_clk_wak", "nor_addr_10_11"}
    BY PadNames
  <2>2. Pad1(20, 37 .. 38, [gpio_12_13 |-> 0, pcie_a2_clk_wak |-> 1, nor_addr_10_11 |-> 2]) \subseteq ns2_pin_groups
    BY ZenonT(40) DEF ns2_pin_groups
  <2>3. {"gpio_12_13", "pcie_a2_clk_wak", "nor_addr_10_11"} \subseteq F
    BY <1>2 DEF ns2_pin_functions
  <2> QED BY <2>1, <2>2, <2>3, NamesSubset DEF Names
<1>9. /\ \A g \in Pad1(18, 39 .. 42, [gpio_14_17 |-> 0, uart0_modem |-> 1, nor_addr_12_15 |-> 2]) : g.name \in F
      /\ {"gpio_14_17", "uart0_modem", "nor_addr_12_15"} \subseteq Names(ns2_pin_groups)
  <2>1. Names(Pad1(18, 39 .. 42, [gpio_14_17 |-> 0, uart0_modem |-> 1, nor_addr_12_15 |-> 2])) =
          {"gpio_14_17", "uart0_modem", "nor_addr_12_15"}
    BY PadNames
  <2>2. Pad1(18, 39 .. 42, [gpio_14_17 |-> 0, uart0_modem |-> 1, nor_addr_12_15 |-> 2]) \subseteq ns2_pin_groups
    BY ZenonT(40) DEF ns2_pin_groups
  <2>3. {"gpio_14_17", "uart0_modem", "nor_addr_12_15"} \subseteq F
    BY <1>2 DEF ns2_pin_functions
  <2> QED BY <2>1, <2>2, <2>3, NamesSubset DEF Names
<1>10. /\ \A g \in Pad1(16, 43 .. 44, [gpio_18_19 |-> 0, uart0_rts_cts |-> 1]) : g.name \in F
      /\ {"gpio_18_19", "uart0_rts_cts"} \subseteq Names(ns2_pin_groups)
  <2>1. Names(Pad1(16, 43 .. 44, [gpio_18_19 |-> 0, uart0_rts_cts |-> 1])) =
          {"gpio_18_19", "uart0_rts_cts"}
    BY PadNames
  <2>2. Pad1(16, 43 .. 44, [gpio_18_19 |-> 0, uart0_rts_cts |-> 1]) \subseteq ns2_pin_groups
    BY ZenonT(40) DEF ns2_pin_groups
  <2>3. {"gpio_18_19", "uart0_rts_cts"} \subseteq F
    BY <1>2 DEF ns2_pin_functions
  <2> QED BY <2>1, <2>2, <2>3, NamesSubset DEF Names
<1>11. /\ \A g \in Pad1(14, 45 .. 46, [gpio_20_21 |-> 0, uart0_in_out |-> 1]) : g.name \in F
      /\ {"gpio_20_21", "uart0_in_out"} \subseteq Names(ns2_pin_groups)
  <2>1. Names(Pad1(14, 45 .. 46, [gpio_20_21 |-> 0, uart0_in_out |-> 1])) =
          {"gpio_20_21", "uart0_in_out"}
    BY PadNames
  <2>2. Pad1(14, 45 .. 46, [gpio_20_21 |-> 0, uart0_in_out |-> 1]) \subseteq ns2_pin_groups
    BY ZenonT(40) DEF ns2_pin_groups
  <2>3. {"gpio_20_21", "uart0_in_out"} \subseteq F
    BY <1>2 DEF ns2_pin_functions
  <2> QED BY <2>1, <2>2, <2>3, NamesSubset DEF Names
<1>12. /\ \A g \in Pad1(12, 47 .. 48, [gpio_22_23 |-> 0, uart1_dcd_dsr |-> 1]) : g.name \in F
      /\ {"gpio_22_23", "uart1_dcd_dsr"} \subseteq Names(ns2_pin_groups)
  <2>1. Names(Pad1(12, 47 .. 48, [gpio_22_23 |-> 0, uart1_dcd_dsr |-> 1])) =
          {"gpio_22_23", "uart1_dcd_dsr"}
    BY PadNames
  <2>2. Pad1(12, 47 .. 48, [gpio_22_23 |-> 0, uart1_dcd_dsr |-> 1]) \subseteq ns2_pin_groups
    BY ZenonT(40) DEF ns2_pin_groups
  <2>3. {"gpio_22_23", "uart1_dcd_dsr"} \subseteq F
    BY <1>2 DEF ns2_pin_functions
  <2> QED BY <2>1, <2>2, <2>3, NamesSubset DEF Names
<1>13. /\ \A g \in Pad1(10, 49 .. 50, [gpio_24_25 |-> 0, uart1_ri_dtr |-> 1]) : g.name \in F
      /\ {"gpio_24_25", "uart1_ri_dtr"} \subseteq Names(ns2_pin_groups)
  <2>1. Names(Pad1(10, 49 .. 50, [gpio_24_25 |-> 0, uart1_ri_dtr |-> 1])) =
          {"gpio_24_25", "uart1_ri_dtr"}
    BY PadNames
  <2>2. Pad1(10, 49 .. 50, [gpio_24_25 |-> 0, uart1_ri_dtr |-> 1]) \subseteq ns2_pin_groups
    BY ZenonT(40) DEF ns2_pin_groups
  <2>3. {"gpio_24_25", "uart1_ri_dtr"} \subseteq F
    BY <1>2 DEF ns2_pin_functions
  <2> QED BY <2>1, <2>2, <2>3, NamesSubset DEF Names
<1>14. /\ \A g \in Pad1(8, 51 .. 52, [gpio_26_27 |-> 0, uart1_rts_cts |-> 1]) : g.name \in F
      /\ {"gpio_26_27", "uart1_rts_cts"} \subseteq Names(ns2_pin_groups)
  <2>1. Names(Pad1(8, 51 .. 52, [gpio_26_27 |-> 0, uart1_rts_cts |-> 1])) =
          {"gpio_26_27", "uart1_rts_cts"}
    BY PadNames
  <2>2. Pad1(8, 51 .. 52, [gpio_26_27 |-> 0, uart1_rts_cts |-> 1]) \subseteq ns2_pin_groups
    BY ZenonT(40) DEF ns2_pin_groups
  <2>3. {"gpio_26_27", "uart1_rts_cts"} \subseteq F
    BY <1>2 DEF ns2_pin_functions
  <2> QED BY <2>1, <2>2, <2>3, NamesSubset DEF Names
<1>15. /\ \A g \in Pad1(6, 53 .. 54, [gpio_28_29 |-> 0, uart1_in_out |-> 1]) : g.name \in F
      /\ {"gpio_28_29", "uart1_in_out"} \subseteq Names(ns2_pin_groups)
  <2>1. Names(Pad1(6, 53 .. 54, [gpio_28_29 |-> 0, uart1_in_out |-> 1])) =
          {"gpio_28_29", "uart1_in_out"}
    BY PadNames
  <2>2. Pad1(6, 53 .. 54, [gpio_28_29 |-> 0, uart1_in_out |-> 1]) \subseteq ns2_pin_groups
    BY ZenonT(40) DEF ns2_pin_groups
  <2>3. {"gpio_28_29", "uart1_in_out"} \subseteq F
    BY <1>2 DEF ns2_pin_functions
  <2> QED BY <2>1, <2>2, <2>3, NamesSubset DEF Names
<1>16. /\ \A g \in Pad1(4, 55 .. 56, [gpio_30_31 |-> 0, uart2_rts_cts |-> 1]) : g.name \in F
      /\ {"gpio_30_31", "uart2_rts_cts"} \subseteq Names(ns2_pin_groups)
  <2>1. Names(Pad1(4, 55 .. 56, [gpio_30_31 |-> 0, uart2_rts_cts |-> 1])) =
          {"gpio_30_31", "uart2_rts_cts"}
    BY PadNames
  <2>2. Pad1(4, 55 .. 56, [gpio_30_31 |-> 0, uart2_rts_cts |-> 1]) \subseteq ns2_pin_groups
    BY ZenonT(40) DEF ns2_pin_groups
  <2>3. {"gpio_30_31", "uart2_rts_cts"} \subseteq F
    BY <1>2 DEF ns2_pin_functions
  <2> QED BY <2>1, <2>2, <2>3, NamesSubset DEF Names
<1>17. /\ \A g \in {G("nand", 0 .. 23, 0, 0, 31, 1, 0), G("nor_data", 0 .. 25, 0, 0, 31, 1, 1),
               G("gpio_0_1", 24 .. 25, 0, 0, 31, 1, 0)} : g.name \in F
      /\ {"nand", "nor_data", "gpio_0_1"} \subseteq Names(ns2_pin_groups)
  <2>1. Names({G("nand", 0 .. 23, 0, 0, 31, 1, 0), G("nor_data", 0 .. 25, 0, 0, 31, 1, 1),
               G("gpio_0_1", 24 .. 25, 0, 0, 31, 1, 0)}) = {"nand", "nor_data", "gpio_0_1"}
    BY DEF Names, G
  <2>2. {G("nand", 0 .. 23, 0, 0, 31, 1, 0), G("nor_data", 0 .. 25, 0, 0, 31, 1, 1),
               G("gpio_0_1", 24 .. 25, 0, 0, 31, 1, 0)} \subseteq ns2_pin_groups
    BY ZenonT(40) DEF ns2_pin_groups
  <2>3. {"nand", "nor_data", "gpio_0_1"} \subseteq F
    BY <1>2 DEF ns2_pin_functions
  <2> QED BY <2>1, <2>2, <2>3, NamesSubset DEF Names
<1>18. /\ \A g \in {G("pwm_0", {24}, 1, 0, 0, 1, 1), G("pwm_1", {25}, 1, 0, 1, 1, 1),
               G("pwm_2", {27}, 1, 0, 2, 1, 1), G("pwm_3", {28}, 1, 0, 3, 1, 1)} : g.name \in F
      /\ {"pwm_0", "pwm_1", "pwm_2", "pwm_3"} \subseteq Names(ns2_pin_groups)
  <2>1. Names({G("pwm_0", {24}, 1, 0, 0, 1, 1), G("pwm_1", {25}, 1, 0, 1, 1, 1),
               G("pwm_2", {27}, 1, 0, 2, 1, 1), G("pwm_3", {28}, 1, 0, 3, 1, 1)}) =
          {"pwm_0", "pwm_1", "pwm_2", "pwm_3"}
    BY DEF Names, G
  <2>2. {G("pwm_0", {24}, 1, 0, 0, 1, 1), G("pwm_1", {25}, 1, 0, 1, 1, 1),
               G("pwm_2", {27}, 1, 0, 2, 1, 1), G("pwm_3", {28}, 1, 0, 3, 1, 1)} \subseteq ns2_pin_groups
    BY ZenonT(40) DEF ns2_pin_groups
  <2>3. {"pwm_0", "pwm_1", "pwm_2", "pwm_3"} \subseteq F
    BY <1>2 DEF ns2_pin_functions
  <2> QED BY <2>1, <2>2, <2>3, NamesSubset DEF Names
<1>19. F \subseteq Names(ns2_pin_groups)
  <2> HIDE DEF F
  <2> QED BY <1>2, <1>3, <1>4, <1>5, <1>6, <1>7, <1>8, <1>9, <1>10, <1>11, <1>12, <1>13,
           <1>14, <1>15, <1>16, <1>17, <1>18 DEF ns2_pin_functions
<1>20. \A g \in ns2_pin_groups : g.name \in F
  <2> HIDE DEF F
  <2> QED BY <1>3, <1>4, <1>5, <1>6, <1>7, <1>8, <1>9, <1>10, <1>11, <1>12, <1>13,
           <1>14, <1>15, <1>16, <1>17, <1>18 DEF ns2_pin_groups
<1> QED BY <1>19, <1>20 DEF Names
------------------------------------------------------------------------------
(* The configuration registers.                                              *)

Pins == 63 .. 118
Fields == {"src", "input_en", "pull", "drive"}

\* Pins of one register have bytes of their own in it ...
LEMMA LanesApart ==
    ASSUME NEW p \in Pins
    PROVE  /\ Lane(p) \in Nat /\ Lane(p) <= 24 /\ Register(p) \in Nat
           /\ \A q \in Pins : p # q /\ Register(p) = Register(q) => Lane(p) + 8 <= Lane(q) \/ Lane(q) + 8 <= Lane(p)
BY DEF Pins, Lane, Register

\* ... and the fields of a pin are bits of their own in its byte.
LEMMA FieldTable ==
    /\ Shift["src"] = 7 /\ Shift["input_en"] = 6 /\ Shift["pull"] = 3 /\ Shift["drive"] = 0
    /\ Width["src"] = 1 /\ Width["input_en"] = 1 /\ Width["pull"] = 2 /\ Width["drive"] = 3
BY DEF Shift, Width

LEMMA FieldsApart ==
    ASSUME NEW f \in Fields
    PROVE  /\ Shift[f] \in 0 .. 7 /\ Width[f] \in 1 .. 3 /\ Shift[f] + Width[f] <= 8
           /\ \A g \in Fields : f # g => Shift[f] + Width[f] <= Shift[g] \/ Shift[g] + Width[g] <= Shift[f]
BY FieldTable DEF Fields

LEMMA BitsApart ==
    ASSUME NEW p \in Pins, NEW q \in Pins, Register(p) = Register(q), NEW f \in Fields, NEW g \in Fields,
           p # q \/ f # g, NEW i \in 0 .. Width[f] - 1, NEW j \in 0 .. Width[g] - 1
    PROVE  Lane(p) + Shift[f] + i # Lane(q) + Shift[g] + j
<1>1. /\ Lane(p) \in Nat /\ Lane(q) \in Nat
      /\ p # q => Lane(p) + 8 <= Lane(q) \/ Lane(q) + 8 <= Lane(p)
  BY LanesApart
<1>2. /\ Shift[f] \in Nat /\ Width[f] \in Nat /\ Shift[f] + Width[f] <= 8
      /\ Shift[g] \in Nat /\ Width[g] \in Nat /\ Shift[g] + Width[g] <= 8
      /\ f # g => Shift[f] + Width[f] <= Shift[g] \/ Shift[g] + Width[g] <= Shift[f]
  BY FieldsApart
<1> QED BY <1>1, <1>2

\* A field reads back as it was written; no other field is changed.
LEMMA GetIs ==
    ASSUME NEW reg, NEW p, NEW f
    PROVE  Get(reg, p, f) = (IF 0 < Width[f] /\ Lane(p) + Shift[f] + 0 \in reg THEN 1 ELSE 0)
                          + (IF 1 < Width[f] /\ Lane(p) + Shift[f] + 1 \in reg THEN 2 ELSE 0)
                          + (IF 2 < Width[f] /\ Lane(p) + Shift[f] + 2 \in reg THEN 4 ELSE 0)
BY DEF Get, BIT

LEMMA PutElsewhere ==
    ASSUME NEW p \in Pins, NEW q \in Pins, Register(p) = Register(q), NEW f \in Fields, NEW g \in Fields,
           p # q \/ f # g, NEW reg, NEW v
    PROVE  Get(Put(reg, p, f, v), q, g) = Get(reg, q, g)
<1>1. /\ Width[f] \in Nat /\ Width[g] \in Nat /\ Shift[f] \in Nat /\ Shift[g] \in Nat
      /\ Lane(p) \in Nat /\ Lane(q) \in Nat
  BY FieldsApart, LanesApart
<1>2. ASSUME NEW j \in 0 .. Width[g] - 1
      PROVE  Lane(q) + Shift[g] + j \in Put(reg, p, f, v) <=> Lane(q) + Shift[g] + j \in reg
  <2>1. \A i \in 0 .. Width[f] - 1 : Lane(p) + Shift[f] + i # Lane(q) + Shift[g] + j
    BY BitsApart
  <2>2. PICK low : low = Lane(p) + Shift[f] /\ low \in Nat
    BY <1>1
  <2>3. PICK b : b = Lane(q) + Shift[g] + j /\ b \in Nat
    BY <1>1
  <2>4. b \notin low .. low + Width[f] - 1
    <3>1. SUFFICES ASSUME b \in low .. low + Width[f] - 1 PROVE FALSE
      OBVIOUS
    <3>2. b - low \in 0 .. Width[f] - 1 /\ low + (b - low) = b
      BY <1>1, <2>2, <2>3, <3>1
    <3> QED BY <2>1, <2>2, <2>3, <3>2
  <2>5. b \notin {low + i : i \in Bits(v, Width[f])}
    BY <2>1, <2>2, <2>3 DEF Bits
  <2>6. Put(reg, p, f, v) = (reg \ (low .. low + Width[f] - 1)) \cup {low + i : i \in Bits(v, Width[f])}
    BY <2>2 DEF Put
  <2> QED BY <2>3, <2>4, <2>5, <2>6
<1>3. /\ 0 < Width[g] => (Lane(q) + Shift[g] + 0 \in Put(reg, p, f, v) <=> Lane(q) + Shift[g] + 0 \in reg)
      /\ 1 < Width[g] => (Lane(q) + Shift[g] + 1 \in Put(reg, p, f, v) <=> Lane(q) + Shift[g] + 1 \in reg)
      /\ 2 < Width[g] => (Lane(q) + Shift[g] + 2 \in Put(reg, p, f, v) <=> Lane(q) + Shift[g] + 2 \in reg)
  BY <1>1, <1>2
<1> QED BY <1>3, GetIs

LEMMA PutHere ==
    ASSUME NEW p \in Pins, NEW f \in Fields, NEW reg, NEW v \in Nat,
           v <= IF f = "drive" THEN 7 ELSE IF f = "pull" THEN 3 ELSE 1
    PROVE  Get(Put(reg, p, f, v), p, f) = v
<1>1. PICK low : low = Lane(p) + Shift[f] /\ low \in Nat
  BY FieldsApart, LanesApart
<1>2. PICK w : w = Width[f] /\ w \in 1 .. 3 /\ v <= (IF w = 3 THEN 7 ELSE IF w = 2 THEN 3 ELSE 1)
  BY FieldsApart, FieldTable DEF Fields
<1>3. Put(reg, p, f, v) = (reg \ (low .. low + w - 1)) \cup {low + i : i \in Bits(v, w)}
  BY <1>1, <1>2 DEF Put
<1>4. ASSUME NEW j \in 0 .. w - 1 PROVE low + j \in Put(reg, p, f, v) <=> (v \div BIT(j)) % 2 = 1
  <2>1. low + j \in low .. low + w - 1
    BY <1>1, <1>2
  <2>2. low + j \in Put(reg, p, f, v) <=> \E i \in Bits(v, w) : low + j = low + i
    BY <1>3, <2>1
  <2>3. \A i \in Bits(v, w) : i \in Nat /\ (low + j = low + i => i = j)
    BY <1>1, <1>2 DEF Bits
  <2>4. j \in Bits(v, w) <=> (v \div BIT(j)) % 2 = 1
    BY DEF Bits
  <2> QED BY <2>2, <2>3, <2>4
<1>5. /\ 0 < w /\ low + 0 \in Put(reg, p, f, v) <=> v % 2 = 1
      /\ 1 < w => (low + 1 \in Put(reg, p, f, v) <=> (v \div 2) % 2 = 1)
      /\ 2 < w => (low + 2 \in Put(reg, p, f, v) <=> (v \div 4) % 2 = 1)
  BY <1>2, <1>4 DEF BIT
<1>6. Get(Put(reg, p, f, v), p, f) =
        (IF 0 < w /\ low + 0 \in Put(reg, p, f, v) THEN 1 ELSE 0)
        + (IF 1 < w /\ low + 1 \in Put(reg, p, f, v) THEN 2 ELSE 0)
        + (IF 2 < w /\ low + 2 \in Put(reg, p, f, v) THEN 4 ELSE 0)
  BY <1>1, <1>2, GetIs
<1>7. v \in 0 .. 7 /\ (w = 1 => v \in 0 .. 1) /\ (w = 2 => v \in 0 .. 3)
  BY <1>2
<1> QED BY <1>2, <1>5, <1>6, <1>7
------------------------------------------------------------------------------
(* The invariant.  The log decides: an entry, once made, never changes,      *)
(* because a thread that enters a slot somebody else has entered since it    *)
(* looked enters the same value (groups that want different values share a   *)
(* pin, and the core has given that pin to one device).                      *)

PcSet == {"idle", "scan", "log", "mux", "write mux", "conf", "write conf"}
Config == [param : STRING, arg : Nat]
Configs == Seq(Config)
ReadValue == {<<>>} \cup [UsedSlots -> 0 .. 3] \cup SUBSET (0 .. 31)
Thread == [pc : PcSet, grp : {""} \cup DOMAIN Group, pin : Int, todo : Configs, tmp : ReadValue]
Settings == [pull : Int, drive : Int, src : Int, input_en : Int]
Configured == {q \in ConfPins : Configurable(q)}

Types ==
    /\ TypeOK
    /\ th \in [Device -> Thread]
    /\ mux_log \in [mux_log_init -> [alt : 0 .. 3, is_configured : BOOLEAN]]
    /\ want \in [Configured -> Settings]

Grp(d) == Group[th[d].grp]
Entered(s) == mux_log[s].is_configured
Announced(s) == \E d \in Device : th[d].pc \in {"mux", "write mux"} /\ Grp(d).slot = s

ThreadMux(d) ==
    /\ Muxing(d) => th[d].grp \in Wants[d]
    /\ th[d].pc = "write mux" => th[d].tmp = mux
    /\ th[d].pc = "log" /\ Entered(Grp(d).slot) => mux_log[Grp(d).slot].alt = Grp(d).alt
    /\ th[d].pc \in {"mux", "write mux"} =>
          Entered(Grp(d).slot) /\ mux_log[Grp(d).slot].alt = Grp(d).alt

MuxInv ==
    /\ \A d \in Device : ThreadMux(d)
    /\ \A d, e \in Device : d # e /\ Muxing(d) /\ Muxing(e) => Grp(d).pins \cap Grp(e).pins = {}
    /\ \A h \in held : Entered(Group[h[2]].slot) /\ mux_log[Group[h[2]].slot].alt = Group[h[2]].alt
    /\ \A s \in UsedSlots : Entered(s) => mux[s] = mux_log[s].alt \/ Announced(s)
    /\ \A s \in written : Entered(s) /\ mux[s] = mux_log[s].alt

ThreadConf(d) ==
    /\ th[d].pc \in {"conf", "write conf"} => th[d].pin \in Configured
    /\ th[d].pc = "write conf" =>
          /\ th[d].todo # <<>> /\ Field(Head(th[d].todo)) # "none"
          /\ th[d].tmp = conf[Register(th[d].pin)]

ConfInv == (\A d \in Device : ThreadConf(d)) /\ SettingsKept

Ns2Inv == Types /\ MuxInv /\ ConfInv

LEMMA GroupOf ==
    ASSUME NEW n \in DOMAIN Group
    PROVE  /\ Group[n] \in ns2_pin_groups /\ Group[n].name = n
           /\ Group[n].slot \in mux_log_init /\ Group[n].alt \in 0 .. 3
<1>1. n \in {g.name : g \in ns2_pin_groups}
  BY DEF Group
<1>2. \E g \in ns2_pin_groups : g.name = n
  BY <1>1
<1>3. Group[n] \in ns2_pin_groups /\ Group[n].name = n
  BY <1>1, <1>2 DEF Group
<1> QED BY <1>3, FieldLogged

LEMMA Wanted ==
    ASSUME NEW d \in Device, NEW n \in Wants[d]
    PROVE  /\ n \in DOMAIN Group /\ n \in UNION {Wants[e] : e \in Device} /\ Group[n] \in ns2_pin_groups
           /\ Group[n].slot \in UsedSlots /\ Group[n].slot \in mux_log_init
           /\ Group[n].alt \in 0 .. 3 /\ Group[n].name = n
<1>1. n \in DOMAIN Group /\ n \in UNION {Wants[e] : e \in Device}
  BY Ns2Assumption
<1> QED BY <1>1, GroupOf DEF UsedSlots

LEMMA ConfiguredPins ==
    ASSUME NEW p \in Configured
    PROVE  p \in Pins /\ p \in ConfPins /\ Register(p) \in Registers
<1>1. p \in ConfPins /\ p \in Pins
  BY Ns2Assumption DEF Configured, Configurable, Pins
<1>2. p \notin 0 .. 62
  BY <1>1 DEF Pins
<1> QED BY <1>1, <1>2 DEF Registers

\* A step of a thread that is not multiplexing leaves MuxInv alone, and one of
\* a thread that is multiplexing ConfInv.
LEMMA MuxFrame ==
    ASSUME MuxInv, NEW d \in Device, ~ Muxing(d), ~ Muxing(d)', held' = held, mux_log' = mux_log, mux' = mux,
           written' = written, \A e \in Device \ {d} : th'[e] = th[e]
    PROVE  MuxInv'
<1>1. \A e \in Device : Muxing(e)' => e # d /\ th'[e] = th[e] /\ Muxing(e)
  BY DEF Muxing
<1>2. ASSUME NEW e \in Device PROVE ThreadMux(e)'
  <2>1. CASE Muxing(e)'
    <3>1. th'[e] = th[e] /\ ThreadMux(e)
      BY <1>1, <2>1 DEF MuxInv
    <3> QED BY <3>1 DEF ThreadMux, Muxing, Grp, Entered
  <2>2. CASE ~ Muxing(e)'
    BY <2>2 DEF ThreadMux, Muxing
  <2> QED BY <2>1, <2>2
<1>3. \A s : Announced(s) => Announced(s)'
  BY DEF Announced, Muxing, Grp
<1> QED BY <1>1, <1>2, <1>3 DEF MuxInv, Grp, Entered

LEMMA ConfFrame ==
    ASSUME ConfInv, NEW d \in Device, th'[d].pc \notin {"conf", "write conf"}, conf' = conf, want' = want,
           \A e \in Device \ {d} : th'[e] = th[e]
    PROVE  ConfInv'
<1>1. ASSUME NEW e \in Device PROVE ThreadConf(e)'
  BY DEF ConfInv, ThreadConf
<1>2. SettingsKept'
  BY DEF ConfInv, SettingsKept, config_get
<1> QED BY <1>1, <1>2 DEF ConfInv
------------------------------------------------------------------------------
(* One lemma per action.                                                     *)

LEMMA IdleThread ==
    /\ Idle \in Thread /\ Idle.pc = "idle"
    /\ \A g \in DOMAIN Group : [Idle EXCEPT !.pc = "scan", !.grp = g] \in Thread
    /\ \A p \in Int, cs \in Configs :
          [Idle EXCEPT !.pc = "conf", !.pin = p, !.todo = cs] \in Thread
<1>1. <<>> \in Configs
  BY DEF Configs
<1>2. <<>> \in ReadValue
  BY Zenon DEF ReadValue
<1>3. PICK e : e = <<>>
  OBVIOUS
<1>4. e \in Configs /\ e \in ReadValue
  BY <1>1, <1>2, <1>3, Zenon
<1>5. Idle = [pc |-> "idle", grp |-> "", pin |-> 0, todo |-> e, tmp |-> e]
  BY <1>3, Zenon DEF Idle
<1>6. Idle \in Thread /\ Idle.pc = "idle"
  <2>1. Idle.pc = "idle"
    BY <1>5
  <2>2. "idle" \in PcSet /\ "" \in {""} \cup DOMAIN Group /\ 0 \in Int
    BY DEF PcSet
  <2>3. Idle \in Thread
    BY <1>4, <1>5, <2>2, Zenon DEF Thread
  <2> QED BY <2>1, <2>3
<1> QED BY <1>6 DEF Thread, PcSet

LEMMA InitInv == ASSUME Init PROVE Ns2Inv
<1>1. \A d \in Device : th[d] = Idle /\ th[d].pc = "idle"
  BY IdleThread DEF Init
<1>2. ASSUME NEW p \in Configured PROVE config_get(p) \in Settings
  <2>1. \A f : Get(conf[Register(p)], p, f) \in Int
    BY DEF Get, BIT
  <2> QED BY <2>1 DEF config_get, Settings
<1>3. want \in [Configured -> Settings] /\ SettingsKept
  BY <1>2 DEF Init, Configured, SettingsKept
<1>4. mux_log \in [mux_log_init -> [alt : 0 .. 3, is_configured : BOOLEAN]]
      /\ \A s \in mux_log_init : mux_log[s].alt = 0 /\ mux_log[s].is_configured = FALSE
  BY DEF Init
<1>5. TypeOK
  <2>1. mux \in [UsedSlots -> 0 .. 3] /\ conf \in [Registers -> SUBSET (0 .. 31)]
    BY Ns2Assumption DEF Init
  <2>2. \A d \in Device : lock = d <=> th[d].pc \in {"write mux", "write conf"}
    BY <1>1, Ns2Assumption DEF Init
  <2> QED BY <1>4, <2>1, <2>2 DEF Init, TypeOK
<1>6. th \in [Device -> Thread]
  BY IdleThread DEF Init
<1>7. UsedSlots \subseteq mux_log_init
  BY Wanted DEF UsedSlots
<1>8. MuxInv
  BY <1>1, <1>4, <1>7 DEF Init, MuxInv, ThreadMux, Muxing, Entered
<1>9. ConfInv
  BY <1>1, <1>3 DEF ConfInv, ThreadConf
<1> QED BY <1>3, <1>4, <1>5, <1>6, <1>8, <1>9 DEF Ns2Inv, Types

LEMMA EnableStep ==
    ASSUME Ns2Inv, NEW d \in Device, NEW g \in Wants[d], Enable(d, g)
    PROVE  Ns2Inv'
<1>1. /\ th \in [Device -> Thread] /\ Types /\ MuxInv /\ ConfInv
      /\ g \in DOMAIN Group
  BY Wanted DEF Ns2Inv, Types
<1>2. /\ th'[d].pc = "scan" /\ th'[d].grp = g /\ th' \in [Device -> Thread]
      /\ \A e \in Device \ {d} : th'[e] = th[e]
  BY <1>1, IdleThread DEF Enable, Idle
<1>3. Types'
  BY <1>1, <1>2 DEF Enable, Types, TypeOK
<1>4. ASSUME NEW e \in Device PROVE ThreadMux(e)'
  <2>1. CASE e = d
    BY <1>2, <2>1 DEF ThreadMux, Muxing
  <2>2. CASE e # d
    <3>1. th'[e] = th[e] /\ ThreadMux(e) /\ mux' = mux /\ mux_log' = mux_log
      BY <1>1, <1>2, <2>2 DEF MuxInv, Enable
    <3> QED BY <3>1 DEF ThreadMux, Muxing, Grp, Entered
  <2> QED BY <2>1, <2>2
<1>5. ASSUME NEW e \in Device, e # d, Muxing(e)' PROVE Group[g].pins \cap (Grp(e).pins)' = {}
  <2>1. Muxing(e) /\ (Grp(e).pins)' = Group[th[e].grp].pins
    BY <1>2, <1>5 DEF Muxing, Grp
  <2>2. Group[th[e].grp].pins \subseteq Claimed(d)
    <3>1. e \in {k \in Device \ {d} : Muxing(k)}
      BY <1>5, <2>1
    <3>2. Group[th[e].grp].pins \in {Group[th[k].grp].pins : k \in {k \in Device \ {d} : Muxing(k)}}
      BY <3>1
    <3> QED BY <3>2, Zenon DEF Claimed
  <2> QED BY <2>1, <2>2 DEF Enable
<1>6. \A a, e \in Device : a # e /\ Muxing(a)' /\ Muxing(e)' => (Grp(a).pins)' \cap (Grp(e).pins)' = {}
  BY <1>1, <1>2, <1>5 DEF MuxInv, Muxing, Grp
<1>7. \A s : Announced(s) => Announced(s)'
  BY <1>2 DEF Announced, Grp, Enable
<1>8. MuxInv'
  BY <1>1, <1>4, <1>6, <1>7 DEF MuxInv, Entered, Enable
<1>9. ConfInv'
  <2>1. conf' = conf /\ want' = want /\ th'[d].pc \notin {"conf", "write conf"}
    BY <1>2 DEF Enable
  <2> QED BY <1>1, <1>2, <2>1, ConfFrame
<1> QED BY <1>3, <1>8, <1>9 DEF Ns2Inv

LEMMA DisableStep ==
    ASSUME Ns2Inv, NEW d \in Device, NEW g \in Wants[d], Disable(d, g)
    PROVE  Ns2Inv'
<1>1. /\ held' \subseteq held /\ mux_log' = mux_log /\ mux' = mux /\ conf' = conf /\ lock' = lock /\ th' = th
      /\ written' = written /\ want' = want
  BY DEF Disable
<1>2. Types'
  BY <1>1 DEF Ns2Inv, Types, TypeOK
<1>3. MuxInv'
  BY <1>1 DEF Ns2Inv, MuxInv, ThreadMux, Muxing, Grp, Entered, Announced
<1>4. ConfInv'
  BY <1>1 DEF Ns2Inv, ConfInv, ThreadConf, SettingsKept, config_get
<1> QED BY <1>2, <1>3, <1>4 DEF Ns2Inv
\* What Goto and Return do to the threads.
LEMMA GotoIs ==
    ASSUME th \in [Device -> Thread], NEW d \in Device, NEW pc \in PcSet, NEW tmp \in ReadValue, Goto(d, pc, tmp)
    PROVE  /\ th' \in [Device -> Thread] /\ \A e \in Device \ {d} : th'[e] = th[e]
           /\ th'[d].pc = pc /\ th'[d].tmp = tmp
           /\ th'[d].grp = th[d].grp /\ th'[d].pin = th[d].pin /\ th'[d].todo = th[d].todo
<1>1. th[d] \in Thread
  OBVIOUS
<1>2. th'[d] = [th[d] EXCEPT !.pc = pc, !.tmp = tmp] /\ \A e \in Device \ {d} : th'[e] = th[e]
  BY DEF Goto
<1>3. th'[d] \in Thread
  BY <1>1, <1>2 DEF Thread
<1>4. th' \in [Device -> Thread]
  BY <1>3 DEF Goto
<1> QED BY <1>1, <1>2, <1>4 DEF Thread

LEMMA ReturnIs ==
    ASSUME th \in [Device -> Thread], NEW d \in Device, Return(d)
    PROVE  /\ th' \in [Device -> Thread] /\ \A e \in Device \ {d} : th'[e] = th[e]
           /\ th'[d].pc = "idle"
BY IdleThread DEF Return

LEMMA EmptyRead == <<>> \in ReadValue
BY Zenon DEF ReadValue

LEMMA ScanStep ==
    ASSUME Ns2Inv, NEW d \in Device, Scan(d)
    PROVE  Ns2Inv'
<1>1. th \in [Device -> Thread] /\ Types /\ MuxInv /\ ConfInv /\ ThreadMux(d) /\ th[d].pc = "scan"
  BY DEF Ns2Inv, Types, MuxInv, Scan
<1>2. th[d].grp \in Wants[d] /\ Grp(d).name = th[d].grp /\ Grp(d).slot \in mux_log_init
  BY <1>1, Wanted DEF ThreadMux, Muxing, Grp
<1>3. /\ mux_log' = mux_log /\ mux' = mux /\ conf' = conf /\ lock' = lock /\ written' = written /\ want' = want
      /\ \/ Goto(d, "log", <<>>) /\ ~ Entered(Grp(d).slot) /\ held' = held
         \/ Return(d) /\ held' = held
         \/ /\ Return(d) /\ held' = held \cup {<<d, th[d].grp>>}
            /\ Entered(Grp(d).slot) /\ mux_log[Grp(d).slot].alt = Grp(d).alt
  BY <1>1, <1>2 DEF Scan, Grp, Entered
<1>4. /\ th' \in [Device -> Thread] /\ \A e \in Device \ {d} : th'[e] = th[e]
      /\ \/ th'[d].pc = "log" /\ th'[d].grp = th[d].grp /\ ~ Entered(Grp(d).slot)
         \/ th'[d].pc = "idle"
  <2>1. CASE Return(d)
    BY <1>1, <2>1, ReturnIs
  <2>2. CASE Goto(d, "log", <<>>) /\ ~ Entered(Grp(d).slot)
    <3>1. "log" \in PcSet
      BY DEF PcSet
    <3> QED BY <1>1, <2>2, <3>1, EmptyRead, GotoIs
  <2> QED BY <1>3, <2>1, <2>2
<1>5. <<d, th[d].grp>> \in {h \in Device \X UNION {Wants[e] : e \in Device} : h[2] \in Wants[h[1]]}
  BY <1>2, Wanted
<1>6. Types'
  <2>1. held' \subseteq {h \in Device \X UNION {Wants[e] : e \in Device} : h[2] \in Wants[h[1]]}
    BY <1>1, <1>3, <1>5 DEF Types, TypeOK
  <2>2. \A e \in Device : lock' = e <=> th'[e].pc \in {"write mux", "write conf"}
    BY <1>1, <1>3, <1>4 DEF Types, TypeOK
  <2> QED BY <1>1, <1>3, <1>4, <2>1, <2>2 DEF Types, TypeOK
<1>7. ASSUME NEW e \in Device PROVE ThreadMux(e)'
  <2>1. CASE e = d
    BY <1>2, <1>3, <1>4, <2>1 DEF ThreadMux, Muxing, Grp, Entered
  <2>2. CASE e # d
    <3>1. th'[e] = th[e] /\ ThreadMux(e)
      BY <1>1, <1>4, <2>2 DEF MuxInv
    <3> QED BY <1>3, <3>1 DEF ThreadMux, Muxing, Grp, Entered
  <2> QED BY <2>1, <2>2
<1>8. \A e \in Device : Muxing(e)' => Muxing(e) /\ Grp(e)' = Grp(e)
  BY <1>1, <1>4 DEF Muxing, Grp
<1>9. \A s : Announced(s) => Announced(s)'
  <2>1. \A e \in Device : th[e].pc \in {"mux", "write mux"} => th'[e] = th[e]
    BY <1>1, <1>4
  <2> QED BY <2>1 DEF Announced, Grp
<1>10. \A h \in held' : (Entered(Group[h[2]].slot))' /\ (mux_log[Group[h[2]].slot].alt)' = Group[h[2]].alt
  BY <1>1, <1>3 DEF MuxInv, Grp, Entered
<1>11. MuxInv'
  BY <1>1, <1>3, <1>7, <1>8, <1>9, <1>10 DEF MuxInv, Entered
<1>12. ConfInv'
  <2>1. th'[d].pc \notin {"conf", "write conf"}
    BY <1>4
  <2> QED BY <1>1, <1>3, <1>4, <2>1, ConfFrame
<1> QED BY <1>6, <1>11, <1>12 DEF Ns2Inv
LEMMA LogStep ==
    ASSUME Ns2Inv, NEW d \in Device, Log(d)
    PROVE  Ns2Inv'
<1>1. th \in [Device -> Thread] /\ Types /\ MuxInv /\ ConfInv /\ ThreadMux(d) /\ th[d].pc = "log"
  BY DEF Ns2Inv, Types, MuxInv, Log
<1>2. PICK g : g = Grp(d)
  OBVIOUS
<1>3. /\ th[d].grp \in Wants[d] /\ g \in ns2_pin_groups
      /\ g.slot \in mux_log_init /\ g.slot \in UsedSlots /\ g.alt \in 0 .. 3
  BY <1>1, <1>2, Wanted DEF ThreadMux, Muxing, Grp
<1>4. /\ held' = held /\ mux' = mux /\ conf' = conf /\ lock' = lock /\ written' = written /\ want' = want
      /\ Goto(d, "mux", <<>>) /\ mux_log' = [mux_log EXCEPT ![g.slot] = [alt |-> g.alt, is_configured |-> TRUE]]
  BY <1>2 DEF Log, Grp
<1>5. /\ th' \in [Device -> Thread] /\ \A e \in Device \ {d} : th'[e] = th[e]
      /\ th'[d].pc = "mux" /\ th'[d].grp = th[d].grp
  <2>1. "mux" \in PcSet
    BY DEF PcSet
  <2> QED BY <1>1, <1>4, <2>1, EmptyRead, GotoIs
<1>6. /\ mux_log' \in [mux_log_init -> [alt : 0 .. 3, is_configured : BOOLEAN]]
      /\ Entered(g.slot)' /\ mux_log'[g.slot].alt = g.alt
      /\ \A s \in mux_log_init \ {g.slot} : mux_log'[s] = mux_log[s]
  BY <1>1, <1>3, <1>4 DEF Types, Entered
\* An entry that was made keeps its value.
<1>7. ASSUME NEW s \in mux_log_init, Entered(s)
      PROVE  Entered(s)' /\ mux_log'[s].alt = mux_log[s].alt
  <2>1. CASE s = g.slot
    BY <1>1, <1>2, <1>6, <1>7, <2>1 DEF ThreadMux
  <2>2. CASE s # g.slot
    BY <1>6, <1>7, <2>2 DEF Entered
  <2> QED BY <2>1, <2>2
<1>8. Types'
  <2>1. \A e \in Device : lock' = e <=> th'[e].pc \in {"write mux", "write conf"}
    BY <1>1, <1>4, <1>5 DEF Types, TypeOK
  <2>2. \A s \in mux_log_init : mux_log'[s].alt \in 0 .. 3 /\ mux_log'[s].is_configured \in BOOLEAN
    BY <1>6
  <2> QED BY <1>1, <1>4, <1>5, <1>6, <2>1, <2>2 DEF Types, TypeOK
<1>9. ASSUME NEW e \in Device PROVE ThreadMux(e)'
  <2>1. CASE e = d
    BY <1>2, <1>3, <1>5, <1>6, <2>1 DEF ThreadMux, Muxing, Grp
  <2>2. CASE e # d
    <3>1. th'[e] = th[e] /\ ThreadMux(e) /\ Grp(e)' = Grp(e) /\ mux' = mux
      BY <1>1, <1>4, <1>5, <2>2 DEF MuxInv, Grp
    <3>2. Muxing(e) => Grp(e).slot \in mux_log_init /\ Grp(e) \in ns2_pin_groups
      BY <3>1, Wanted DEF ThreadMux, Grp
    <3>3. Muxing(d)
      BY <1>1 DEF Muxing
    <3>4. th[e].pc = "log" /\ Grp(e).slot = g.slot => Grp(e).alt = g.alt
      <4>1. SUFFICES ASSUME th[e].pc = "log", Grp(e).slot = g.slot, Grp(e).alt # g.alt PROVE FALSE
        OBVIOUS
      <4>2. Muxing(e)
        BY <4>1 DEF Muxing
      <4>3. Grp(e).pins \cap g.pins = {}
        BY <1>1, <1>2, <2>2, <3>3, <4>2 DEF MuxInv
      <4> QED BY <1>3, <3>2, <4>1, <4>2, <4>3, FieldShared
    <3>5. th[e].pc = "log" /\ Entered(Grp(e).slot)' => mux_log'[Grp(e).slot].alt = Grp(e).alt
      <4>1. SUFFICES ASSUME th[e].pc = "log", Entered(Grp(e).slot)' PROVE mux_log'[Grp(e).slot].alt = Grp(e).alt
        OBVIOUS
      <4>2. Grp(e).slot \in mux_log_init
        BY <3>2, <4>1 DEF Muxing
      <4>3. CASE Grp(e).slot = g.slot
        BY <1>6, <3>4, <4>1, <4>3
      <4>4. CASE Grp(e).slot # g.slot
        BY <1>6, <3>1, <4>1, <4>2, <4>4 DEF ThreadMux, Entered
      <4> QED BY <4>3, <4>4
    <3>6. th[e].pc \in {"mux", "write mux"} => Entered(Grp(e).slot)' /\ mux_log'[Grp(e).slot].alt = Grp(e).alt
      BY <1>7, <3>1, <3>2 DEF ThreadMux, Muxing
    <3> QED BY <3>1, <3>5, <3>6 DEF ThreadMux, Muxing, Grp, Entered
  <2> QED BY <2>1, <2>2
<1>10. \A e \in Device : (Muxing(e)' => Muxing(e)) /\ Grp(e)' = Grp(e)
  BY <1>1, <1>5 DEF Muxing, Grp
<1>11. \A e1, e2 \in Device : e1 # e2 /\ Muxing(e1)' /\ Muxing(e2)' => (Grp(e1).pins)' \cap (Grp(e2).pins)' = {}
  BY <1>1, <1>10 DEF MuxInv
<1>12. \A h \in held' : (Entered(Group[h[2]].slot))' /\ (mux_log[Group[h[2]].slot].alt)' = Group[h[2]].alt
  <2>1. SUFFICES ASSUME NEW h \in held
                 PROVE  (Entered(Group[h[2]].slot))' /\ (mux_log[Group[h[2]].slot].alt)' = Group[h[2]].alt
    BY <1>4
  <2>2. h[1] \in Device /\ h[2] \in Wants[h[1]]
    BY <1>1 DEF Types, TypeOK
  <2> QED BY <1>1, <1>7, <2>2, Wanted DEF MuxInv
<1>13. UsedSlots \subseteq mux_log_init
  BY Wanted DEF UsedSlots
<1>14. ASSUME NEW s \in UsedSlots, Entered(s)' PROVE (mux[s] = mux_log[s].alt)' \/ Announced(s)'
  <2>1. CASE s = g.slot
    BY <1>2, <1>5, <1>10, <2>1 DEF Announced, Grp
  <2>2. CASE s # g.slot
    <3>1. Entered(s) /\ mux_log'[s] = mux_log[s]
      BY <1>6, <1>13, <1>14, <2>2 DEF Entered
    <3>2. Announced(s) => Announced(s)'
      <4>1. \A e \in Device : th[e].pc \in {"mux", "write mux"} => th'[e] = th[e]
        BY <1>1, <1>5
      <4> QED BY <4>1 DEF Announced, Grp
    <3> QED BY <1>1, <1>4, <3>1, <3>2 DEF MuxInv
  <2> QED BY <2>1, <2>2
<1>15. ASSUME NEW s \in written' PROVE Entered(s)' /\ (mux[s] = mux_log[s].alt)'
  <2>1. s \in written /\ s \in mux_log_init
    BY <1>1, <1>4, <1>13 DEF Types, TypeOK
  <2> QED BY <1>1, <1>4, <1>7, <2>1 DEF MuxInv
<1>16. MuxInv'
  BY <1>9, <1>11, <1>12, <1>14, <1>15 DEF MuxInv
<1>17. ConfInv'
  <2>1. th'[d].pc \notin {"conf", "write conf"}
    BY <1>5
  <2> QED BY <1>1, <1>4, <1>5, <2>1, ConfFrame
<1> QED BY <1>8, <1>16, <1>17 DEF Ns2Inv

LEMMA LockMuxStep ==
    ASSUME Ns2Inv, NEW d \in Device, LockMux(d)
    PROVE  Ns2Inv'
<1>1. th \in [Device -> Thread] /\ Types /\ MuxInv /\ ConfInv /\ ThreadMux(d) /\ th[d].pc = "mux" /\ lock = "none"
  BY DEF Ns2Inv, Types, MuxInv, LockMux
<1>2. /\ held' = held /\ mux_log' = mux_log /\ mux' = mux /\ conf' = conf /\ lock' = d
      /\ written' = written /\ want' = want /\ Goto(d, "write mux", mux)
  BY DEF LockMux
<1>3. /\ th' \in [Device -> Thread] /\ \A e \in Device \ {d} : th'[e] = th[e]
      /\ th'[d].pc = "write mux" /\ th'[d].grp = th[d].grp /\ th'[d].tmp = mux
  <2>1. "write mux" \in PcSet
    BY DEF PcSet
  <2>2. mux \in ReadValue
    BY <1>1 DEF Types, TypeOK, ReadValue
  <2> QED BY <1>1, <1>2, <2>1, <2>2, GotoIs
<1>4. Types'
  <2>1. \A e \in Device : lock' = e <=> th'[e].pc \in {"write mux", "write conf"}
    BY <1>1, <1>2, <1>3, Ns2Assumption DEF Types, TypeOK
  <2> QED BY <1>1, <1>2, <1>3, <2>1 DEF Types, TypeOK
<1>5. ASSUME NEW e \in Device PROVE ThreadMux(e)'
  <2>1. CASE e = d
    BY <1>1, <1>2, <1>3, <2>1 DEF ThreadMux, Muxing, Grp, Entered
  <2>2. CASE e # d
    <3>1. th'[e] = th[e] /\ ThreadMux(e)
      BY <1>1, <1>3, <2>2 DEF MuxInv
    <3> QED BY <1>2, <3>1 DEF ThreadMux, Muxing, Grp, Entered
  <2> QED BY <2>1, <2>2
<1>6. \A e \in Device : (Muxing(e)' => Muxing(e)) /\ Grp(e)' = Grp(e)
  BY <1>1, <1>3 DEF Muxing, Grp
<1>7. \A s : Announced(s) => Announced(s)'
  <2>1. \A e \in Device : th[e].pc \in {"mux", "write mux"} => th'[e].pc \in {"mux", "write mux"}
    BY <1>1, <1>3
  <2> QED BY <1>6, <2>1 DEF Announced
<1>8. MuxInv'
  BY <1>1, <1>2, <1>5, <1>6, <1>7 DEF MuxInv, Entered
<1>9. ConfInv'
  <2>1. th'[d].pc \notin {"conf", "write conf"}
    BY <1>3
  <2> QED BY <1>1, <1>2, <1>3, <2>1, ConfFrame
<1> QED BY <1>4, <1>8, <1>9 DEF Ns2Inv
\* The write changes the field of its own group only, and not if it was written.
LEMMA WriteMuxIs ==
    ASSUME Ns2Inv, NEW d \in Device, WriteMux(d)
    PROVE  /\ Grp(d).slot \in UsedSlots /\ Grp(d).alt \in 0 .. 3
           /\ Entered(Grp(d).slot) /\ mux_log[Grp(d).slot].alt = Grp(d).alt
           /\ mux' \in [UsedSlots -> 0 .. 3] /\ mux'[Grp(d).slot] = Grp(d).alt
           /\ \A s \in UsedSlots \ {Grp(d).slot} : mux'[s] = mux[s]
<1>1. Types /\ ThreadMux(d) /\ th[d].pc = "write mux" /\ th[d].tmp = mux
  BY DEF Ns2Inv, MuxInv, WriteMux, ThreadMux
<1>2. th[d].grp \in Wants[d]
  BY <1>1 DEF ThreadMux, Muxing
<1>3. /\ Grp(d).slot \in UsedSlots /\ Grp(d).alt \in 0 .. 3
      /\ Entered(Grp(d).slot) /\ mux_log[Grp(d).slot].alt = Grp(d).alt
  BY <1>1, <1>2, Wanted DEF ThreadMux, Grp
<1>4. mux' = [s \in UsedSlots |-> IF s = Grp(d).slot THEN Grp(d).alt ELSE mux[s]]
  BY <1>1 DEF WriteMux, Grp
<1>5. mux \in [UsedSlots -> 0 .. 3]
  BY <1>1 DEF Types, TypeOK
<1> QED BY <1>3, <1>4, <1>5

LEMMA WriteMuxStep ==
    ASSUME Ns2Inv, NEW d \in Device, WriteMux(d)
    PROVE  Ns2Inv'
<1>1. th \in [Device -> Thread] /\ Types /\ MuxInv /\ ConfInv /\ ThreadMux(d) /\ th[d].pc = "write mux"
  BY DEF Ns2Inv, Types, MuxInv, WriteMux
<1>2. PICK g : g = Grp(d)
  OBVIOUS
<1>3. /\ g.slot \in UsedSlots /\ g.alt \in 0 .. 3 /\ Entered(g.slot) /\ mux_log[g.slot].alt = g.alt
      /\ mux' \in [UsedSlots -> 0 .. 3] /\ mux'[g.slot] = g.alt
      /\ \A s \in UsedSlots \ {g.slot} : mux'[s] = mux[s]
  BY <1>2, WriteMuxIs
<1>4. th[d].grp \in Wants[d] /\ g.name = th[d].grp
  BY <1>1, <1>2, Wanted DEF ThreadMux, Muxing, Grp
<1>5. /\ held' = held \cup {<<d, th[d].grp>>} /\ mux_log' = mux_log /\ conf' = conf /\ want' = want
      /\ lock' = "none" /\ written' = written \cup {g.slot} /\ Return(d)
  BY <1>2, <1>4 DEF WriteMux, Grp
<1>6. th' \in [Device -> Thread] /\ (\A e \in Device \ {d} : th'[e] = th[e]) /\ th'[d].pc = "idle"
  BY <1>1, <1>5, ReturnIs
<1>7. \A e \in Device \ {d} : th[e].pc \notin {"write mux", "write conf"}
  BY <1>1 DEF Types, TypeOK
<1>8. Types'
  <2>1. <<d, th[d].grp>> \in {h \in Device \X UNION {Wants[e] : e \in Device} : h[2] \in Wants[h[1]]}
    BY <1>4, Wanted
  <2>2. held' \subseteq {h \in Device \X UNION {Wants[e] : e \in Device} : h[2] \in Wants[h[1]]}
    BY <1>1, <1>5, <2>1 DEF Types, TypeOK
  <2>3. \A e \in Device : lock' = e <=> th'[e].pc \in {"write mux", "write conf"}
    BY <1>5, <1>6, <1>7, Ns2Assumption
  <2> QED BY <1>1, <1>3, <1>5, <1>6, <2>2, <2>3 DEF Types, TypeOK
<1>9. ASSUME NEW e \in Device PROVE ThreadMux(e)'
  <2>1. CASE e = d
    BY <1>6, <2>1 DEF ThreadMux, Muxing
  <2>2. CASE e # d
    <3>1. th'[e] = th[e] /\ ThreadMux(e) /\ th[e].pc # "write mux"
      BY <1>1, <1>6, <1>7, <2>2 DEF MuxInv
    <3> QED BY <1>5, <3>1 DEF ThreadMux, Muxing, Grp, Entered
  <2> QED BY <2>1, <2>2
<1>10. \A e \in Device : Muxing(e)' => e # d /\ Muxing(e) /\ Grp(e)' = Grp(e)
  BY <1>6 DEF Muxing, Grp
<1>11. \A h \in held' : (Entered(Group[h[2]].slot))' /\ (mux_log[Group[h[2]].slot].alt)' = Group[h[2]].alt
  <2>1. SUFFICES ASSUME NEW h \in held'
                 PROVE  Entered(Group[h[2]].slot) /\ mux_log[Group[h[2]].slot].alt = Group[h[2]].alt
    BY <1>5 DEF Entered
  <2>2. CASE h \in held
    BY <1>1, <2>2 DEF MuxInv
  <2>3. CASE h = <<d, th[d].grp>>
    <3>1. Group[h[2]] = g
      BY <1>2, <2>3 DEF Grp
    <3> QED BY <1>3, <3>1
  <2> QED BY <1>5, <2>2, <2>3
<1>12. ASSUME NEW s \in UsedSlots, s # g.slot, Announced(s) PROVE Announced(s)'
  BY <1>2, <1>6, <1>12 DEF Announced, Grp
<1>13. \A s \in UsedSlots : Entered(s)' => (mux[s] = mux_log[s].alt)' \/ Announced(s)'
  <2>1. SUFFICES ASSUME NEW s \in UsedSlots, Entered(s) PROVE mux'[s] = mux_log[s].alt \/ Announced(s)'
    BY <1>5 DEF Entered
  <2>2. CASE s = g.slot
    BY <1>3, <2>2
  <2>3. CASE s # g.slot
    BY <1>1, <1>3, <1>12, <2>1, <2>3 DEF MuxInv
  <2> QED BY <2>2, <2>3
<1>14. \A s \in written' : Entered(s)' /\ (mux[s] = mux_log[s].alt)'
  <2>1. written \subseteq UsedSlots
    BY <1>1 DEF Types, TypeOK
  <2> QED BY <1>1, <1>3, <1>5, <2>1 DEF MuxInv, Entered
<1>15. MuxInv'
  BY <1>1, <1>9, <1>10, <1>11, <1>13, <1>14 DEF MuxInv
<1>16. ConfInv'
  <2>1. th'[d].pc \notin {"conf", "write conf"}
    BY <1>6
  <2> QED BY <1>1, <1>5, <1>6, <2>1, ConfFrame
<1> QED BY <1>8, <1>15, <1>16 DEF Ns2Inv

LEMMA ConfigSetStep ==
    ASSUME Ns2Inv, NEW d \in Device, NEW p \in ConfPins, NEW cs \in ConfCalls, ConfigSet(d, p, cs)
    PROVE  Ns2Inv'
<1>1. th \in [Device -> Thread] /\ Types /\ MuxInv /\ ConfInv /\ th[d].pc = "idle"
  BY DEF Ns2Inv, Types, ConfigSet
<1>2. p \in Configured /\ p \in Int /\ cs \in Configs
  <2>0. Configurable(p)
    BY DEF ConfigSet
  <2>1. p \in Configured /\ p \in Int
    BY <2>0, Ns2Assumption DEF Configured
  <2>2. cs \in Configs
    BY Ns2Assumption, Zenon DEF Configs, Config
  <2> QED BY <2>1, <2>2
<1>3. /\ th' \in [Device -> Thread] /\ \A e \in Device \ {d} : th'[e] = th[e]
      /\ th'[d].pc = "conf" /\ th'[d].pin = p
  <2>1. [Idle EXCEPT !.pc = "conf", !.pin = p, !.todo = cs] \in Thread
    BY <1>2, IdleThread
  <2>2. PICK t : t = [Idle EXCEPT !.pc = "conf", !.pin = p, !.todo = cs]
    OBVIOUS
  <2>3. Idle \in Thread
    BY IdleThread
  <2>4. t.pc = "conf" /\ t.pin = p
    BY <2>2, <2>3 DEF Thread
  <2>5. th' = [th EXCEPT ![d] = t]
    BY <2>2 DEF ConfigSet
  <2> QED BY <1>1, <2>1, <2>2, <2>4, <2>5
<1>4. /\ held' = held /\ mux_log' = mux_log /\ mux' = mux /\ conf' = conf /\ lock' = lock
      /\ written' = written /\ want' = want
  BY DEF ConfigSet
<1>5. Types'
  BY <1>1, <1>3, <1>4 DEF Types, TypeOK
<1>6. MuxInv'
  <2>1. ~ Muxing(d) /\ ~ Muxing(d)'
    BY <1>1, <1>3 DEF Muxing
  <2> QED BY <1>1, <1>3, <1>4, <2>1, MuxFrame
<1>7. ASSUME NEW e \in Device PROVE ThreadConf(e)'
  BY <1>1, <1>2, <1>3, <1>4 DEF ConfInv, ThreadConf
<1>8. SettingsKept'
  BY <1>1, <1>4 DEF ConfInv, SettingsKept, config_get
<1> QED BY <1>5, <1>6, <1>7, <1>8 DEF Ns2Inv, ConfInv

LEMMA ConfigEndStep ==
    ASSUME Ns2Inv, NEW d \in Device, ConfigEnd(d)
    PROVE  Ns2Inv'
<1>1. th \in [Device -> Thread] /\ Types /\ MuxInv /\ ConfInv /\ th[d].pc = "conf" /\ Return(d)
  BY DEF Ns2Inv, Types, ConfigEnd
<1>2. th' \in [Device -> Thread] /\ (\A e \in Device \ {d} : th'[e] = th[e]) /\ th'[d].pc = "idle"
  BY <1>1, ReturnIs
<1>3. /\ held' = held /\ mux_log' = mux_log /\ mux' = mux /\ conf' = conf /\ lock' = lock
      /\ written' = written /\ want' = want
  BY DEF ConfigEnd
<1>4. Types'
  BY <1>1, <1>2, <1>3 DEF Types, TypeOK
<1>5. MuxInv'
  <2>1. ~ Muxing(d) /\ ~ Muxing(d)'
    BY <1>1, <1>2 DEF Muxing
  <2> QED BY <1>1, <1>2, <1>3, <2>1, MuxFrame
<1>6. ConfInv'
  <2>1. th'[d].pc \notin {"conf", "write conf"}
    BY <1>2
  <2> QED BY <1>1, <1>2, <1>3, <2>1, ConfFrame
<1> QED BY <1>4, <1>5, <1>6 DEF Ns2Inv

LEMMA LockConfStep ==
    ASSUME Ns2Inv, NEW d \in Device, LockConf(d)
    PROVE  Ns2Inv'
<1>1. /\ th \in [Device -> Thread] /\ Types /\ MuxInv /\ ConfInv /\ ThreadConf(d)
      /\ th[d].pc = "conf" /\ lock = "none" /\ th[d].todo # <<>> /\ Field(Head(th[d].todo)) # "none"
  BY DEF Ns2Inv, Types, ConfInv, LockConf
<1>2. th[d].pin \in Configured /\ Register(th[d].pin) \in Registers
  BY <1>1, ConfiguredPins DEF ThreadConf
<1>3. conf[Register(th[d].pin)] \in ReadValue
  BY <1>1, <1>2 DEF Types, TypeOK, ReadValue
<1>4. /\ held' = held /\ mux_log' = mux_log /\ mux' = mux /\ conf' = conf /\ lock' = d
      /\ written' = written /\ want' = want /\ Goto(d, "write conf", conf[Register(th[d].pin)])
  BY DEF LockConf
<1>5. /\ th' \in [Device -> Thread] /\ \A e \in Device \ {d} : th'[e] = th[e]
      /\ th'[d].pc = "write conf" /\ th'[d].tmp = conf[Register(th[d].pin)]
      /\ th'[d].pin = th[d].pin /\ th'[d].todo = th[d].todo
  <2>1. "write conf" \in PcSet
    BY DEF PcSet
  <2> QED BY <1>1, <1>3, <1>4, <2>1, GotoIs
<1>6. Types'
  <2>1. \A e \in Device : lock' = e <=> th'[e].pc \in {"write mux", "write conf"}
    BY <1>1, <1>4, <1>5, Ns2Assumption DEF Types, TypeOK
  <2> QED BY <1>1, <1>4, <1>5, <2>1 DEF Types, TypeOK
<1>7. MuxInv'
  <2>1. ~ Muxing(d) /\ ~ Muxing(d)'
    BY <1>1, <1>5 DEF Muxing
  <2> QED BY <1>1, <1>4, <1>5, <2>1, MuxFrame
<1>8. ASSUME NEW e \in Device PROVE ThreadConf(e)'
  <2>1. CASE e = d
    BY <1>1, <1>2, <1>4, <1>5, <2>1 DEF ThreadConf
  <2>2. CASE e # d
    <3>1. th'[e] = th[e] /\ ThreadConf(e)
      BY <1>1, <1>5, <2>2 DEF ConfInv
    <3> QED BY <1>4, <3>1 DEF ThreadConf
  <2> QED BY <2>1, <2>2
<1>9. SettingsKept'
  BY <1>1, <1>4 DEF ConfInv, SettingsKept, config_get
<1> QED BY <1>6, <1>7, <1>8, <1>9 DEF Ns2Inv, ConfInv
\* What a supported configuration asks for: the field, its value, and what
\* config_get() has to report afterwards.
Asked(c) == IF Field(c) = "pull" THEN Value(c) ELSE IF Field(c) = "drive" THEN c.arg
            ELSE IF c.arg # 0 THEN 1 ELSE 0

LEMMA Supported ==
    ASSUME NEW c \in Config, Field(c) # "none"
    PROVE  /\ Field(c) \in Fields /\ Value(c) \in Nat /\ Asked(c) \in Int
           /\ Field(c) = "pull" => Value(c) <= 3 /\ Asked(c) = Value(c)
           /\ Field(c) = "drive" => Value(c) <= 7 /\ Asked(c) = (Value(c) + 1) * 2
           /\ Field(c) = "src" => Value(c) <= 1 /\ Asked(c) = Value(c)
           /\ Field(c) = "input_en" => Value(c) <= 1 /\ Asked(c) = IF Value(c) = 0 THEN 1 ELSE 0
<1>1. c.arg \in Nat
  BY DEF Config
<1>2. CASE c.param \in Pulls
  BY <1>2 DEF Field, Value, Asked, Fields
<1>3. CASE c.param \notin Pulls /\ c.param = "slew_rate"
  BY <1>3 DEF Field, Value, Asked, Fields
<1>4. CASE c.param \notin Pulls /\ c.param = "input_enable"
  BY <1>4 DEF Field, Value, Asked, Fields
<1>5. CASE c.param \notin Pulls /\ c.param # "slew_rate" /\ c.param # "input_enable"
  <2>1. Field(c) = "drive" /\ c.arg \in 2 .. 16 /\ c.arg % 2 = 0 /\ Value(c) = c.arg \div 2 - 1
    BY <1>5 DEF Field, Value
  <2>2. Asked(c) = c.arg
    BY <2>1 DEF Asked
  <2> QED BY <1>1, <2>1, <2>2 DEF Fields
<1> QED BY <1>2, <1>3, <1>4, <1>5

ConfigOf(reg, p) ==
    [pull |-> Get(reg, p, "pull"), drive |-> (Get(reg, p, "drive") + 1) * 2,
     src |-> Get(reg, p, "src"), input_en |-> IF Get(reg, p, "input_en") = 0 THEN 1 ELSE 0]

LEMMA ConfigElsewhere ==
    ASSUME NEW p \in Pins, NEW q \in Pins, Register(p) = Register(q), p # q, NEW f \in Fields, NEW reg, NEW v
    PROVE  ConfigOf(Put(reg, p, f, v), q) = ConfigOf(reg, q)
<1>1. \A g \in Fields : Get(Put(reg, p, f, v), q, g) = Get(reg, q, g)
  BY PutElsewhere
<1> QED BY <1>1 DEF ConfigOf, Fields

LEMMA ConfigHere ==
    ASSUME NEW p \in Pins, NEW c \in Config, Field(c) # "none", NEW reg
    PROVE  ConfigOf(Put(reg, p, Field(c), Value(c)), p) = [ConfigOf(reg, p) EXCEPT ![Field(c)] = Asked(c)]
<1>1. Field(c) \in Fields /\ Value(c) \in Nat
  BY Supported
<1>2. PICK r : r = Put(reg, p, Field(c), Value(c))
  OBVIOUS
<1>3. \A g \in Fields : g # Field(c) => Get(r, p, g) = Get(reg, p, g)
  BY <1>1, <1>2, PutElsewhere
<1>4. Get(r, p, Field(c)) = Value(c)
  <2>1. Value(c) <= IF Field(c) = "drive" THEN 7 ELSE IF Field(c) = "pull" THEN 3 ELSE 1
    BY <1>1, Supported DEF Fields
  <2> QED BY <1>1, <1>2, <2>1, PutHere
<1>5. CASE Field(c) = "pull"
  BY <1>2, <1>3, <1>4, <1>5, Supported DEF ConfigOf, Fields
<1>6. CASE Field(c) = "drive"
  BY <1>2, <1>3, <1>4, <1>6, Supported DEF ConfigOf, Fields
<1>7. CASE Field(c) = "src"
  BY <1>2, <1>3, <1>4, <1>7, Supported DEF ConfigOf, Fields
<1>8. CASE Field(c) = "input_en"
  BY <1>2, <1>3, <1>4, <1>8, Supported DEF ConfigOf, Fields
<1> QED BY <1>1, <1>5, <1>6, <1>7, <1>8 DEF Fields

LEMMA PutInRegister ==
    ASSUME NEW p \in Pins, NEW f \in Fields, NEW v, NEW reg \in SUBSET (0 .. 31)
    PROVE  Put(reg, p, f, v) \in SUBSET (0 .. 31)
<1>1. PICK low : low = Lane(p) + Shift[f] /\ low \in Nat /\ Width[f] \in Nat /\ low + Width[f] <= 32
  BY LanesApart, FieldsApart
<1>2. {low + i : i \in Bits(v, Width[f])} \subseteq 0 .. 31
  BY <1>1 DEF Bits
<1> QED BY <1>1, <1>2 DEF Put

LEMMA WriteConfStep ==
    ASSUME Ns2Inv, NEW d \in Device, WriteConf(d)
    PROVE  Ns2Inv'
<1>1. /\ th \in [Device -> Thread] /\ th[d] \in Thread /\ Types /\ MuxInv /\ ConfInv /\ ThreadConf(d)
      /\ th[d].pc = "write conf" /\ want \in [Configured -> Settings] /\ conf \in [Registers -> SUBSET (0 .. 31)]
  BY DEF Ns2Inv, Types, TypeOK, ConfInv, WriteConf
<1>2. PICK p : p = th[d].pin
  OBVIOUS
<1>3. p \in Configured /\ p \in Pins /\ Register(p) \in Registers
  BY <1>1, <1>2, ConfiguredPins DEF ThreadConf
<1>4. PICK todo : todo = th[d].todo
  OBVIOUS
<1>5. todo # <<>> /\ todo \in Seq(Config)
  BY <1>1, <1>4 DEF ThreadConf, Thread, Configs
<1>6. PICK c : c = Head(todo)
  OBVIOUS
<1>7. c \in Config /\ Tail(todo) \in Configs /\ Field(c) # "none"
  <2>1. Head(todo) \in Config /\ Tail(todo) \in Seq(Config)
    BY <1>5
  <2> QED BY <1>1, <1>4, <1>6, <2>1 DEF ThreadConf, Configs
<1>8. PICK f, v : f = Field(c) /\ v = Value(c)
  OBVIOUS
<1>9. f \in Fields /\ Asked(c) \in Int
  BY <1>7, <1>8, Supported
<1>10. PICK reg : reg = conf[Register(p)]
  OBVIOUS
<1>11. /\ held' = held /\ mux_log' = mux_log /\ mux' = mux /\ written' = written /\ lock' = "none"
       /\ conf' = [conf EXCEPT ![Register(p)] = Put(reg, p, f, v)]
       /\ want' = [want EXCEPT ![p][f] = Asked(c)]
  BY <1>1, <1>2, <1>4, <1>6, <1>8, <1>10 DEF WriteConf, ThreadConf, Asked
<1>12. /\ th' \in [Device -> Thread] /\ \A e \in Device \ {d} : th'[e] = th[e]
       /\ th'[d].pc = "conf" /\ th'[d].pin = p
  <2>1. PICK t, rest, none : /\ rest = Tail(todo) /\ none = <<>>
                             /\ t = [th[d] EXCEPT !.pc = "conf", !.todo = rest, !.tmp = none]
    OBVIOUS
  <2>2. th' = [th EXCEPT ![d] = t]
    BY <1>1, <1>4, <2>1 DEF WriteConf
  <2>3. "conf" \in PcSet /\ rest \in Configs /\ none \in ReadValue
    BY <1>7, <2>1, EmptyRead DEF PcSet
  <2>4. t = [th[d] EXCEPT !.pc = "conf", !.todo = rest, !.tmp = none]
    BY <2>1
  <2>5. t \in Thread /\ t.pc = "conf" /\ t.pin = p
    BY <1>1, <1>2, <2>3, <2>4 DEF Thread
  <2> QED BY <1>1, <2>2, <2>5
<1>13. conf' \in [Registers -> SUBSET (0 .. 31)] /\ conf'[Register(p)] = Put(reg, p, f, v)
       /\ \A r \in Registers \ {Register(p)} : conf'[r] = conf[r]
  <2>1. Put(reg, p, f, v) \in SUBSET (0 .. 31)
    BY <1>1, <1>3, <1>9, <1>10, PutInRegister
  <2> QED BY <1>1, <1>3, <1>11, <2>1
<1>14. want' \in [Configured -> Settings] /\ want'[p] = [want[p] EXCEPT ![f] = Asked(c)]
       /\ \A q \in Configured \ {p} : want'[q] = want[q]
  <2>1. [want[p] EXCEPT ![f] = Asked(c)] \in Settings
    BY <1>1, <1>3, <1>9 DEF Settings, Fields
  <2> QED BY <1>1, <1>3, <1>11, <2>1
<1>15. \A e \in Device \ {d} : th[e].pc \notin {"write mux", "write conf"}
  BY <1>1 DEF Types, TypeOK
<1>16. Types'
  <2>1. \A e \in Device : lock' = e <=> th'[e].pc \in {"write mux", "write conf"}
    BY <1>11, <1>12, <1>15, Ns2Assumption
  <2> QED BY <1>1, <1>11, <1>12, <1>13, <1>14, <2>1 DEF Types, TypeOK
<1>17. MuxInv'
  <2>1. ~ Muxing(d) /\ ~ Muxing(d)'
    BY <1>1, <1>12 DEF Muxing
  <2> QED BY <1>1, <1>11, <1>12, <2>1, MuxFrame
<1>18. ASSUME NEW e \in Device PROVE ThreadConf(e)'
  <2>1. CASE e = d
    BY <1>3, <1>12, <2>1 DEF ThreadConf
  <2>2. CASE e # d
    <3>1. th'[e] = th[e] /\ ThreadConf(e) /\ th[e].pc # "write conf"
      BY <1>1, <1>12, <1>15, <2>2 DEF ConfInv
    <3> QED BY <3>1 DEF ThreadConf
  <2> QED BY <2>1, <2>2
<1>19. ASSUME NEW q \in Configured PROVE want'[q] = config_get(q)'
  <2>1. q \in Pins /\ Register(q) \in Registers
    BY ConfiguredPins
  <2>2. want[q] = ConfigOf(conf[Register(q)], q)
    BY <1>1 DEF ConfInv, SettingsKept, config_get, ConfigOf
  <2>3. config_get(q)' = ConfigOf(conf'[Register(q)], q)
    BY DEF config_get, ConfigOf
  <2>4. CASE Register(q) # Register(p)
    BY <1>13, <1>14, <2>1, <2>2, <2>3, <2>4
  <2>5. CASE Register(q) = Register(p) /\ q # p
    BY <1>3, <1>9, <1>10, <1>13, <1>14, <2>1, <2>2, <2>3, <2>5, ConfigElsewhere
  <2>6. CASE q = p
    BY <1>3, <1>7, <1>8, <1>10, <1>13, <1>14, <2>2, <2>3, <2>6, ConfigHere
  <2> QED BY <2>4, <2>5, <2>6
<1>20. SettingsKept'
  BY <1>14, <1>19 DEF SettingsKept
<1> QED BY <1>16, <1>17, <1>18, <1>20 DEF Ns2Inv, ConfInv
------------------------------------------------------------------------------
(* The theorems.                                                             *)

LEMMA NextInv == ASSUME Ns2Inv, [Next]_vars PROVE Ns2Inv'
<1>1. CASE Next
  <2>1. PICK d \in Device :
           \/ \E g \in Wants[d] : Enable(d, g) \/ Disable(d, g)
           \/ Scan(d) \/ Log(d) \/ LockMux(d) \/ WriteMux(d)
           \/ \E p \in ConfPins, cs \in ConfCalls : ConfigSet(d, p, cs)
           \/ ConfigEnd(d) \/ LockConf(d) \/ WriteConf(d)
    BY <1>1 DEF Next
  <2>2. CASE \E g \in Wants[d] : Enable(d, g) \/ Disable(d, g)
    BY <2>2, EnableStep, DisableStep
  <2>3. CASE \E p \in ConfPins, cs \in ConfCalls : ConfigSet(d, p, cs)
    BY <2>3, ConfigSetStep
  <2> QED BY <2>1, <2>2, <2>3, ScanStep, LogStep, LockMuxStep, WriteMuxStep, ConfigEndStep, LockConfStep, WriteConfStep
<1>2. CASE UNCHANGED vars
  <2>1. Types'
    BY <1>2 DEF vars, Ns2Inv, Types, TypeOK
  <2>2. MuxInv'
    BY <1>2 DEF vars, Ns2Inv, MuxInv, ThreadMux, Muxing, Grp, Entered, Announced
  <2>3. ConfInv'
    BY <1>2 DEF vars, Ns2Inv, ConfInv, ThreadConf, SettingsKept, config_get
  <2> QED BY <2>1, <2>2, <2>3 DEF Ns2Inv
<1> QED BY <1>1, <1>2

LEMMA Ns2Invariant == Spec => []Ns2Inv
BY InitInv, NextInv, PTL DEF Spec

\* For any devices and groups, the state stays well formed, and pinctrl->lock
\* is held by exactly the thread between reading a register and writing it.
THEOREM Ns2TypeOK == Spec => []TypeOK
<1>1. Ns2Inv => TypeOK
  BY DEF Ns2Inv, Types
<1> QED BY <1>1, Ns2Invariant, PTL

\* For any devices and groups, what ns2_pinmux_set() told a device stays true,
\* although it looks at the log and changes it without the lock.
THEOREM Ns2MuxHonoured == Spec => []MuxHonoured
<1>1. ASSUME Ns2Inv PROVE MuxHonoured
  <2>1. SUFFICES ASSUME NEW h \in held
                 PROVE  mux[Group[h[2]].slot] = Group[h[2]].alt \/ Announced(Group[h[2]].slot)
    BY DEF MuxHonoured, Announced, Grp
  <2>2. h[1] \in Device /\ h[2] \in Wants[h[1]]
    BY <1>1 DEF Ns2Inv, Types, TypeOK
  <2>3. Group[h[2]].slot \in UsedSlots
    BY <2>2, Wanted
  <2>4. Entered(Group[h[2]].slot) /\ mux_log[Group[h[2]].slot].alt = Group[h[2]].alt
    BY <1>1 DEF Ns2Inv, MuxInv
  <2> QED BY <1>1, <2>3, <2>4 DEF Ns2Inv, MuxInv
<1> QED BY <1>1, Ns2Invariant, PTL

\* For any devices and groups, a field that ns2_pinmux_set() has written never
\* changes again: no double configuration.
THEOREM Ns2ConfiguredOnce == Spec => ConfiguredOnce
<1>1. ASSUME Ns2Inv, [Next]_vars PROVE [\A s \in written : mux'[s] = mux[s]]_vars
  <2>1. SUFFICES ASSUME Next, NEW s \in written PROVE mux'[s] = mux[s]
    BY <1>1
  <2>2. CASE \E d \in Device : WriteMux(d)
    <3>1. PICK d \in Device : WriteMux(d)
      BY <2>2
    <3>2. s \in UsedSlots /\ Entered(s) /\ mux[s] = mux_log[s].alt
      BY <1>1 DEF Ns2Inv, Types, TypeOK, MuxInv
    <3> QED BY <1>1, <3>1, <3>2, WriteMuxIs
  <2>3. CASE ~ \E d \in Device : WriteMux(d)
    <3>1. mux' = mux
      BY <2>1, <2>3 DEF Next, Enable, Disable, Scan, Log, LockMux, ConfigSet, ConfigEnd, LockConf, WriteConf
    <3> QED BY <3>1
  <2> QED BY <2>2, <2>3
<1> QED BY <1>1, Ns2Invariant, PTL DEF Spec, ConfiguredOnce

\* For any pins and configuration lists, the settings made for a pin are the
\* ones ns2_pin_config_get() reads back, whatever is done to other pins.
THEOREM Ns2SettingsKept == Spec => []SettingsKept
<1>1. Ns2Inv => SettingsKept
  BY DEF Ns2Inv, ConfInv
<1> QED BY <1>1, Ns2Invariant, PTL

\* The tables of the driver fit together, and only groups of its functions are held.
THEOREM Ns2TablesAgree == Spec => []TablesAgree
<1>1. ASSUME Ns2Inv PROVE TablesAgree
  <2>1. \A g \in ns2_pin_groups : g.slot \in mux_log_init /\ g.alt <= g.mask
    BY FieldLogged
  <2>2. \A g, h \in ns2_pin_groups : g.slot = h.slot /\ g.alt # h.alt => g.pins \cap h.pins # {}
    BY FieldShared
  <2>3. held \subseteq Device \X UNION Range(ns2_pin_functions)
    <3>1. SUFFICES ASSUME NEW h \in held PROVE h \in Device \X UNION Range(ns2_pin_functions)
      OBVIOUS
    <3>2. h = <<h[1], h[2]>> /\ h[1] \in Device /\ h[2] \in Wants[h[1]]
      <4>1. PICK W : W = UNION {Wants[d] : d \in Device}
        OBVIOUS
      <4>2. h \in Device \X W /\ h[2] \in Wants[h[1]]
        BY <1>1, <4>1 DEF Ns2Inv, Types, TypeOK
      <4> QED BY <4>2
    <3>3. h[2] \in DOMAIN Group
      BY <3>2, Wanted
    <3>4. h[2] \in UNION Range(ns2_pin_functions)
      BY <3>3, FunctionGroups, Zenon DEF Group
    <3> QED BY <3>2, <3>4
  <2> QED BY <2>1, <2>2, <2>3, FunctionGroups, Zenon DEF TablesAgree
<1> QED BY <1>1, Ns2Invariant, PTL
===============================================================================
