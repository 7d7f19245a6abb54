-------------------------- MODULE GpioLpc32xxProofs ---------------------------
(***************************************************************************)
(* The LPC32xx GPIO driver for any lines in use, any contents of the       *)
(* registers and any failures of probe: without a lock, its lines behave   *)
(* as GpioLines says.                                                      *)
(***************************************************************************)
EXTENDS GpioLpc32xx, TLAPS

(* The chips.                                                                *)

LEMMA ChipTable ==
    /\ Chips = {"gpio_p0", "gpio_p1", "gpio_p2", "gpio_p3", "gpi_p3", "gpo_p3"}
    /\ ngpio["gpio_p0"] = 8 /\ ngpio["gpio_p1"] = 24 /\ ngpio["gpio_p2"] = 13
    /\ ngpio["gpio_p3"] = 6 /\ ngpio["gpi_p3"] = 29 /\ ngpio["gpo_p3"] = 24
<1>1. /\ lpc32xx_gpiochip[1] = "gpio_p0" /\ lpc32xx_gpiochip[2] = "gpio_p1" /\ lpc32xx_gpiochip[3] = "gpio_p2"
      /\ lpc32xx_gpiochip[4] = "gpio_p3" /\ lpc32xx_gpiochip[5] = "gpi_p3" /\ lpc32xx_gpiochip[6] = "gpo_p3"
  BY DEF lpc32xx_gpiochip
<1>2. 1 .. 6 = {1, 2, 3, 4, 5, 6}
  OBVIOUS
<1>3. Chips = {"gpio_p0", "gpio_p1", "gpio_p2", "gpio_p3", "gpi_p3", "gpo_p3"}
  BY <1>1, <1>2 DEF Chips
<1> QED BY <1>3 DEF ngpio

LEMMA RegTable ==
    /\ outp_reg["gpio_p0"] = "P0" /\ outp_reg["gpio_p1"] = "P1" /\ outp_reg["gpio_p2"] = "P2"
    /\ outp_reg["gpio_p3"] = "P3" /\ outp_reg["gpi_p3"] = "P3" /\ outp_reg["gpo_p3"] = "P3"
    /\ dir_reg["gpio_p0"] = "P0" /\ dir_reg["gpio_p1"] = "P1" /\ dir_reg["gpio_p2"] = "P2"
    /\ dir_reg["gpio_p3"] = "P2" /\ dir_reg["gpi_p3"] = "P2" /\ dir_reg["gpo_p3"] = "P2"
BY DEF outp_reg, dir_reg

\* A line is a pin its chip has.
LEMMA LineTable ==
    ASSUME NEW l \in AllLines
    PROVE  /\ l = <<l[1], l[2]>> /\ l[1] \in Chips /\ l[2] \in Nat
           /\ l[1] = "gpio_p0" => l[2] < 8
           /\ l[1] = "gpio_p1" => l[2] < 24
           /\ l[1] = "gpio_p2" => l[2] < 13
           /\ l[1] = "gpio_p3" => l[2] < 6
           /\ l[1] = "gpi_p3" => l[2] < 29
           /\ l[1] = "gpo_p3" => l[2] < 24
<1>1. PICK c \in Chips : l \in {c} \X (0 .. ngpio[c] - 1)
  BY DEF AllLines
<1>2. l = <<l[1], l[2]>> /\ l[1] = c /\ l[2] \in 0 .. ngpio[c] - 1
  BY <1>1
<1>3. ngpio[c] \in Nat
  BY ChipTable
<1>4. l[2] \in Nat /\ l[2] < ngpio[c]
  BY <1>2, <1>3
<1> QED BY <1>2, <1>4, ChipTable

LEMMA PairsDiffer ==
    ASSUME NEW k \in AllLines, NEW l \in AllLines, k # l PROVE k[1] # l[1] \/ k[2] # l[2]
BY LineTable

\* No two lines that can be driven share a bit of an output register ...
LEMMA LevelsApart ==
    ASSUME NEW k \in AllLines, NEW l \in AllLines, k # l, k[1] # "gpi_p3", l[1] # "gpi_p3",
           outp_reg[k[1]] = outp_reg[l[1]]
    PROVE  PIN_TO_BIT(k) # PIN_TO_BIT(l)
<1>1. PICK c, m, d, n : c = k[1] /\ m = k[2] /\ d = l[1] /\ n = l[2] /\ (c # d \/ m # n)
  BY PairsDiffer
<1>2. /\ c \in Chips /\ d \in Chips /\ m \in Nat /\ n \in Nat
      /\ c = "gpio_p3" => m < 6
      /\ d = "gpio_p3" => n < 6
      /\ c = "gpo_p3" => m < 24
      /\ d = "gpo_p3" => n < 24
  BY <1>1, LineTable
<1>3. /\ outp_reg[c] = outp_reg[d] /\ c # "gpi_p3" /\ d # "gpi_p3"
  BY <1>1
<1>4. c = d \/ (c = "gpio_p3" /\ d = "gpo_p3") \/ (c = "gpo_p3" /\ d = "gpio_p3")
  BY <1>2, <1>3, ChipTable, RegTable
<1>5. /\ PIN_TO_BIT(k) = IF c = "gpio_p3" THEN m + 25 ELSE m
      /\ PIN_TO_BIT(l) = IF d = "gpio_p3" THEN n + 25 ELSE n
  BY <1>1 DEF PIN_TO_BIT
<1> QED BY <1>1, <1>2, <1>4, <1>5

\* ... nor of a direction register.
LEMMA DirectionsApart ==
    ASSUME NEW k \in AllLines, NEW l \in AllLines, k # l, HasDirection(k), HasDirection(l),
           dir_reg[k[1]] = dir_reg[l[1]]
    PROVE  PIN_TO_BIT(k) # PIN_TO_BIT(l)
<1>1. PICK c, m, d, n : c = k[1] /\ m = k[2] /\ d = l[1] /\ n = l[2] /\ (c # d \/ m # n)
  BY PairsDiffer
<1>2. /\ c \in Chips /\ d \in Chips /\ m \in Nat /\ n \in Nat
      /\ c = "gpio_p2" => m < 13
      /\ d = "gpio_p2" => n < 13
  BY <1>1, LineTable
<1>3. /\ dir_reg[c] = dir_reg[d] /\ c \notin {"gpi_p3", "gpo_p3"} /\ d \notin {"gpi_p3", "gpo_p3"}
  BY <1>1 DEF HasDirection
<1>4. c = d \/ (c = "gpio_p3" /\ d = "gpio_p2") \/ (c = "gpio_p2" /\ d = "gpio_p3")
  BY <1>2, <1>3, ChipTable, RegTable
<1>5. /\ PIN_TO_BIT(k) = IF c = "gpio_p3" THEN m + 25 ELSE m
      /\ PIN_TO_BIT(l) = IF d = "gpio_p3" THEN n + 25 ELSE n
  BY <1>1 DEF PIN_TO_BIT
<1> QED BY <1>1, <1>2, <1>4, <1>5

\* The inputs: gpio_p3 is read from bits 10 to 14, which gpi_p3 has no name for, and 24.
LEMMA InputsApart ==
    ASSUME NEW k \in Named, NEW l \in Named, k # l, outp_reg[k[1]] = outp_reg[l[1]],
           "gpo_p3" \notin {k[1], l[1]}, {k, l} # {<<"gpio_p3", 5>>, <<"gpi_p3", 24>>}
    PROVE  PIN_IN_SHIFT(k) # PIN_IN_SHIFT(l)
<1>1. k \in AllLines /\ l \in AllLines
  BY DEF Named
<1>2. PICK c, m, d, n : c = k[1] /\ m = k[2] /\ d = l[1] /\ n = l[2] /\ (c # d \/ m # n)
  BY <1>1, PairsDiffer
<1>3. /\ c \in Chips /\ d \in Chips /\ m \in Nat /\ n \in Nat /\ k = <<c, m>> /\ l = <<d, n>>
      /\ c = "gpio_p3" => m < 6
      /\ d = "gpio_p3" => n < 6
  BY <1>1, <1>2, LineTable
<1>4. /\ outp_reg[c] = outp_reg[d] /\ c # "gpo_p3" /\ d # "gpo_p3"
  BY <1>2
<1>5. c = d \/ (c = "gpio_p3" /\ d = "gpi_p3") \/ (c = "gpi_p3" /\ d = "gpio_p3")
  BY <1>3, <1>4, ChipTable, RegTable
<1>6. (c = "gpi_p3" => m \notin 10 .. 14) /\ (d = "gpi_p3" => n \notin 10 .. 14)
  BY <1>2, <1>3 DEF Named
<1>7. ~ (c = "gpio_p3" /\ m = 5 /\ d = "gpi_p3" /\ n = 24) /\ ~ (c = "gpi_p3" /\ m = 24 /\ d = "gpio_p3" /\ n = 5)
  BY <1>3
<1>8. /\ PIN_IN_SHIFT(k) = IF c # "gpio_p3" THEN m ELSE IF m = 5 THEN 24 ELSE 10 + m
      /\ PIN_IN_SHIFT(l) = IF d # "gpio_p3" THEN n ELSE IF n = 5 THEN 24 ELSE 10 + n
  BY <1>2 DEF PIN_IN_SHIFT
<1> QED BY <1>2, <1>3, <1>5, <1>6, <1>7, <1>8

------------------------------------------------------------------------------
(* The invariant: what each call in progress has still to write is what is   *)
(* missing between the line and the state requested of it.                   *)

CallRec == [pc : {"idle"}] \cup [pc : {"level"}, high : BOOLEAN, out : BOOLEAN] \cup [pc : {"dir"}, input : BOOLEAN]
On(l) == PIN_TO_BIT(l) \in outp[outp_reg[l[1]]]

Asked(l) ==
    /\ call[l].pc = "idle" => want[l] = st[l]
    /\ call[l].pc = "level" =>
          /\ l[1] # "gpi_p3" /\ (call[l].out => HasDirection(l))
          /\ want[l] = IF call[l].out \/ drives(l) THEN Level(call[l].high) ELSE "in"
    /\ call[l].pc = "dir" =>
          HasDirection(l) /\ want[l] = IF call[l].input THEN "in" ELSE Level(On(l))

Lpc32xxInv ==
    /\ TypeOK /\ call \in [Line -> CallRec]
    /\ \A l \in Line : Asked(l)

LEMMA LineFacts ==
    ASSUME NEW l \in Line
    PROVE  /\ l \in AllLines /\ PIN_TO_BIT(l) \in 0 .. 31
           /\ outp_reg[l[1]] \in {"P0", "P1", "P2", "P3"} /\ dir_reg[l[1]] \in {"P0", "P1", "P2"}
<1>1. l \in AllLines
  BY DEF Line
<1>2. PICK c, m : c = l[1] /\ m = l[2]
  OBVIOUS
<1>3. /\ c \in Chips /\ m \in Nat
      /\ c = "gpio_p0" => m < 8
      /\ c = "gpio_p1" => m < 24
      /\ c = "gpio_p2" => m < 13
      /\ c = "gpio_p3" => m < 6
      /\ c = "gpi_p3" => m < 29
      /\ c = "gpo_p3" => m < 24
  BY <1>1, <1>2, LineTable
<1>4. PIN_TO_BIT(l) = IF c = "gpio_p3" THEN m + 25 ELSE m
  BY <1>2 DEF PIN_TO_BIT
<1>5. PIN_TO_BIT(l) \in 0 .. 31
  BY <1>3, <1>4, ChipTable
<1>6. outp_reg[c] \in {"P0", "P1", "P2", "P3"} /\ dir_reg[c] \in {"P0", "P1", "P2"}
  BY <1>3, ChipTable, RegTable
<1> QED BY <1>1, <1>2, <1>5, <1>6

LEMMA LevelName == ASSUME NEW v PROVE Level(v) \in {"low", "high"}
BY DEF Level

LEMMA StAt ==
    ASSUME NEW l \in Line
    PROVE  st[l] = (IF drives(l) THEN Level(On(l)) ELSE "in") /\ st[l] \in {"in", "low", "high"}
<1>1. st[l] = (IF drives(l) THEN Level(On(l)) ELSE "in")
  BY DEF st, On
<1> QED BY <1>1, LevelName

LEMMA StTyped == st \in [Line -> {"in", "low", "high"}]
<1>1. DOMAIN st = Line /\ st = [l \in Line |-> st[l]]
  BY DEF st
<1> QED BY <1>1, StAt

LEMMA StAtNext ==
    ASSUME NEW l \in Line PROVE st'[l] = (IF drives(l)' THEN Level(On(l)') ELSE "in")
BY DEF st, On

LEMMA StTypedNext == st' \in [Line -> {"in", "low", "high"}]
<1>1. DOMAIN st' = Line /\ st' = [l \in Line |-> st'[l]]
  BY DEF st
<1>2. \A l \in Line : st'[l] \in {"in", "low", "high"}
  BY StAtNext, LevelName
<1> QED BY <1>1, <1>2

LEMMA IdleRec == Idle \in CallRec /\ Idle.pc = "idle" /\ \A c \in CallRec : c = Idle <=> c.pc = "idle"
BY DEF Idle, CallRec

LEMMA Lpc32xxInit == Init => Lpc32xxInv
<1> SUFFICES ASSUME Init PROVE Lpc32xxInv
  OBVIOUS
<1>1. /\ added = {} /\ owned = {} /\ call = [l \in Line |-> Idle] /\ want = st
      /\ outp \in [{"P0", "P1", "P2", "P3"} -> SUBSET (0 .. 31)]
      /\ dirs \in [{"P0", "P1", "P2"} -> SUBSET (0 .. 31)]
  BY Lpc32xxAssumption DEF Init
<1>2. TypeOK
  BY <1>1, StTyped DEF TypeOK
<1>3. ASSUME NEW l \in Line PROVE Asked(l)
  <2>1. call[l].pc = "idle" /\ want[l] = st[l]
    BY <1>1, IdleRec
  <2> QED BY <2>1 DEF Asked
<1> QED BY <1>1, <1>2, <1>3, IdleRec DEF Lpc32xxInv

\* A write of a level reaches no other line, and no direction.
LEMMA LevelWritten ==
    ASSUME TypeOK, NEW l \in Line, l[1] # "gpi_p3", NEW v \in BOOLEAN, dirs' = dirs,
           outp' = Write(outp, outp_reg[l[1]], PIN_TO_BIT(l), v)
    PROVE  /\ outp' \in [{"P0", "P1", "P2", "P3"} -> SUBSET (0 .. 31)]
           /\ On(l)' <=> v
           /\ \A k \in Line : drives(k)' <=> drives(k)
           /\ \A k \in Line : k # l /\ k[1] # "gpi_p3" => (On(k)' <=> On(k))
           /\ \A k \in Line : k # l => st'[k] = st[k]
<1>1. PICK r \in {"P0", "P1", "P2", "P3"}, b \in 0 .. 31 : r = outp_reg[l[1]] /\ b = PIN_TO_BIT(l)
  BY LineFacts
<1>2. outp \in [{"P0", "P1", "P2", "P3"} -> SUBSET (0 .. 31)]
  BY DEF TypeOK
<1>3. PICK S : S = IF v THEN outp[r] \cup {b} ELSE outp[r] \ {b}
  OBVIOUS
<1>4. outp' = [outp EXCEPT ![r] = S] /\ S \in SUBSET (0 .. 31)
  BY <1>1, <1>2, <1>3 DEF Write
<1>5. outp'[r] = S /\ \A q \in {"P0", "P1", "P2", "P3"} : q # r => outp'[q] = outp[q]
  BY <1>2, <1>4
<1>6. On(l)' <=> v
  BY <1>1, <1>3, <1>5 DEF On
<1>7. \A k \in Line : drives(k)' <=> drives(k)
  BY DEF drives
<1>8. ASSUME NEW k \in Line, k # l, k[1] # "gpi_p3" PROVE On(k)' <=> On(k)
  <2>1. outp_reg[k[1]] \in {"P0", "P1", "P2", "P3"} /\ k \in AllLines /\ l \in AllLines
    BY LineFacts
  <2>2. CASE outp_reg[k[1]] # r
    BY <1>5, <2>1, <2>2 DEF On
  <2>3. CASE outp_reg[k[1]] = r
    <3>1. PIN_TO_BIT(k) # b
      BY <1>1, <1>8, <2>1, <2>3, LevelsApart
    <3> QED BY <1>3, <1>5, <2>3, <3>1 DEF On
  <2> QED BY <2>2, <2>3
<1>9. ASSUME NEW k \in Line, k # l PROVE st'[k] = st[k]
  <2>1. CASE k[1] = "gpi_p3"
    <3>1. ~ drives(k)
      BY <2>1 DEF drives, HasDirection
    <3> QED BY <1>7, <3>1, StAt, StAtNext
  <2>2. CASE k[1] # "gpi_p3"
    <3>1. Level(On(k)') = Level(On(k))
      BY <1>8, <1>9, <2>2 DEF Level
    <3> QED BY <1>7, <3>1, StAt, StAtNext
  <2> QED BY <2>1, <2>2
<1>10. outp' \in [{"P0", "P1", "P2", "P3"} -> SUBSET (0 .. 31)]
  BY <1>2, <1>4
<1> QED BY <1>6, <1>7, <1>8, <1>9, <1>10

LEMMA DirectionWritten ==
    ASSUME TypeOK, NEW l \in Line, HasDirection(l), NEW v \in BOOLEAN, outp' = outp,
           dirs' = Write(dirs, dir_reg[l[1]], PIN_TO_BIT(l), v)
    PROVE  /\ dirs' \in [{"P0", "P1", "P2"} -> SUBSET (0 .. 31)]
           /\ drives(l)' <=> v
           /\ \A k \in Line : On(k)' <=> On(k)
           /\ \A k \in Line : k # l => (drives(k)' <=> drives(k))
           /\ \A k \in Line : k # l => st'[k] = st[k]
<1>1. PICK r \in {"P0", "P1", "P2"}, b \in 0 .. 31 : r = dir_reg[l[1]] /\ b = PIN_TO_BIT(l)
  BY LineFacts
<1>2. dirs \in [{"P0", "P1", "P2"} -> SUBSET (0 .. 31)]
  BY DEF TypeOK
<1>3. PICK S : S = IF v THEN dirs[r] \cup {b} ELSE dirs[r] \ {b}
  OBVIOUS
<1>4. dirs' = [dirs EXCEPT ![r] = S] /\ S \in SUBSET (0 .. 31)
  BY <1>1, <1>2, <1>3 DEF Write
<1>5. dirs'[r] = S /\ \A q \in {"P0", "P1", "P2"} : q # r => dirs'[q] = dirs[q]
  BY <1>2, <1>4
<1>6. drives(l)' <=> v
  BY <1>1, <1>3, <1>5 DEF drives
<1>7. \A k \in Line : On(k)' <=> On(k)
  BY DEF On
<1>8. ASSUME NEW k \in Line, k # l PROVE drives(k)' <=> drives(k)
  <2>1. dir_reg[k[1]] \in {"P0", "P1", "P2"} /\ k \in AllLines /\ l \in AllLines
    BY LineFacts
  <2>2. CASE ~ HasDirection(k)
    BY <2>2 DEF drives
  <2>3. CASE HasDirection(k) /\ dir_reg[k[1]] # r
    BY <1>5, <2>1, <2>3 DEF drives
  <2>4. CASE HasDirection(k) /\ dir_reg[k[1]] = r
    <3>1. PIN_TO_BIT(k) # b
      BY <1>1, <1>8, <2>1, <2>4, DirectionsApart
    <3> QED BY <1>3, <1>5, <2>4, <3>1 DEF drives
  <2> QED BY <2>2, <2>3, <2>4
<1>9. ASSUME NEW k \in Line, k # l PROVE st'[k] = st[k]
  <2>1. Level(On(k)') = Level(On(k))
    BY <1>7 DEF Level
  <2> QED BY <1>8, <1>9, <2>1, StAt, StAtNext
<1>10. dirs' \in [{"P0", "P1", "P2"} -> SUBSET (0 .. 31)]
  BY <1>2, <1>4
<1> QED BY <1>6, <1>7, <1>8, <1>9, <1>10

------------------------------------------------------------------------------
(* The steps.                                                                *)

\* A line whose call, request, direction and level stay.
LEMMA StillAsked ==
    ASSUME NEW k \in Line, Asked(k), call'[k] = call[k], want'[k] = want[k], st'[k] = st[k],
           drives(k)' <=> drives(k), k[1] # "gpi_p3" => (On(k)' <=> On(k))
    PROVE  Asked(k)'
<1>1. call[k].pc = "dir" => Level(On(k)') = Level(On(k))
  BY DEF Asked, HasDirection, Level
<1>2. /\ call'[k].pc = "idle" => want'[k] = st'[k]
      /\ call'[k].pc = "dir" => HasDirection(k) /\ want'[k] = IF call'[k].input THEN "in" ELSE Level(On(k)')
  BY <1>1 DEF Asked
<1>3. call'[k].pc = "level" =>
        /\ k[1] # "gpi_p3" /\ (call'[k].out => HasDirection(k))
        /\ want'[k] = IF call'[k].out \/ drives(k)' THEN Level(call'[k].high) ELSE "in"
  BY DEF Asked
<1> QED BY <1>2, <1>3 DEF Asked

LEMMA SameRegs ==
    ASSUME UNCHANGED <<outp, dirs>>
    PROVE  /\ st' = st
           /\ \A k \in Line : (drives(k)' <=> drives(k)) /\ (On(k)' <=> On(k))
BY DEF st, drives, On

\* A call begins with what is to be written.
LEMMA CallBegins ==
    ASSUME Lpc32xxInv, NEW l \in Line, NEW c \in CallRec, c.pc # "idle", NEW w \in {"in", "low", "high"}, Call(l, c, w),
           c.pc = "level" => l[1] # "gpi_p3" /\ (c.out => HasDirection(l))
                               /\ w = IF c.out \/ drives(l) THEN Level(c.high) ELSE "in",
           c.pc = "dir" => HasDirection(l) /\ c.input /\ w = "in"
    PROVE  Lpc32xxInv' /\ Lines!Request
<1>1. /\ call[l] = Idle /\ call' = [call EXCEPT ![l] = c] /\ want' = [want EXCEPT ![l] = w]
      /\ UNCHANGED <<added, owned, outp, dirs>>
  BY DEF Call
<1>2. TypeOK /\ call \in [Line -> CallRec] /\ want \in [Line -> {"in", "low", "high"}]
  BY DEF Lpc32xxInv, TypeOK
<1>3. /\ call' \in [Line -> CallRec] /\ call'[l] = c /\ \A k \in Line : k # l => call'[k] = call[k]
      /\ want' \in [Line -> {"in", "low", "high"}] /\ want'[l] = w /\ \A k \in Line : k # l => want'[k] = want[k]
  BY <1>1, <1>2
<1>4. TypeOK'
  BY <1>1, <1>2, <1>3 DEF TypeOK
<1>5. st' = st /\ \A k \in Line : (drives(k)' <=> drives(k)) /\ (On(k)' <=> On(k))
  BY <1>1, SameRegs
<1>6. ASSUME NEW k \in Line, k # l PROVE Asked(k)'
  BY <1>3, <1>5, <1>6, StillAsked DEF Lpc32xxInv
<1>7. Asked(l)'
  BY <1>3, <1>5 DEF Asked
<1>8. Lpc32xxInv'
  BY <1>3, <1>4, <1>6, <1>7 DEF Lpc32xxInv
<1>9. l \notin busy /\ busy' = busy \cup {l}
  <2>1. \A k \in Line : (k \in busy <=> call[k] # Idle) /\ (k \in busy' <=> call'[k] # Idle)
    BY DEF busy
  <2>2. busy \subseteq Line /\ busy' \subseteq Line
    BY DEF busy
  <2>3. c # Idle
    BY IdleRec
  <2> QED BY <1>1, <1>3, <2>1, <2>2, <2>3
<1>10. busy' \subseteq Line
  BY DEF busy
<1>11. Lines!Request
  BY <1>3, <1>5, <1>9, <1>10 DEF Lines!Request, Lines!LineState
<1> QED BY <1>8, <1>11

\* A write of a call: the line moves to the state requested or stays, and has
\* moved when the call returns.
LEMMA CallGoesOn ==
    ASSUME Lpc32xxInv, NEW l \in Line, NEW c \in CallRec, call[l].pc # "idle", call' = [call EXCEPT ![l] = c],
           UNCHANGED <<added, owned, want>>, TypeOK', Asked(l)',
           \A k \in Line : k # l => /\ st'[k] = st[k] /\ (drives(k)' <=> drives(k))
                                    /\ k[1] # "gpi_p3" => (On(k)' <=> On(k)),
           st'[l] \in {st[l], want[l]}
    PROVE  Lpc32xxInv' /\ Lines!Serve
<1>1. call \in [Line -> CallRec]
  BY DEF Lpc32xxInv
<1>2. call' \in [Line -> CallRec] /\ call'[l] = c /\ \A k \in Line : k # l => call'[k] = call[k]
  BY <1>1
<1>3. ASSUME NEW k \in Line, k # l PROVE Asked(k)'
  BY <1>2, <1>3, StillAsked DEF Lpc32xxInv
<1>4. Lpc32xxInv'
  BY <1>2, <1>3 DEF Lpc32xxInv
<1>5. /\ \A k \in Line : (k \in busy <=> call[k] # Idle) /\ (k \in busy' <=> call'[k] # Idle)
      /\ busy \subseteq Line /\ busy' \subseteq Line
  BY DEF busy
<1>6. l \in busy /\ busy' \subseteq busy /\ busy \ busy' \subseteq {l}
  BY <1>2, <1>5, IdleRec
<1>7. l \notin busy' => st'[l] = want[l]
  <2>1. l \notin busy' => c.pc = "idle"
    BY <1>2, <1>5, IdleRec
  <2> QED BY <1>2, <2>1 DEF Asked
<1>8. Lines!Serve
  BY <1>6, <1>7, StTypedNext DEF Lines!Serve, Lines!LineState
<1> QED BY <1>4, <1>8

LEMMA SetLevelStep == ASSUME Lpc32xxInv, NEW l \in Line, set_level(l) PROVE Lpc32xxInv' /\ Lines!Serve
<1>1. /\ call[l].pc = "level" /\ outp' = Write(outp, outp_reg[l[1]], PIN_TO_BIT(l), call[l].high)
      /\ UNCHANGED <<added, owned, dirs, want>>
  BY DEF set_level
<1>2. TypeOK /\ call \in [Line -> CallRec] /\ Asked(l) /\ call[l] \in CallRec
  BY DEF Lpc32xxInv
<1>3. PICK v \in BOOLEAN, o \in BOOLEAN : v = call[l].high /\ o = call[l].out
  BY <1>1, <1>2 DEF CallRec
<1>4. l[1] # "gpi_p3" /\ (o => HasDirection(l)) /\ want[l] = IF o \/ drives(l) THEN Level(v) ELSE "in"
  BY <1>1, <1>2, <1>3 DEF Asked
<1>5. PICK c : c = IF o THEN [pc |-> "dir", input |-> FALSE] ELSE Idle
  OBVIOUS
<1>6. c \in CallRec /\ c.pc \in {"idle", "dir"} /\ (c.pc = "idle" <=> ~ o) /\ (o => ~ c.input)
  BY <1>5 DEF CallRec, Idle
<1>7. call' = [call EXCEPT ![l] = c]
  BY <1>2, <1>3, <1>5 DEF set_level
<1>8. outp' = Write(outp, outp_reg[l[1]], PIN_TO_BIT(l), v)
  BY <1>1, <1>3
<1>9. /\ outp' \in [{"P0", "P1", "P2", "P3"} -> SUBSET (0 .. 31)]
      /\ On(l)' <=> v
      /\ \A k \in Line : drives(k)' <=> drives(k)
      /\ \A k \in Line : k # l /\ k[1] # "gpi_p3" => (On(k)' <=> On(k))
      /\ \A k \in Line : k # l => st'[k] = st[k]
  BY <1>1, <1>2, <1>4, <1>8, LevelWritten
<1>10. TypeOK'
  BY <1>1, <1>2, <1>9 DEF TypeOK
<1>11. Level(On(l)') = Level(v)
  BY <1>9 DEF Level
<1>12. st'[l] = IF drives(l) THEN Level(v) ELSE "in"
  BY <1>9, <1>11, StAtNext
<1>13. st'[l] \in {st[l], want[l]}
  BY <1>4, <1>12, StAt
<1>14. Asked(l)'
  <2>1. call'[l] = c /\ want'[l] = want[l]
    BY <1>1, <1>2, <1>7
  <2>2. c.pc = "idle" => want[l] = st'[l]
    BY <1>4, <1>6, <1>12
  <2>3. c.pc = "dir" => HasDirection(l) /\ want[l] = IF c.input THEN "in" ELSE Level(On(l)')
    BY <1>4, <1>6, <1>11
  <2> QED BY <1>6, <2>1, <2>2, <2>3 DEF Asked
<1>15. call[l].pc # "idle"
  BY <1>1
<1> QED BY <1>1, <1>6, <1>7, <1>9, <1>10, <1>13, <1>14, <1>15, CallGoesOn

LEMMA SetDirStep == ASSUME Lpc32xxInv, NEW l \in Line, set_dir(l) PROVE Lpc32xxInv' /\ Lines!Serve
<1>1. /\ call[l].pc = "dir" /\ dirs' = Write(dirs, dir_reg[l[1]], PIN_TO_BIT(l), ~ call[l].input)
      /\ UNCHANGED <<added, owned, outp, want>> /\ call' = [call EXCEPT ![l] = Idle]
  BY DEF set_dir
<1>2. TypeOK /\ call \in [Line -> CallRec] /\ Asked(l) /\ call[l] \in CallRec
  BY DEF Lpc32xxInv
<1>3. PICK i \in BOOLEAN : i = call[l].input
  BY <1>1, <1>2 DEF CallRec
<1>4. HasDirection(l) /\ want[l] = IF i THEN "in" ELSE Level(On(l))
  BY <1>1, <1>2, <1>3 DEF Asked
<1>5. PICK v \in BOOLEAN : v = ~ i
  BY <1>3
<1>6. dirs' = Write(dirs, dir_reg[l[1]], PIN_TO_BIT(l), v)
  BY <1>1, <1>3, <1>5
<1>7. /\ dirs' \in [{"P0", "P1", "P2"} -> SUBSET (0 .. 31)]
      /\ drives(l)' <=> v
      /\ \A k \in Line : On(k)' <=> On(k)
      /\ \A k \in Line : k # l => (drives(k)' <=> drives(k))
      /\ \A k \in Line : k # l => st'[k] = st[k]
  BY <1>1, <1>2, <1>4, <1>6, DirectionWritten
<1>8. TypeOK'
  BY <1>1, <1>2, <1>7 DEF TypeOK
<1>9. Level(On(l)') = Level(On(l))
  BY <1>7 DEF Level
<1>10. st'[l] = want[l]
  BY <1>4, <1>5, <1>7, <1>9, StAtNext
<1>11. Asked(l)'
  <2>1. call'[l].pc = "idle" /\ want'[l] = want[l]
    BY <1>1, <1>2, IdleRec
  <2> QED BY <1>10, <2>1 DEF Asked
<1>12. call[l].pc # "idle" /\ Idle \in CallRec
  BY <1>1, IdleRec
<1> QED BY <1>1, <1>7, <1>8, <1>10, <1>11, <1>12, CallGoesOn

LEMMA CallStep ==
    ASSUME Lpc32xxInv, NEW l \in Line,
           dir_input(l) \/ \E v \in BOOLEAN : set_value(l, v) \/ dir_output(l, v)
    PROVE  Lpc32xxInv' /\ Lines!Request
<1>1. CASE dir_input(l)
  <2>1. PICK c : c = [pc |-> "dir", input |-> TRUE]
    OBVIOUS
  <2>2. c \in CallRec /\ c.pc = "dir" /\ c.input
    BY <2>1 DEF CallRec
  <2>3. HasDirection(l) /\ Call(l, c, "in")
    BY <1>1, <2>1 DEF dir_input
  <2> QED BY <2>2, <2>3, CallBegins
<1>2. ASSUME NEW v \in BOOLEAN, set_value(l, v) PROVE Lpc32xxInv' /\ Lines!Request
  <2>1. PICK c : c = [pc |-> "level", high |-> v, out |-> FALSE]
    OBVIOUS
  <2>2. c \in CallRec /\ c.pc = "level" /\ ~ c.out /\ c.high = v
    BY <2>1 DEF CallRec
  <2>3. PICK w : w = IF drives(l) THEN Level(v) ELSE "in"
    OBVIOUS
  <2>4. l[1] # "gpi_p3" /\ Call(l, c, w) /\ w \in {"in", "low", "high"}
    BY <1>2, <2>1, <2>3, LevelName DEF set_value
  <2>5. w = IF c.out \/ drives(l) THEN Level(c.high) ELSE "in"
    BY <2>2, <2>3
  <2> QED BY <2>2, <2>4, <2>5, CallBegins
<1>3. ASSUME NEW v \in BOOLEAN, dir_output(l, v) PROVE Lpc32xxInv' /\ Lines!Request
  <2>1. PICK o \in BOOLEAN : o <=> HasDirection(l)
    BY Zenon
  <2>2. o = HasDirection(l)
    BY <2>1 DEF HasDirection
  <2>3. PICK c : c = [pc |-> "level", high |-> v, out |-> o]
    OBVIOUS
  <2>4. c \in CallRec /\ c.pc = "level" /\ c.out = o /\ c.high = v
    BY <2>3 DEF CallRec
  <2>5. PICK w : w = Level(v)
    OBVIOUS
  <2>6. l[1] # "gpi_p3" /\ Call(l, c, w) /\ w \in {"in", "low", "high"}
    BY <1>3, <2>2, <2>3, <2>5, LevelName DEF dir_output
  <2>7. o \/ drives(l)
    <3>1. l[1] \in Chips
      BY LineFacts, LineTable
    <3> QED BY <2>1, <2>6, <3>1 DEF drives, HasDirection
  <2>8. w = IF c.out \/ drives(l) THEN Level(c.high) ELSE "in"
    BY <2>4, <2>5, <2>7
  <2> QED BY <2>1, <2>4, <2>6, <2>8, CallBegins
<1> QED BY <1>1, <1>2, <1>3

\* Probe and requests leave the registers and the calls alone.
LEMMA QuietStep ==
    ASSUME Lpc32xxInv, UNCHANGED <<outp, dirs, call, want>>, added' \subseteq Chips,
           owned' \subseteq {l \in Line : l[1] \in added'}
    PROVE  Lpc32xxInv' /\ UNCHANGED <<st, want, busy>>
<1>1. TypeOK'
  BY DEF Lpc32xxInv, TypeOK
<1>2. st' = st /\ \A k \in Line : (drives(k)' <=> drives(k)) /\ (On(k)' <=> On(k))
  BY SameRegs
<1>3. ASSUME NEW k \in Line PROVE Asked(k)'
  BY <1>2, StillAsked DEF Lpc32xxInv
<1> QED BY <1>1, <1>2, <1>3 DEF Lpc32xxInv, busy

LEMMA Lpc32xxStep ==
    ASSUME Lpc32xxInv, [Next]_vars
    PROVE  Lpc32xxInv' /\ [Lines!Request \/ Lines!Serve]_<<st, want, busy>>
<1>1. TypeOK
  BY DEF Lpc32xxInv
<1>2. CASE UNCHANGED vars
  BY <1>1, <1>2, QuietStep DEF vars, TypeOK
<1>3. CASE probe
  <2>1. UNCHANGED <<outp, dirs, call, want>> /\ added = {} /\ added' \subseteq Chips /\ owned' = owned
    BY <1>3 DEF probe
  <2>2. owned' = {}
    BY <1>1, <2>1 DEF TypeOK
  <2> QED BY <2>1, <2>2, QuietStep
<1>4. ASSUME NEW l \in Line, request(l) PROVE Lpc32xxInv' /\ UNCHANGED <<st, want, busy>>
  <2>1. UNCHANGED <<outp, dirs, call, want>> /\ added' = added /\ owned' = owned \cup {l} /\ l[1] \in added
    BY <1>4 DEF request
  <2> QED BY <1>1, <2>1, QuietStep DEF TypeOK
<1> QED BY <1>2, <1>3, <1>4, CallStep, SetLevelStep, SetDirStep DEF Next

------------------------------------------------------------------------------
(* The theorems.                                                             *)

LEMMA Lpc32xxAlways == Spec => []Lpc32xxInv
<1>1. Lpc32xxInv /\ [Next]_vars => Lpc32xxInv'
  BY Lpc32xxStep
<1> QED BY <1>1, Lpc32xxInit, PTL DEF Spec

\* Types, and of_xlate and request give consumers lines of registered chips only,
\* whichever chips devm_gpiochip_add_data() refuses.
THEOREM Lpc32xxTypeOK == Spec => []TypeOK
<1>1. Lpc32xxInv => TypeOK
  BY DEF Lpc32xxInv
<1> QED BY <1>1, Lpc32xxAlways, PTL

\* Whichever lines are in use, each that has a name is read from a bit of its own,
\* but for gpio_p3 pin 5 and gpi_p3 pin 24.
THEOREM Lpc32xxReadsOwnBit == Spec => []ReadsOwnBit
<1>1. ReadsOwnBit
  BY InputsApart DEF ReadsOwnBit
<1> QED BY <1>1, PTL

\* The calls of parallel consumers change their own lines only, each in one move, and
\* have done so when they return: no lock is needed, because no two lines share a bit
\* of a register and every change is one write to a set or a clear register.
THEOREM Lpc32xxImplementsGpioLines == Spec => ImplementsGpioLines
<1>1. Init => Lines!Init
  <2> SUFFICES ASSUME Init PROVE Lines!Init
    OBVIOUS
  <2>1. busy = {}
    BY DEF Init, busy
  <2> QED BY <2>1, StTyped DEF Init, Lines!Init, Lines!LineState
<1>2. Lpc32xxInv /\ [Next]_vars => [Lines!Request \/ Lines!Serve]_<<st, want, busy>>
  BY Lpc32xxStep
<1> QED BY <1>1, <1>2, Lpc32xxAlways, PTL DEF Spec, ImplementsGpioLines, Lines!Spec
===============================================================================
