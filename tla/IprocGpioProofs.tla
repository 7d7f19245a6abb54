--------------------------- MODULE IprocGpioProofs ----------------------------
(***************************************************************************)
(* The iProc GPIO controller for any pins, threads, controllers and calls: *)
(* lines and settings are the ones asked for, no edge is lost, and the     *)
(* lines behave as GpioLines says.                                         *)
(***************************************************************************)
EXTENDS IprocGpio, SequenceTheorems, WellFoundedInduction, TLAPS

BitRec == [reg : Names, on : BOOLEAN]
TState ==
    [pc : {"idle", "conf", "read", "write"}, pin : Nat, bits : Seq(BitRec),
     conf : Seq(STRING \X Nat), tmp : SUBSET Pin]
HState ==
    [pc : {"idle", "bank", "pin", "invoke", "child"}, bank : 0 .. num_banks, bits : SUBSET Line, pin : Nat]
Biases == {"bias_disable", "bias_pull_up", "bias_pull_down"}

Types ==
    /\ chip \in Chips /\ probe \in {"start", "gpio", "pinconf", "ready", "failed"}
    /\ reg \in [Names -> SUBSET Line] /\ stat \subseteq Line /\ due \subseteq Line
    /\ want \in [Pin -> {"in", "low", "high"}]
    /\ set \in [Line -> [bias : Biases, strength : Nat]]
    /\ th \in [Thread -> TState] /\ hnd \in HState
    /\ hnd.pc \in {"pin", "invoke", "child"} => hnd.bank < num_banks

\* A call works on a pin of its thread, and has bits to write while it reads or
\* writes: bits of registers that the kind of its call is about, each once.
Once(b) == \A i, j \in DOMAIN b : b[i].reg = b[j].reg => i = j
LineRegs == {"OUT_EN", "DATA_OUT"}
Call(t) ==
    /\ th[t].pc # "idle" => th[t].pin \in Line /\ Owner[th[t].pin] = t
    /\ th[t].pc \in {"read", "write"} <=> th[t].bits # <<>>
    /\ th[t].pc = "conf" => chip.calls = "conf"
    /\ Once(th[t].bits)
    /\ \A i \in DOMAIN th[t].bits : th[t].bits[i].reg \in LineRegs => chip.calls = "gpio"

\* The lock is held from the read to the write of a register, so that what was
\* read is what the register still holds.
Locked(t) ==
    /\ th[t].pc = "write" => lock = t
    /\ lock = t => th[t].pc \in {"read", "write"}
    /\ th[t].pc = "write" =>
          th[t].tmp = reg[Head(th[t].bits).reg] \cap SameRegister(Cell(Head(th[t].bits).reg, th[t].pin))

\* The bits that the call in progress on a pin has still to write, and the value
\* of register n for the pin once it has.
Rest(p) == IF th[Owner[p]].pc # "idle" /\ th[Owner[p]].pin = p THEN th[Owner[p]].bits ELSE <<>>
Turns(b, n) == \E i \in DOMAIN b : b[i].reg = n
TurnsOn(b, n) == \E i \in DOMAIN b : b[i].reg = n /\ b[i].on
Will(n, p) == TurnsOn(Rest(p), n) \/ (p \in reg[n] /\ ~ Turns(Rest(p), n))

\* The line will be as requested, and so will the settings.
LineWill(p) ==
    /\ want[p] = "in" <=> ~ Will("OUT_EN", p)
    /\ want[p] = "high" <=> Will("OUT_EN", p) /\ Will("DATA_OUT", p)
Weight(n, p, w) == IF Will(n, p) THEN w ELSE 0
SetWill(p) ==
    /\ set[p].bias = "bias_disable" <=> ~ Will("RES_EN", p)
    /\ set[p].bias = "bias_pull_up" <=> Will("RES_EN", p) /\ Will("PAD_RES", p)
    /\ set[p].strength = (Weight("DRV0", p, 1) + Weight("DRV1", p, 2) + Weight("DRV2", p, 4) + 1) * 2

IprocInv ==
    /\ Types /\ NoEdgeLost
    /\ lock \in Thread \cup {"none"} /\ \A t \in Thread : Call(t) /\ Locked(t)
    /\ \A p \in Pin : LineWill(p)
    /\ \A p \in Line : SetWill(p)

------------------------------------------------------------------------------
(* The pins of a controller, and its registers.                              *)

LEMMA ChipFacts ==
    ASSUME chip \in Chips
    PROVE  /\ Line \subseteq Pin /\ Pin \subseteq Nat /\ chip.boot \subseteq Line
           /\ num_banks \in Nat
           /\ \A p \in Line, n \in Names : Cell(n, p) = p
<1>1. /\ chip.ngpio \in Nat /\ chip.pins \subseteq Pin /\ Pin \subseteq Nat
      /\ chip.boot \subseteq {p \in chip.pins : p < chip.ngpio}
      /\ chip.io_ctrl => chip.ngpio <= 32
  BY IprocAssumption DEF NGPIOS_PER_BANK
<1>2. num_banks \in Nat
  BY <1>1 DEF num_banks, NGPIOS_PER_BANK
<1>3. ASSUME NEW p \in Line, NEW n \in Names PROVE Cell(n, p) = p
  <2>1. p \in Nat /\ p < chip.ngpio
    BY <1>1 DEF Line
  <2>2. CASE chip.io_ctrl
    <3>1. p % 32 = p
      BY <1>1, <2>1, <2>2
    <3> QED BY <3>1 DEF Cell, NGPIOS_PER_BANK
  <2>3. CASE ~ chip.io_ctrl
    BY <2>3 DEF Cell
  <2> QED BY <2>2, <2>3
<1> QED BY <1>1, <1>2, <1>3 DEF Line

LEMMA DrvRange == Range(Drv) = {"DRV0", "DRV1", "DRV2"}
<1>1. DOMAIN Drv = {1, 2, 3}
  BY DEF Drv
<1> QED BY <1>1 DEF Drv, Range

LEMMA NoTurns == ASSUME NEW n PROVE ~ Turns(<<>>, n) /\ ~ TurnsOn(<<>>, n)
BY DEF Turns, TurnsOn

LEMMA NoneTwice == Once(<<>>)
BY DEF Once

LEMMA TurnsTail ==
    ASSUME NEW b \in Seq(BitRec), b # <<>>, Once(b)
    PROVE  /\ Tail(b) \in Seq(BitRec) /\ Once(Tail(b)) /\ Head(b) \in BitRec
           /\ \A i \in DOMAIN Tail(b) : \E j \in DOMAIN b : Tail(b)[i] = b[j]
           /\ \A n : /\ Turns(b, n) <=> Head(b).reg = n \/ Turns(Tail(b), n)
                     /\ TurnsOn(b, n) <=> (Head(b).reg = n /\ Head(b).on) \/ TurnsOn(Tail(b), n)
                     /\ Head(b).reg = n => ~ Turns(Tail(b), n) /\ ~ TurnsOn(Tail(b), n)
<1>1. PICK l \in Nat : l = Len(b) /\ l > 0 /\ DOMAIN b = 1 .. l
  BY EmptySeq, LenProperties
<1>2. PICK r : r = Tail(b)
  OBVIOUS
<1>3. /\ r \in Seq(BitRec) /\ DOMAIN r = 1 .. l - 1 /\ \A i \in 1 .. l - 1 : r[i] = b[i + 1]
      /\ Head(b) = b[1] /\ Head(b) \in BitRec
  <2>1. /\ Tail(b) \in Seq(BitRec) /\ Len(Tail(b)) = Len(b) - 1 /\ \A i \in 1 .. Len(Tail(b)) : Tail(b)[i] = b[i + 1]
        /\ Head(b) = b[1] /\ Head(b) \in BitRec
    BY HeadTailProperties
  <2> QED BY <1>1, <1>2, <2>1, LenProperties
<1>4. /\ 1 \in 1 .. l /\ \A i \in 1 .. l - 1 : i + 1 \in 1 .. l /\ i + 1 # 1
      /\ \A i \in 1 .. l : i = 1 \/ \E k \in 1 .. l - 1 : i = k + 1
  <2>1. \A i \in 1 .. l : i = 1 \/ (i - 1 \in 1 .. l - 1 /\ i = (i - 1) + 1)
    OBVIOUS
  <2> QED BY <1>1, <2>1
<1>5. Once(r)
  <2> SUFFICES ASSUME NEW i \in 1 .. l - 1, NEW j \in 1 .. l - 1, r[i].reg = r[j].reg PROVE i = j
    BY <1>3 DEF Once
  <2>1. i + 1 = j + 1
    BY <1>1, <1>3, <1>4 DEF Once
  <2> QED BY <2>1
<1>6. ASSUME NEW n
      PROVE  /\ Turns(b, n) <=> Head(b).reg = n \/ Turns(r, n)
             /\ TurnsOn(b, n) <=> (Head(b).reg = n /\ Head(b).on) \/ TurnsOn(r, n)
             /\ Head(b).reg = n => ~ Turns(r, n) /\ ~ TurnsOn(r, n)
  <2>1. Turns(b, n) <=> Head(b).reg = n \/ Turns(r, n)
    <3>1. ASSUME NEW i \in 1 .. l, b[i].reg = n PROVE Head(b).reg = n \/ Turns(r, n)
      <4>1. CASE i = 1
        BY <1>3, <3>1, <4>1
      <4>2. ASSUME NEW k \in 1 .. l - 1, i = k + 1 PROVE Turns(r, n)
        BY <1>3, <3>1, <4>2 DEF Turns
      <4> QED BY <1>4, <4>1, <4>2
    <3>2. ASSUME NEW i \in 1 .. l - 1, r[i].reg = n PROVE Turns(b, n)
      <4>1. b[i + 1].reg = n /\ i + 1 \in DOMAIN b
        BY <1>1, <1>3, <1>4, <3>2
      <4> QED BY <4>1 DEF Turns
    <3>3. Head(b).reg = n => Turns(b, n)
      BY <1>1, <1>3, <1>4 DEF Turns
    <3> QED BY <1>1, <1>3, <3>1, <3>2, <3>3 DEF Turns
  <2>2. TurnsOn(b, n) <=> (Head(b).reg = n /\ Head(b).on) \/ TurnsOn(r, n)
    <3>1. ASSUME NEW i \in 1 .. l, b[i].reg = n, b[i].on PROVE (Head(b).reg = n /\ Head(b).on) \/ TurnsOn(r, n)
      <4>1. CASE i = 1
        BY <1>3, <3>1, <4>1
      <4>2. ASSUME NEW k \in 1 .. l - 1, i = k + 1 PROVE TurnsOn(r, n)
        BY <1>3, <3>1, <4>2 DEF TurnsOn
      <4> QED BY <1>4, <4>1, <4>2
    <3>2. ASSUME NEW i \in 1 .. l - 1, r[i].reg = n, r[i].on PROVE TurnsOn(b, n)
      <4>1. b[i + 1].reg = n /\ b[i + 1].on /\ i + 1 \in DOMAIN b
        BY <1>1, <1>3, <1>4, <3>2
      <4> QED BY <4>1 DEF TurnsOn
    <3>3. Head(b).reg = n /\ Head(b).on => TurnsOn(b, n)
      BY <1>1, <1>3, <1>4 DEF TurnsOn
    <3> QED BY <1>1, <1>3, <3>1, <3>2, <3>3 DEF TurnsOn
  <2>3. ASSUME Head(b).reg = n, NEW i \in DOMAIN r PROVE r[i].reg # n
    <3>1. b[1].reg = n /\ r[i] = b[i + 1] /\ i + 1 \in DOMAIN b /\ 1 \in DOMAIN b /\ i + 1 # 1
      BY <1>1, <1>3, <1>4, <2>3
    <3> QED BY <3>1 DEF Once
  <2> QED BY <2>1, <2>2, <2>3 DEF Turns, TurnsOn
<1>7. \A i \in DOMAIN r : \E j \in DOMAIN b : r[i] = b[j]
  BY <1>1, <1>3, <1>4
<1> QED BY <1>2, <1>3, <1>5, <1>6, <1>7

------------------------------------------------------------------------------
(* The first state.                                                          *)

\* What a pin that no call works on will be is what it is.
LEMMA RestNone == ASSUME NEW p, Rest(p) = <<>>, NEW n PROVE Will(n, p) <=> p \in reg[n]
BY NoTurns DEF Will

LEMMA BitOf == ASSUME chip \in Chips, NEW p \in Line, NEW n \in Names PROVE iproc_get_bit(n, p) <=> p \in reg[n]
BY ChipFacts DEF iproc_get_bit

LEMMA LineOf ==
    ASSUME NEW p \in Pin
    PROVE  /\ st[p] \in {"in", "low", "high"}
           /\ st[p] = "in" <=> ~ p \in reg["OUT_EN"]
           /\ st[p] = "high" <=> p \in reg["OUT_EN"] /\ p \in reg["DATA_OUT"]
<1>1. Cell("OUT_EN", p) = p /\ Cell("DATA_OUT", p) = p
  BY DrvRange DEF Cell
<1>2. st[p] = IF p \in reg["OUT_EN"] THEN Level(p \in reg["DATA_OUT"]) ELSE "in"
  BY <1>1 DEF st, iproc_get_bit
<1> QED BY <1>2 DEF Level

LEMMA ConfigOf ==
    ASSUME chip \in Chips, NEW p \in Line
    PROVE  /\ config_get(p) \in [bias : Biases, strength : Nat]
           /\ config_get(p).bias = "bias_disable" <=> ~ p \in reg["RES_EN"]
           /\ config_get(p).bias = "bias_pull_up" <=> p \in reg["RES_EN"] /\ p \in reg["PAD_RES"]
           /\ config_get(p).strength = ((IF p \in reg["DRV0"] THEN 1 ELSE 0) + (IF p \in reg["DRV1"] THEN 2 ELSE 0)
                                          + (IF p \in reg["DRV2"] THEN 4 ELSE 0) + 1) * 2
<1>1. /\ iproc_get_bit("RES_EN", p) <=> p \in reg["RES_EN"]
      /\ iproc_get_bit("PAD_RES", p) <=> p \in reg["PAD_RES"]
      /\ iproc_get_bit("DRV0", p) <=> p \in reg["DRV0"]
      /\ iproc_get_bit("DRV1", p) <=> p \in reg["DRV1"]
      /\ iproc_get_bit("DRV2", p) <=> p \in reg["DRV2"]
  BY BitOf, DrvRange DEF Names
<1>2. Drv[1] = "DRV0" /\ Drv[2] = "DRV1" /\ Drv[3] = "DRV2" /\ BIT[1] = 1 /\ BIT[2] = 2 /\ BIT[3] = 4
  BY DEF Drv, BIT
<1>3. PICK s : s = ((IF p \in reg["DRV0"] THEN 1 ELSE 0) + (IF p \in reg["DRV1"] THEN 2 ELSE 0)
                      + (IF p \in reg["DRV2"] THEN 4 ELSE 0) + 1) * 2
  OBVIOUS
<1>4. s \in Nat
  BY <1>3
<1>5. config_get(p) = [bias |-> IF ~ p \in reg["RES_EN"] THEN "bias_disable"
                                ELSE IF p \in reg["PAD_RES"] THEN "bias_pull_up" ELSE "bias_pull_down",
                       strength |-> s]
  BY <1>1, <1>2, <1>3 DEF config_get
<1> QED BY <1>3, <1>4, <1>5 DEF Biases

LEMMA IdleState == Idle \in TState /\ Idle.pc = "idle" /\ Idle.bits = <<>>
<1>1. << >> \in Seq(BitRec) /\ << >> \in Seq(STRING \X Nat)
  OBVIOUS
<1> QED BY <1>1 DEF Idle, TState

LEMMA IprocInit == Init => IprocInv
<1> SUFFICES ASSUME Init PROVE IprocInv
  OBVIOUS
<1>1. /\ chip \in Chips /\ probe = "start" /\ reg = [n \in Names |-> chip.boot] /\ stat = {} /\ due = {}
      /\ lock = "none" /\ th = [t \in Thread |-> Idle] /\ hnd = Quiet /\ want = st
      /\ set = [p \in Line |-> config_get(p)]
  BY DEF Init
<1>2. Line \subseteq Pin /\ Pin \subseteq Nat /\ chip.boot \subseteq Line /\ num_banks \in Nat
  BY <1>1, ChipFacts
<1>3. Idle \in TState /\ Idle.pc = "idle" /\ Idle.bits = <<>>
  BY IdleState
<1>4. Quiet \in HState /\ Quiet.pc = "idle"
  BY <1>2 DEF Quiet, HState
<1>5. Types
  <2>1. reg \in [Names -> SUBSET Line]
    BY <1>1, <1>2
  <2>2. want \in [Pin -> {"in", "low", "high"}]
    <3>1. DOMAIN st = Pin /\ st = [p \in Pin |-> st[p]]
      BY DEF st
    <3> QED BY <1>1, <3>1, LineOf
  <2>3. set \in [Line -> [bias : Biases, strength : Nat]]
    BY <1>1, ConfigOf
  <2> QED BY <1>1, <1>3, <1>4, <2>1, <2>2, <2>3 DEF Types
<1>6. ASSUME NEW t \in Thread PROVE Call(t) /\ Locked(t)
  <2>1. th[t].pc = "idle" /\ th[t].bits = <<>>
    BY <1>1, <1>3
  <2>2. lock # t
    BY <1>1, IprocAssumption
  <2> QED BY <2>1, <2>2, NoneTwice DEF Call, Locked
<1>7. \A p \in Pin : Rest(p) = <<>>
  <2>1. \A p \in Pin : Owner[p] \in Thread
    BY IprocAssumption
  <2> QED BY <1>1, <1>3, <2>1 DEF Rest
<1>8. \A p \in Pin : \A n : Will(n, p) <=> p \in reg[n]
  BY <1>7, RestNone
<1>9. \A p \in Pin : LineWill(p)
  BY <1>1, <1>8, LineOf DEF LineWill
<1>10. ASSUME NEW p \in Line PROVE SetWill(p)
  <2>1. p \in Pin /\ set[p] = config_get(p)
    BY <1>1, <1>2
  <2> QED BY <1>1, <1>8, <2>1, ConfigOf DEF SetWill, Weight
<1> QED BY <1>1, <1>5, <1>6, <1>9, <1>10 DEF IprocInv, NoEdgeLost

------------------------------------------------------------------------------
(* Steps that leave the registers and the calls alone.                       *)

LEMMA QuietStep ==
    ASSUME IprocInv, UNCHANGED <<chip, reg, lock, th, want, set>>,
           probe' \in {"start", "gpio", "pinconf", "ready", "failed"},
           stat' \subseteq Line, due' \subseteq Line, hnd' \in HState,
           hnd'.pc \in {"pin", "invoke", "child"} => hnd'.bank < num_banks,
           NoEdgeLost'
    PROVE  IprocInv'
<1>1. Line' = Line /\ num_banks' = num_banks
  BY DEF Line, num_banks
<1>2. HState' = HState
  BY <1>1 DEF HState
<1>3. Types'
  BY <1>1, <1>2 DEF IprocInv, Types
<1>4. \A t \in Thread : Call(t)' /\ Locked(t)'
  BY <1>1 DEF IprocInv, Call, Locked, Cell
<1>5. \A p \in Pin : LineWill(p)'
  BY DEF IprocInv, LineWill, Will, Rest
<1>6. \A p \in Line : SetWill(p)'
  BY DEF IprocInv, SetWill, Weight, Will, Rest
<1> QED BY <1>1, <1>3, <1>4, <1>5, <1>6 DEF IprocInv

LEMMA ProbeStep == ASSUME IprocInv, Probe PROVE IprocInv'
<1>1. UNCHANGED <<chip, reg, stat, lock, th, hnd, want, set, due>> /\ probe' \in {"gpio", "pinconf", "ready", "failed"}
  BY DEF Probe
<1>2. NoEdgeLost' = NoEdgeLost
  BY <1>1 DEF NoEdgeLost
<1> QED BY <1>1, <1>2, QuietStep DEF IprocInv, Types

LEMMA ToggleStep == ASSUME IprocInv, NEW p \in Pin, Toggle(p) \/ Latch(p) PROVE IprocInv'
<1>1. /\ UNCHANGED <<chip, probe, reg, lock, th, hnd, want, set>> /\ p \in Line
      /\ \/ stat' = stat /\ due' = due
         \/ stat' = stat \cup {p} /\ due' \subseteq due \cup {p}
  BY DEF Toggle, Latch
<1>2. NoEdgeLost'
  BY <1>1 DEF IprocInv, NoEdgeLost
<1>3. stat' \subseteq Line /\ due' \subseteq Line
  BY <1>1 DEF IprocInv, Types
<1> QED BY <1>1, <1>2, <1>3, QuietStep DEF IprocInv, Types

LEMMA MinIn == ASSUME NEW S \in SUBSET Nat, S # {} PROVE Min(S) \in S
<1> DEFINE R == OpToRel(<, Nat)
<1>1. IsWellFoundedOn(R, Nat)
  BY NatLessThanWellFounded
<1>2. \A x, y \in Nat : <<x, y>> \in R <=> x < y
  BY DEF OpToRel
<1> HIDE DEF R
<1>3. PICK n \in S : \A y \in S : ~ (<<y, n>> \in R)
  BY <1>1, WFMin
<1>4. ASSUME NEW m \in S PROVE n <= m
  <2>1. m \in Nat /\ n \in Nat /\ ~ (<<m, n>> \in R)
    BY <1>3
  <2>2. ~ (m < n)
    BY <1>2, <2>1, Zenon
  <2> QED BY <2>1, <2>2
<1> QED BY <1>4 DEF Min

\* The handler clears a pin before the child handler is invoked for it.
LEMMA HandlerStep == ASSUME IprocInv, Handler PROVE IprocInv'
<1>1. /\ UNCHANGED <<chip, probe, reg, lock, th, want, set>>
  BY DEF Handler, HandlerEnter, HandlerBank, HandlerClear, HandlerInvoke, HandlerReturn
<1>2. /\ chip \in Chips /\ hnd \in HState /\ stat \subseteq Line /\ due \subseteq Line
      /\ hnd.pc \in {"pin", "invoke", "child"} => hnd.bank < num_banks
      /\ probe' \in {"start", "gpio", "pinconf", "ready", "failed"}
  BY <1>1 DEF IprocInv, Types
<1>3. num_banks \in Nat /\ Line \subseteq Nat
  BY <1>2, ChipFacts
<1>4. due \subseteq stat \cup (IF hnd.pc = "invoke" THEN {hnd.pin} ELSE {})
  BY DEF IprocInv, NoEdgeLost
<1>5. CASE HandlerEnter
  <2>1. stat' = stat /\ due' = due /\ hnd.pc = "idle" /\ hnd' = [Quiet EXCEPT !.pc = "bank"]
    BY <1>5 DEF HandlerEnter
  <2>2. hnd' \in HState /\ hnd'.pc = "bank"
    BY <1>3, <2>1 DEF Quiet, HState
  <2>3. NoEdgeLost'
    BY <1>4, <2>1, <2>2 DEF NoEdgeLost
  <2> QED BY <1>1, <1>2, <2>1, <2>2, <2>3, QuietStep
<1>6. CASE HandlerBank
  <2>1. /\ stat' = stat /\ due' = due /\ hnd.pc = "bank"
        /\ hnd' = IF hnd.bank = num_banks THEN Quiet ELSE [hnd EXCEPT !.pc = "pin", !.bits = MSTAT(hnd.bank)]
    BY <1>6 DEF HandlerBank
  <2>2. MSTAT(hnd.bank) \subseteq Line
    BY <1>2 DEF MSTAT
  <2>3. hnd' \in HState /\ hnd'.pc \in {"idle", "pin"} /\ (hnd'.pc = "pin" => hnd'.bank < num_banks)
    <3>1. CASE hnd.bank = num_banks
      BY <1>3, <2>1, <3>1 DEF Quiet, HState
    <3>2. CASE hnd.bank # num_banks
      <4>1. hnd.bank < num_banks
        BY <1>2, <1>3, <3>2 DEF HState
      <4> QED BY <1>2, <2>1, <2>2, <3>2, <4>1 DEF HState
    <3> QED BY <3>1, <3>2
  <2>4. NoEdgeLost'
    BY <1>4, <2>1, <2>3 DEF NoEdgeLost
  <2> QED BY <1>1, <1>2, <2>1, <2>3, <2>4, QuietStep
<1>7. CASE HandlerClear
  <2>1. hnd.pc = "pin" /\ due' = due
    BY <1>7 DEF HandlerClear
  <2>2. CASE hnd.bits = {}
    <3>1. stat' = stat /\ hnd' = [hnd EXCEPT !.pc = "bank", !.bank = @ + 1]
      BY <1>7, <2>2 DEF HandlerClear
    <3>2. hnd.bank + 1 \in 0 .. num_banks
      BY <1>2, <1>3, <2>1 DEF HState
    <3>3. hnd' \in HState /\ hnd'.pc = "bank"
      BY <1>2, <3>1, <3>2 DEF HState
    <3>4. NoEdgeLost'
      BY <1>4, <2>1, <3>1, <3>3 DEF NoEdgeLost
    <3> QED BY <1>1, <1>2, <2>1, <3>1, <3>3, <3>4, QuietStep
  <2>3. CASE hnd.bits # {}
    <3>1. PICK m : m = Min(hnd.bits)
      OBVIOUS
    <3>2. hnd.bits \in SUBSET Line
      BY <1>2 DEF HState
    <3>3. m \in hnd.bits /\ m \in Nat
      <4>1. hnd.bits \in SUBSET Nat
        BY <1>3, <3>2
      <4> QED BY <2>3, <3>1, <4>1, MinIn
    <3>4. stat' = stat \ {m} /\ hnd' = [hnd EXCEPT !.pc = "invoke", !.pin = m, !.bits = @ \ {m}]
      BY <1>7, <2>3, <3>1 DEF HandlerClear
    <3>5. hnd' \in HState /\ hnd'.pc = "invoke" /\ hnd'.bank = hnd.bank /\ hnd'.pin = m
      BY <1>2, <3>2, <3>3, <3>4 DEF HState
    <3>6. NoEdgeLost'
      BY <1>4, <2>1, <3>4, <3>5 DEF NoEdgeLost
    <3>7. stat' \subseteq Line /\ due' \subseteq Line /\ hnd'.bank < num_banks
      BY <1>2, <2>1, <3>4, <3>5
    <3> QED BY <1>1, <1>2, <3>5, <3>6, <3>7, QuietStep
  <2> QED BY <2>2, <2>3
<1>8. CASE HandlerInvoke
  <2>1. hnd.pc = "invoke" /\ stat' = stat /\ due' = due \ {hnd.pin} /\ hnd' = [hnd EXCEPT !.pc = "child"]
    BY <1>8 DEF HandlerInvoke
  <2>2. hnd' \in HState /\ hnd'.pc = "child" /\ hnd'.bank = hnd.bank
    BY <1>2, <2>1 DEF HState
  <2>3. NoEdgeLost'
    BY <1>4, <2>1, <2>2 DEF NoEdgeLost
  <2>4. due' \subseteq Line /\ hnd'.bank < num_banks
    BY <1>2, <2>1, <2>2
  <2> QED BY <1>1, <1>2, <2>1, <2>2, <2>3, <2>4, QuietStep
<1>9. CASE HandlerReturn
  <2>1. hnd.pc = "child" /\ stat' = stat /\ due' = due /\ hnd' = [hnd EXCEPT !.pc = "pin"]
    BY <1>9 DEF HandlerReturn
  <2>2. hnd' \in HState /\ hnd'.pc = "pin" /\ hnd'.bank = hnd.bank
    BY <1>2, <2>1 DEF HState
  <2>3. NoEdgeLost'
    BY <1>4, <2>1, <2>2 DEF NoEdgeLost
  <2>4. hnd'.bank < num_banks
    BY <1>2, <2>1, <2>2
  <2> QED BY <1>1, <1>2, <2>1, <2>2, <2>3, <2>4, QuietStep
<1> QED BY <1>5, <1>6, <1>7, <1>8, <1>9 DEF Handler

------------------------------------------------------------------------------
(* Steps of calls.                                                           *)

LEMMA CallStep ==
    ASSUME IprocInv, NEW t \in Thread, UNCHANGED <<chip, probe, stat, hnd, due>>,
           reg' \in [Names -> SUBSET Line], lock' \in Thread \cup {"none"},
           want' \in [Pin -> {"in", "low", "high"}], set' \in [Line -> [bias : Biases, strength : Nat]],
           th' \in [Thread -> TState], \A u \in Thread : u # t => th'[u] = th[u],
           \A u \in Thread : u # t => (lock' = u <=> lock = u), reg' = reg \/ lock = t,
           Call(t)', Locked(t)', \A p \in Pin : LineWill(p)', \A p \in Line : SetWill(p)'
    PROVE  IprocInv'
<1>1. Line' = Line /\ num_banks' = num_banks
  BY DEF Line, num_banks
<1>2. HState' = HState
  BY <1>1 DEF HState
<1>3. Types'
  BY <1>1, <1>2 DEF IprocInv, Types
<1>4. NoEdgeLost'
  BY DEF IprocInv, NoEdgeLost
<1>5. ASSUME NEW u \in Thread, u # t PROVE Call(u)' /\ Locked(u)'
  <2>1. th'[u] = th[u] /\ Call(u) /\ Locked(u)
    BY <1>5 DEF IprocInv
  <2>2. Call(u)'
    BY <1>1, <2>1 DEF Call
  <2>3. (th[u].pc = "write" => lock' = u) /\ (lock' = u => th[u].pc \in {"read", "write"})
    BY <1>5, <2>1 DEF Locked
  <2>4. th[u].pc = "write" => reg' = reg
    BY <1>5, <2>1 DEF Locked
  <2>5. \A n, c : Cell(n, c)' = Cell(n, c)
    BY DEF Cell
  <2> QED BY <2>1, <2>2, <2>3, <2>4, <2>5 DEF Locked
<1> QED BY <1>1, <1>3, <1>4, <1>5 DEF IprocInv

\* A step of a call after which the pins will be as they would have been.
LEMMA SameWill ==
    ASSUME IprocInv, NEW t \in Thread, UNCHANGED <<chip, probe, stat, hnd, due, want, set>>,
           reg' \in [Names -> SUBSET Line], lock' \in Thread \cup {"none"},
           th' \in [Thread -> TState], \A u \in Thread : u # t => th'[u] = th[u],
           \A u \in Thread : u # t => (lock' = u <=> lock = u), reg' = reg \/ lock = t,
           Call(t)', Locked(t)', \A n \in Names, p \in Pin : Will(n, p)' <=> Will(n, p)
    PROVE  IprocInv'
<1>1. {"OUT_EN", "DATA_OUT", "RES_EN", "PAD_RES", "DRV0", "DRV1", "DRV2"} \subseteq Names
  BY DrvRange DEF Names
<1>2. chip \in Chips /\ Line \subseteq Pin
  BY ChipFacts DEF IprocInv, Types
<1>3. \A p \in Pin : LineWill(p)'
  BY <1>1 DEF IprocInv, LineWill
<1>4. ASSUME NEW p \in Line PROVE SetWill(p)'
  <2>1. p \in Pin /\ SetWill(p)
    BY <1>2 DEF IprocInv
  <2>2. \A n \in Names : \A w : Weight(n, p, w)' = Weight(n, p, w)
    BY <2>1 DEF Weight
  <2> QED BY <1>1, <2>1, <2>2 DEF SetWill
<1>5. want' \in [Pin -> {"in", "low", "high"}] /\ set' \in [Line -> [bias : Biases, strength : Nat]]
  BY DEF IprocInv, Types
<1> QED BY <1>3, <1>4, <1>5, CallStep

LEMMA OtherPins ==
    ASSUME NEW t \in Thread, \A u \in Thread : u # t => th'[u] = th[u], NEW p \in Pin,
           \/ Owner[p] # t
           \/ (th[t].pc = "idle" \/ th[t].pin # p) /\ (th'[t].pc = "idle" \/ th'[t].pin # p)
    PROVE  Rest(p)' = Rest(p)
<1>1. Owner[p] \in Thread
  BY IprocAssumption
<1> QED BY <1>1 DEF Rest

LEMMA ReadRegStep == ASSUME IprocInv, NEW t \in Thread, ReadReg(t) PROVE IprocInv'
<1>1. PICK n : n = Head(th[t].bits).reg
  OBVIOUS
<1>2. PICK tmp : tmp = reg[n] \cap SameRegister(Cell(n, th[t].pin))
  OBVIOUS
<1>3. /\ UNCHANGED <<chip, probe, reg, stat, hnd, want, set, due>> /\ th[t].pc = "read" /\ lock \in {"none", t}
      /\ lock' = t /\ th' = [th EXCEPT ![t].pc = "write", ![t].tmp = tmp]
  BY <1>1, <1>2 DEF ReadReg
<1>4. /\ th \in [Thread -> TState] /\ reg \in [Names -> SUBSET Line] /\ chip \in Chips /\ Call(t)
  BY DEF IprocInv, Types
<1>5. tmp \in SUBSET Pin
  BY <1>2 DEF SameRegister
<1>6. /\ th' \in [Thread -> TState] /\ th'[t].pc = "write" /\ th'[t].tmp = tmp
      /\ th'[t].pin = th[t].pin /\ th'[t].bits = th[t].bits /\ \A u \in Thread : u # t => th'[u] = th[u]
  BY <1>3, <1>4, <1>5 DEF TState
<1>7. Line' = Line
  BY <1>3 DEF Line
<1>8. Call(t)'
  BY <1>3, <1>4, <1>6, <1>7 DEF Call
<1>10. Locked(t)'
  BY <1>1, <1>2, <1>3, <1>6 DEF Locked, Cell
<1>11. \A p \in Pin : Rest(p)' = Rest(p)
  BY <1>3, <1>6, IprocAssumption DEF Rest
<1>12. \A x \in Names, p \in Pin : Will(x, p)' <=> Will(x, p)
  BY <1>3, <1>11 DEF Will
<1>13. reg' \in [Names -> SUBSET Line] /\ lock' \in Thread \cup {"none"}
  BY <1>3, <1>4
<1>14. \A u \in Thread : u # t => (lock' = u <=> lock = u)
  BY <1>3, IprocAssumption
<1> QED BY <1>3, <1>6, <1>8, <1>10, <1>12, <1>13, <1>14, SameWill

\* What WriteReg() makes of the register: the one bit changes.
LEMMA WriteOne ==
    ASSUME IprocInv, NEW t \in Thread, WriteReg(t)
    PROVE  /\ reg' \in [Names -> SUBSET Line] /\ lock = t /\ th[t].pin \in Line
           /\ \A n \in Names, q \in Pin :
                 q \in reg'[n] <=> IF n = Head(th[t].bits).reg /\ q = th[t].pin THEN Head(th[t].bits).on
                                   ELSE q \in reg[n]
<1>1. th[t].pc = "write" /\ Call(t) /\ Locked(t) /\ chip \in Chips /\ reg \in [Names -> SUBSET Line]
  BY DEF WriteReg, IprocInv, Types
<1>2. th[t] \in TState /\ th[t].bits \in Seq(BitRec) /\ th[t].bits # <<>>
  BY <1>1 DEF IprocInv, Types, TState, Call
<1>3. PICK h \in BitRec : h = Head(th[t].bits)
  BY <1>2, HeadTailProperties
<1>4. PICK n \in Names : n = h.reg
  BY DEF BitRec
<1>5. PICK p : p = th[t].pin /\ p \in Line /\ p \in Pin
  BY <1>1, ChipFacts DEF Call
<1>6. Cell(n, p) = p
  BY <1>1, <1>5, ChipFacts
<1>7. PICK tmp : tmp = th[t].tmp /\ tmp = reg[n] \cap SameRegister(p)
  BY <1>1, <1>3, <1>4, <1>5, <1>6 DEF Locked
<1>8. PICK R : R = (reg[n] \ SameRegister(p)) \cup (IF h.on THEN tmp \cup {p} ELSE tmp \ {p})
  OBVIOUS
<1>9. reg' = [reg EXCEPT ![n] = R]
  BY <1>3, <1>4, <1>5, <1>6, <1>7, <1>8 DEF WriteReg
<1>10. p \in SameRegister(p)
  BY <1>5 DEF SameRegister
<1>11. R \subseteq Line /\ \A q \in Pin : q \in R <=> IF q = p THEN h.on ELSE q \in reg[n]
  BY <1>1, <1>5, <1>7, <1>8, <1>10
<1>12. reg' \in [Names -> SUBSET Line]
  BY <1>1, <1>9, <1>11
<1>13. lock = t
  BY <1>1 DEF Locked
<1>14. \A m \in Names : reg'[m] = IF m = n THEN R ELSE reg[m]
  BY <1>1, <1>9
<1>15. \A m \in Names, q \in Pin : q \in reg'[m] <=> IF m = n /\ q = p THEN h.on ELSE q \in reg[m]
  BY <1>11, <1>14
<1> QED BY <1>3, <1>4, <1>5, <1>12, <1>13, <1>15

LEMMA WriteRegStep == ASSUME IprocInv, NEW t \in Thread, WriteReg(t) PROVE IprocInv'
<1>1. /\ UNCHANGED <<chip, probe, stat, hnd, want, set, due>> /\ th[t].pc = "write"
  BY DEF WriteReg
<1>2. th \in [Thread -> TState] /\ Call(t) /\ chip \in Chips
  BY DEF IprocInv, Types
<1>3. PICK b \in Seq(BitRec) : b = th[t].bits /\ b # <<>> /\ Once(b)
  BY <1>1, <1>2 DEF TState, Call
<1>4. /\ Tail(b) \in Seq(BitRec) /\ Once(Tail(b)) /\ \A i \in DOMAIN Tail(b) : \E j \in DOMAIN b : Tail(b)[i] = b[j]
  BY <1>3, TurnsTail
<1>5. PICK r \in Seq(BitRec) : r = Tail(b)
  BY <1>4
<1>6. PICK p \in Line : p = th[t].pin /\ p \in Pin /\ Owner[p] = t
  BY <1>1, <1>2, ChipFacts DEF Call
<1>7. /\ th' \in [Thread -> TState] /\ \A u \in Thread : u # t => th'[u] = th[u]
      /\ \/ r # <<>> /\ th'[t].pc = "read" /\ th'[t].bits = r /\ th'[t].pin = p /\ lock' = lock
         \/ r = <<>> /\ chip.calls = "conf" /\ th'[t].pc = "conf" /\ th'[t].bits = r /\ th'[t].pin = p /\ lock' = "none"
         \/ r = <<>> /\ th'[t].pc = "idle" /\ th'[t].bits = r /\ lock' = "none"
  <2>1. CASE r # <<>>
    <3>1. th' = [th EXCEPT ![t].pc = "read", ![t].bits = r] /\ lock' = lock
      BY <1>3, <1>5, <2>1 DEF WriteReg
    <3>2. th[t] \in TState
      BY <1>2
    <3> QED BY <1>2, <1>5, <1>6, <2>1, <3>1, <3>2 DEF TState
  <2>2. CASE r = <<>> /\ chip.calls = "conf"
    <3>1. th' = [th EXCEPT ![t] = [th[t] EXCEPT !.pc = "conf", !.bits = r, !.tmp = {}]] /\ lock' = "none"
      BY <1>3, <1>5, <2>2 DEF WriteReg
    <3>2. PICK x : x = [th[t] EXCEPT !.pc = "conf", !.bits = r, !.tmp = {}]
      OBVIOUS
    <3>3. x \in TState /\ x.pc = "conf" /\ x.bits = r /\ x.pin = p
      BY <1>2, <1>6, <3>2 DEF TState
    <3>4. th' = [th EXCEPT ![t] = x]
      BY <3>1, <3>2
    <3> QED BY <1>2, <2>2, <3>1, <3>3, <3>4
  <2>3. CASE r = <<>> /\ chip.calls # "conf"
    <3>1. th' = [th EXCEPT ![t] = Idle] /\ lock' = "none"
      BY <1>3, <1>5, <2>3 DEF WriteReg
    <3>2. Idle \in TState /\ Idle.pc = "idle" /\ Idle.bits = <<>>
      BY IdleState
    <3> QED BY <1>2, <2>3, <3>1, <3>2
  <2> QED BY <2>1, <2>2, <2>3
<1>8. Line' = Line
  BY <1>1 DEF Line
<1>9. Call(t)'
  <2>1. \A i \in DOMAIN r : r[i].reg \in LineRegs => chip.calls = "gpio"
    BY <1>2, <1>3, <1>4, <1>5 DEF Call
  <2>2. Once(r)
    BY <1>4, <1>5
  <2> QED BY <1>1, <1>6, <1>7, <1>8, <2>1, <2>2 DEF Call
<1>10. lock = t /\ reg' \in [Names -> SUBSET Line]
  BY WriteOne
<1>11. Locked(t)'
  <2>1. th'[t].pc # "write" /\ (lock' = t => th'[t].pc = "read")
    BY <1>7, <1>10, IprocAssumption
  <2> QED BY <2>1 DEF Locked
<1>12. ASSUME NEW n \in Names, NEW q \in Pin PROVE Will(n, q)' <=> Will(n, q)
  <2>1. CASE q # p
    <3>1. Rest(q)' = Rest(q)
      BY <1>6, <1>7, <2>1, OtherPins
    <3>2. q \in reg'[n] <=> q \in reg[n]
      BY <1>6, <1>12, <2>1, WriteOne
    <3> QED BY <3>1, <3>2 DEF Will
  <2>2. CASE q = p
    <3>1. Rest(q) = b /\ Rest(q)' = r
      BY <1>1, <1>3, <1>6, <1>7, <2>2 DEF Rest
    <3>2. p \in reg'[n] <=> IF n = Head(b).reg THEN Head(b).on ELSE p \in reg[n]
      BY <1>3, <1>6, <1>12, WriteOne
    <3>3. /\ Turns(b, n) <=> Head(b).reg = n \/ Turns(r, n)
          /\ TurnsOn(b, n) <=> (Head(b).reg = n /\ Head(b).on) \/ TurnsOn(r, n)
          /\ Head(b).reg = n => ~ Turns(r, n) /\ ~ TurnsOn(r, n)
      BY <1>3, <1>5, TurnsTail
    <3>4. Will(n, q) <=> TurnsOn(b, n) \/ (p \in reg[n] /\ ~ Turns(b, n))
      BY <2>2, <3>1 DEF Will
    <3>5. Will(n, q)' <=> TurnsOn(r, n) \/ (p \in reg'[n] /\ ~ Turns(r, n))
      BY <2>2, <3>1 DEF Will
    <3> QED BY <3>2, <3>3, <3>4, <3>5
  <2> QED BY <2>1, <2>2
<1>13. lock' \in Thread \cup {"none"} /\ \A u \in Thread : u # t => (lock' = u <=> lock = u)
  BY <1>7, <1>10, IprocAssumption
<1> QED BY <1>1, <1>7, <1>9, <1>10, <1>11, <1>12, <1>13, SameWill

------------------------------------------------------------------------------
(* The bits of the calls.                                                    *)

LEMMA BitFields == ASSUME NEW n \in Names, NEW v \in BOOLEAN PROVE Bit(n, v) \in BitRec /\ Bit(n, v).reg = n /\ (Bit(n, v).on <=> v)
BY DEF Bit, BitRec

LEMMA OneBit ==
    ASSUME NEW x \in BitRec, NEW b, b = <<x>>
    PROVE  /\ b \in Seq(BitRec) /\ b # <<>> /\ Once(b)
           /\ \A m : Turns(b, m) <=> m = x.reg
           /\ \A m : TurnsOn(b, m) <=> m = x.reg /\ x.on
           /\ \A i \in DOMAIN b : b[i].reg = x.reg
<1>1. b \in Seq(BitRec) /\ b # <<>> /\ DOMAIN b = {1} /\ b[1] = x
  OBVIOUS
<1> QED BY <1>1 DEF Once, Turns, TurnsOn

LEMMA TwoBits ==
    ASSUME NEW x \in BitRec, NEW y \in BitRec, x.reg # y.reg, NEW b, b = <<x, y>>
    PROVE  /\ b \in Seq(BitRec) /\ b # <<>> /\ Once(b)
           /\ \A m : Turns(b, m) <=> m = x.reg \/ m = y.reg
           /\ \A m : TurnsOn(b, m) <=> (m = x.reg /\ x.on) \/ (m = y.reg /\ y.on)
           /\ \A i \in DOMAIN b : b[i].reg = x.reg \/ b[i].reg = y.reg
<1>1. b \in Seq(BitRec) /\ b # <<>> /\ DOMAIN b = {1, 2} /\ b[1] = x /\ b[2] = y
  OBVIOUS
<1> QED BY <1>1 DEF Once, Turns, TurnsOn

LEMMA ThreeBits ==
    ASSUME NEW b, DOMAIN b = {1, 2, 3}, b[1] \in BitRec, b[2] \in BitRec, b[3] \in BitRec,
           b[1].reg # b[2].reg, b[1].reg # b[3].reg, b[2].reg # b[3].reg
    PROVE  /\ Once(b)
           /\ \A m : Turns(b, m) <=> m = b[1].reg \/ m = b[2].reg \/ m = b[3].reg
           /\ \A m : TurnsOn(b, m) <=> (m = b[1].reg /\ b[1].on) \/ (m = b[2].reg /\ b[2].on) \/ (m = b[3].reg /\ b[3].on)
           /\ \A i \in DOMAIN b : b[i].reg = b[1].reg \/ b[i].reg = b[2].reg \/ b[i].reg = b[3].reg
BY DEF Once, Turns, TurnsOn

LEMMA TurnsFirst == ASSUME NEW b, NEW n, TurnsOn(b, n) PROVE Turns(b, n)
BY DEF Turns, TurnsOn

\* A call begins with its bits to write.
GoodBits(b) ==
    /\ b \in Seq(BitRec) /\ b # <<>> /\ Once(b)
    /\ \A i \in DOMAIN b : b[i].reg \in LineRegs => chip.calls = "gpio"

LEMMA BeginFacts ==
    ASSUME IprocInv, NEW t \in Thread, NEW p \in Pin, NEW b, GoodBits(b), Begin(t, p, b)
    PROVE  /\ th' \in [Thread -> TState] /\ \A u \in Thread : u # t => th'[u] = th[u]
           /\ Call(t)' /\ Locked(t)' /\ p \in Line
           /\ \A n : \A q \in Pin : q # p => (Will(n, q)' <=> Will(n, q))
           /\ \A n : Will(n, p) <=> p \in reg[n]
           /\ \A n : Will(n, p)' <=> TurnsOn(b, n) \/ (p \in reg[n] /\ ~ Turns(b, n))
<1>1. /\ th[t].pc = "idle" /\ Owner[p] = t /\ p \in Line
      /\ th' = [th EXCEPT ![t] = [Idle EXCEPT !.pc = "read", !.pin = p, !.bits = b]]
      /\ UNCHANGED <<chip, reg, lock>>
  BY DEF Begin
<1>2. th \in [Thread -> TState] /\ Locked(t) /\ chip \in Chips
  BY DEF IprocInv, Types
<1>3. b \in Seq(BitRec) /\ b # <<>> /\ Once(b)
  BY DEF GoodBits
<1>4. PICK x : x = [Idle EXCEPT !.pc = "read", !.pin = p, !.bits = b]
  OBVIOUS
<1>5. x \in TState /\ x.pc = "read" /\ x.pin = p /\ x.bits = b
  <2>1. p \in Nat
    BY <1>1, <1>2, ChipFacts
  <2> QED BY <1>3, <1>4, <2>1, IdleState DEF TState
<1>6. th' = [th EXCEPT ![t] = x]
  BY <1>1, <1>4
<1>7. th' \in [Thread -> TState] /\ th'[t] = x /\ \A u \in Thread : u # t => th'[u] = th[u]
  BY <1>2, <1>5, <1>6
<1>8. Call(t)'
  <2>1. Line' = Line
    BY <1>1 DEF Line
  <2>2. \A i \in DOMAIN b : b[i].reg \in LineRegs => chip'.calls = "gpio"
    BY <1>1 DEF GoodBits
  <2> QED BY <1>1, <1>3, <1>5, <1>7, <2>1, <2>2 DEF Call
<1>9. Locked(t)'
  BY <1>1, <1>2, <1>5, <1>7 DEF Locked
<1>10. Rest(p) = <<>> /\ Rest(p)' = b
  BY <1>1, <1>5, <1>7 DEF Rest
<1>11. \A q \in Pin : q # p => Rest(q)' = Rest(q)
  BY <1>1, <1>5, <1>7, OtherPins
<1>12. \A n : \A q \in Pin : q # p => (Will(n, q)' <=> Will(n, q))
  BY <1>1, <1>11 DEF Will
<1>13. \A n : Will(n, p) <=> p \in reg[n]
  BY <1>10, RestNone
<1>14. \A n : Will(n, p)' <=> TurnsOn(b, n) \/ (p \in reg[n] /\ ~ Turns(b, n))
  BY <1>1, <1>10 DEF Will
<1> QED BY <1>1, <1>7, <1>8, <1>9, <1>12, <1>13, <1>14

\* ... and only the requested state of its line may change with it.
ConfRegs == {"RES_EN", "PAD_RES", "DRV0", "DRV1", "DRV2"}

LEMMA BeginStep ==
    ASSUME IprocInv, NEW t \in Thread, NEW p \in Pin, NEW b, GoodBits(b), Begin(t, p, b),
           want' \in [Pin -> {"in", "low", "high"}], \A q \in Pin : q # p => want'[q] = want[q],
           LineWill(p)', \A n \in ConfRegs : ~ Turns(b, n)
    PROVE  IprocInv'
<1>1. UNCHANGED <<chip, probe, reg, stat, lock, hnd, set, due>>
  BY DEF Begin
<1>2. \A q \in Pin : LineWill(q)'
  <2>1. ASSUME NEW q \in Pin, q # p PROVE LineWill(q)'
    BY <2>1, BeginFacts DEF LineWill, IprocInv
  <2> QED BY <2>1
<1>3. chip \in Chips /\ Line \subseteq Pin
  BY ChipFacts DEF IprocInv, Types
<1>4. ASSUME NEW q \in Line PROVE SetWill(q)'
  <2>1. SetWill(q) /\ q \in Pin
    BY <1>3 DEF IprocInv
  <2>2. ASSUME NEW n \in ConfRegs PROVE Will(n, q)' <=> Will(n, q)
    <3>1. CASE q # p
      BY <2>1, <3>1, BeginFacts
    <3>2. CASE q = p
      <4>1. ~ Turns(b, n) /\ ~ TurnsOn(b, n)
        BY <2>2, TurnsFirst
      <4>2. (Will(n, p) <=> p \in reg[n]) /\ (Will(n, p)' <=> TurnsOn(b, n) \/ (p \in reg[n] /\ ~ Turns(b, n)))
        BY BeginFacts
      <4>3. Will(n, p)' <=> Will(n, p)
        BY <4>1, <4>2
      <4> QED BY <3>2, <4>3
    <3> QED BY <3>1, <3>2
  <2>3. \A n \in ConfRegs : \A w : Weight(n, q, w)' = Weight(n, q, w)
    BY <2>2 DEF Weight
  <2> QED BY <1>1, <2>1, <2>2, <2>3 DEF SetWill, ConfRegs
<1>5. /\ reg' \in [Names -> SUBSET Line] /\ lock' \in Thread \cup {"none"}
      /\ set' \in [Line -> [bias : Biases, strength : Nat]] /\ reg' = reg
      /\ \A u \in Thread : u # t => (lock' = u <=> lock = u)
  BY <1>1 DEF IprocInv, Types
<1>6. /\ th' \in [Thread -> TState] /\ \A u \in Thread : u # t => th'[u] = th[u]
      /\ Call(t)' /\ Locked(t)'
  BY BeginFacts
<1> QED BY <1>1, <1>2, <1>4, <1>5, <1>6, CallStep

LEMMA GpioCallStep == ASSUME IprocInv, NEW t \in Thread, NEW p \in Pin, GpioCall(t, p) PROVE IprocInv'
<1>1. chip.calls = "gpio" /\ want \in [Pin -> {"in", "low", "high"}] /\ LineWill(p)
  BY DEF GpioCall, IprocInv, Types
<1>2. LineRegs \subseteq Names /\ ConfRegs \cap LineRegs = {}
  BY DEF LineRegs, Names, ConfRegs
<1>3. ASSUME Begin(t, p, direction_input(p)), want' = [want EXCEPT ![p] = "in"] PROVE IprocInv'
  <2>1. PICK x \in BitRec : x = Bit("OUT_EN", FALSE) /\ x.reg = "OUT_EN" /\ ~ x.on
    BY <1>2, BitFields DEF LineRegs
  <2>2. PICK b : b = <<x>>
    OBVIOUS
  <2>3. Begin(t, p, b)
    BY <1>3, <2>1, <2>2 DEF direction_input
  <2>4. /\ b \in Seq(BitRec) /\ b # <<>> /\ Once(b)
        /\ \A m : Turns(b, m) <=> m = "OUT_EN"
        /\ \A m : ~ TurnsOn(b, m)
    BY <2>1, <2>2, OneBit
  <2>5. GoodBits(b)
    BY <1>1, <2>4 DEF GoodBits
  <2>6. ~ Will("OUT_EN", p)'
    BY <2>3, <2>4, <2>5, BeginFacts
  <2>7. want'[p] = "in" /\ want' \in [Pin -> {"in", "low", "high"}] /\ \A q \in Pin : q # p => want'[q] = want[q]
    BY <1>1, <1>3
  <2>8. LineWill(p)'
    BY <2>6, <2>7 DEF LineWill
  <2>9. \A n \in ConfRegs : ~ Turns(b, n)
    BY <2>4 DEF ConfRegs
  <2> QED BY <2>3, <2>5, <2>7, <2>8, <2>9, BeginStep
<1>4. ASSUME NEW v \in BOOLEAN, Begin(t, p, direction_output(p, v)), want' = [want EXCEPT ![p] = Level(v)] PROVE IprocInv'
  <2>1. PICK x \in BitRec : x = Bit("OUT_EN", TRUE) /\ x.reg = "OUT_EN" /\ x.on
    BY <1>2, BitFields DEF LineRegs
  <2>2. PICK y \in BitRec : y = Bit("DATA_OUT", v) /\ y.reg = "DATA_OUT" /\ (y.on <=> v)
    BY <1>2, BitFields DEF LineRegs
  <2>3. PICK b : b = <<x, y>>
    OBVIOUS
  <2>4. Begin(t, p, b)
    BY <1>4, <2>1, <2>2, <2>3 DEF direction_output
  <2>5. /\ b \in Seq(BitRec) /\ b # <<>> /\ Once(b)
        /\ \A m : Turns(b, m) <=> m = "OUT_EN" \/ m = "DATA_OUT"
        /\ \A m : TurnsOn(b, m) <=> m = "OUT_EN" \/ (m = "DATA_OUT" /\ v)
    <3>1. x.reg # y.reg
      BY <2>1, <2>2
    <3>2. /\ b \in Seq(BitRec) /\ b # <<>> /\ Once(b)
          /\ \A m : Turns(b, m) <=> m = x.reg \/ m = y.reg
          /\ \A m : TurnsOn(b, m) <=> (m = x.reg /\ x.on) \/ (m = y.reg /\ y.on)
      BY <2>3, <3>1, TwoBits
    <3> QED BY <2>1, <2>2, <3>2
  <2>6. GoodBits(b)
    BY <1>1, <2>5 DEF GoodBits
  <2>7. Will("OUT_EN", p)' /\ (Will("DATA_OUT", p)' <=> v)
    BY <2>4, <2>5, <2>6, BeginFacts
  <2>8. Level(v) \in {"low", "high"} /\ (Level(v) = "high" <=> v)
    BY DEF Level
  <2>9. want'[p] = Level(v) /\ want' \in [Pin -> {"in", "low", "high"}] /\ \A q \in Pin : q # p => want'[q] = want[q]
    BY <1>1, <1>4, <2>8
  <2>10. LineWill(p)'
    BY <2>7, <2>8, <2>9 DEF LineWill
  <2>11. \A n \in ConfRegs : ~ Turns(b, n)
    BY <2>5 DEF ConfRegs
  <2> QED BY <2>4, <2>6, <2>9, <2>10, <2>11, BeginStep
<1>5. ASSUME NEW v \in BOOLEAN, Begin(t, p, set_level(p, v)),
             want' = [want EXCEPT ![p] = IF @ = "in" THEN @ ELSE Level(v)]
      PROVE  IprocInv'
  <2>1. PICK y \in BitRec : y = Bit("DATA_OUT", v) /\ y.reg = "DATA_OUT" /\ (y.on <=> v)
    BY <1>2, BitFields DEF LineRegs
  <2>2. PICK b : b = <<y>>
    OBVIOUS
  <2>3. Begin(t, p, b)
    BY <1>5, <2>1, <2>2 DEF set_level
  <2>4. /\ b \in Seq(BitRec) /\ b # <<>> /\ Once(b)
        /\ \A m : Turns(b, m) <=> m = "DATA_OUT"
        /\ \A m : TurnsOn(b, m) <=> m = "DATA_OUT" /\ v
    BY <2>1, <2>2, OneBit
  <2>5. GoodBits(b)
    BY <1>1, <2>4 DEF GoodBits
  <2>6. (Will("OUT_EN", p)' <=> Will("OUT_EN", p)) /\ (Will("DATA_OUT", p)' <=> v)
    BY <2>3, <2>4, <2>5, BeginFacts
  <2>7. Level(v) \in {"low", "high"} /\ (Level(v) = "high" <=> v)
    BY DEF Level
  <2>8. /\ want'[p] = (IF want[p] = "in" THEN "in" ELSE Level(v))
        /\ want' \in [Pin -> {"in", "low", "high"}] /\ \A q \in Pin : q # p => want'[q] = want[q]
    BY <1>1, <1>5, <2>7
  <2>9. LineWill(p)'
    BY <1>1, <2>6, <2>7, <2>8 DEF LineWill
  <2>10. \A n \in ConfRegs : ~ Turns(b, n)
    BY <2>4 DEF ConfRegs
  <2> QED BY <2>3, <2>5, <2>8, <2>9, <2>10, BeginStep
<1> QED BY <1>3, <1>4, <1>5 DEF GpioCall

\* Masks and types of interrupts are in registers of their own.
LEMMA IrqBits ==
    ASSUME IprocInv, NEW t \in Thread, NEW p \in Pin, NEW b, GoodBits(b), Begin(t, p, b), UNCHANGED want,
           \A n \in ConfRegs \cup LineRegs : ~ Turns(b, n)
    PROVE  IprocInv'
<1>1. want' \in [Pin -> {"in", "low", "high"}] /\ \A q \in Pin : q # p => want'[q] = want[q]
  BY DEF IprocInv, Types
<1>2. ASSUME NEW n \in LineRegs PROVE Will(n, p)' <=> Will(n, p)
  <2>1. ~ Turns(b, n) /\ ~ TurnsOn(b, n)
    BY <1>2, TurnsFirst
  <2> QED BY <2>1, BeginFacts
<1>3. LineWill(p)'
  BY <1>2 DEF LineWill, LineRegs, IprocInv
<1> QED BY <1>1, <1>3, BeginStep

LEMMA IrqCallStep == ASSUME IprocInv, NEW t \in Thread, NEW p \in Pin, IrqCall(t, p) PROVE IprocInv'
<1>1. UNCHANGED want
  BY DEF IrqCall
<1>2. {"INT_MSK", "INT_TYPE", "INT_DE", "INT_EDGE"} \subseteq Names
  BY DEF Names
<1>3. ASSUME NEW v \in BOOLEAN, Begin(t, p, set_mask(p, v)) PROVE IprocInv'
  <2>1. PICK x \in BitRec : x = Bit("INT_MSK", v) /\ x.reg = "INT_MSK"
    BY <1>2, BitFields
  <2>2. PICK b : b = <<x>>
    OBVIOUS
  <2>3. Begin(t, p, b)
    BY <1>3, <2>1, <2>2 DEF set_mask
  <2>4. /\ b \in Seq(BitRec) /\ b # <<>> /\ Once(b)
        /\ \A m : Turns(b, m) <=> m = "INT_MSK"
        /\ \A i \in DOMAIN b : b[i].reg = "INT_MSK"
    BY <2>1, <2>2, OneBit
  <2>5. GoodBits(b)
    BY <2>4 DEF GoodBits, LineRegs
  <2>6. \A n \in ConfRegs \cup LineRegs : ~ Turns(b, n)
    BY <2>4 DEF ConfRegs, LineRegs
  <2> QED BY <1>1, <2>3, <2>5, <2>6, IrqBits
<1>4. ASSUME NEW ty \in IrqTypes, Begin(t, p, set_type(p, ty)) PROVE IprocInv'
  <2>1. PICK u, v, w \in BOOLEAN : /\ u <=> ty \in {"high", "low"}
                                   /\ v <=> ty = "both"
                                   /\ w <=> ty \in {"rising", "high"}
    BY Zenon
  <2>2. PICK x \in BitRec : x = Bit("INT_TYPE", u) /\ x.reg = "INT_TYPE"
    BY <1>2, BitFields
  <2>3. PICK y \in BitRec : y = Bit("INT_DE", v) /\ y.reg = "INT_DE"
    BY <1>2, BitFields
  <2>4. PICK z \in BitRec : z = Bit("INT_EDGE", w) /\ z.reg = "INT_EDGE"
    BY <1>2, BitFields
  <2>5. PICK b : b = <<x, y, z>>
    OBVIOUS
  <2>6. b \in Seq(BitRec) /\ b # <<>> /\ DOMAIN b = {1, 2, 3} /\ b[1] = x /\ b[2] = y /\ b[3] = z
    BY <2>5
  <2>7. Begin(t, p, b)
    <3>1. /\ u = (ty \in {"high", "low"}) /\ v = (ty = "both") /\ w = (ty \in {"rising", "high"})
      BY <2>1
    <3> QED BY <1>4, <2>2, <2>3, <2>4, <2>5, <3>1 DEF set_type
  <2>8. /\ Once(b)
        /\ \A m : Turns(b, m) <=> m = "INT_TYPE" \/ m = "INT_DE" \/ m = "INT_EDGE"
        /\ \A i \in DOMAIN b : b[i].reg \in {"INT_TYPE", "INT_DE", "INT_EDGE"}
    BY <2>2, <2>3, <2>4, <2>6, ThreeBits
  <2>9. GoodBits(b)
    BY <2>6, <2>8 DEF GoodBits, LineRegs
  <2>10. \A n \in ConfRegs \cup LineRegs : ~ Turns(b, n)
    BY <2>8 DEF ConfRegs, LineRegs
  <2> QED BY <1>1, <2>7, <2>9, <2>10, IrqBits
<1> QED BY <1>3, <1>4 DEF IrqCall

------------------------------------------------------------------------------
(* Pin configuration.                                                        *)

LEMMA ConfigSetStep ==
    ASSUME IprocInv, NEW t \in Thread, NEW p \in Pin, NEW cs \in ConfCalls, ConfigSet(t, p, cs) PROVE IprocInv'
<1>1. /\ UNCHANGED <<chip, probe, reg, stat, lock, hnd, want, set, due>> /\ th[t].pc = "idle" /\ Owner[p] = t
      /\ chip.calls = "conf" /\ p \in Line /\ th' = [th EXCEPT ![t] = [Idle EXCEPT !.pc = "conf", !.pin = p, !.conf = cs]]
  BY DEF ConfigSet
<1>2. th \in [Thread -> TState] /\ Locked(t) /\ Call(t) /\ chip \in Chips
  BY DEF IprocInv, Types
<1>3. PICK x : x = [Idle EXCEPT !.pc = "conf", !.pin = p, !.conf = cs]
  OBVIOUS
<1>4. x \in TState /\ x.pc = "conf" /\ x.pin = p /\ x.bits = <<>>
  <2>1. p \in Nat /\ cs \in Seq(STRING \X Nat)
    BY <1>1, <1>2, ChipFacts, IprocAssumption
  <2> QED BY <1>3, <2>1, IdleState DEF TState
<1>5. th' = [th EXCEPT ![t] = x]
  BY <1>1, <1>3
<1>6. th' \in [Thread -> TState] /\ th'[t] = x /\ \A u \in Thread : u # t => th'[u] = th[u]
  BY <1>2, <1>4, <1>5
<1>7. Call(t)'
  <2>1. Line' = Line
    BY <1>1 DEF Line
  <2>2. PICK e : e = <<>> /\ Once(e) /\ DOMAIN e = {}
    BY NoneTwice
  <2>3. th'[t].pc = "conf" /\ th'[t].pin = p /\ th'[t].bits = e
    BY <1>4, <1>6, <2>2
  <2>4. \A i \in DOMAIN th'[t].bits : th'[t].bits[i].reg \in LineRegs => chip'.calls = "gpio"
    BY <2>2, <2>3
  <2>5. Once(th'[t].bits)
    BY <2>2, <2>3
  <2> QED BY <1>1, <2>1, <2>2, <2>3, <2>4, <2>5 DEF Call
<1>8. Locked(t)'
  BY <1>1, <1>2, <1>4, <1>6 DEF Locked
<1>9. ASSUME NEW q \in Pin PROVE Rest(q)' = Rest(q)
  <2>1. CASE q = p
    BY <1>1, <1>4, <1>6, <2>1 DEF Rest
  <2>2. CASE q # p
    BY <1>1, <1>4, <1>6, <2>2, OtherPins
  <2> QED BY <2>1, <2>2
<1>10. \A n \in Names, q \in Pin : Will(n, q)' <=> Will(n, q)
  BY <1>1, <1>9 DEF Will
<1>11. /\ reg' \in [Names -> SUBSET Line] /\ lock' \in Thread \cup {"none"} /\ reg' = reg
       /\ \A u \in Thread : u # t => (lock' = u <=> lock = u)
  BY <1>1 DEF IprocInv, Types
<1> QED BY <1>1, <1>6, <1>7, <1>8, <1>10, <1>11, SameWill

LEMMA PullBits ==
    ASSUME NEW p, NEW disable \in BOOLEAN, NEW up \in BOOLEAN, NEW b, b = set_pull(p, disable, up)
    PROVE  /\ b \in Seq(BitRec) /\ b # <<>> /\ Once(b)
           /\ \A i \in DOMAIN b : b[i].reg \notin LineRegs
           /\ \A n \in {"DRV0", "DRV1", "DRV2"} : ~ Turns(b, n)
           /\ Turns(b, "RES_EN") /\ (TurnsOn(b, "RES_EN") <=> ~ disable)
           /\ ~ disable => Turns(b, "PAD_RES") /\ (TurnsOn(b, "PAD_RES") <=> up)
<1>1. "RES_EN" \in Names /\ "PAD_RES" \in Names
  BY DEF Names
<1>2. CASE disable
  <2>1. PICK x \in BitRec : x = Bit("RES_EN", FALSE) /\ x.reg = "RES_EN" /\ ~ x.on
    BY <1>1, BitFields
  <2>2. b = <<x>>
    BY <1>2, <2>1 DEF set_pull
  <2>3. /\ b \in Seq(BitRec) /\ b # <<>> /\ Once(b)
        /\ \A m : Turns(b, m) <=> m = x.reg
        /\ \A m : TurnsOn(b, m) <=> m = x.reg /\ x.on
        /\ \A i \in DOMAIN b : b[i].reg = x.reg
    BY <2>2, OneBit
  <2> QED BY <1>2, <2>1, <2>3 DEF LineRegs
<1>3. CASE ~ disable
  <2>1. PICK x \in BitRec : x = Bit("PAD_RES", up) /\ x.reg = "PAD_RES" /\ (x.on <=> up)
    BY <1>1, BitFields
  <2>2. PICK y \in BitRec : y = Bit("RES_EN", TRUE) /\ y.reg = "RES_EN" /\ y.on
    BY <1>1, BitFields
  <2>3. b = <<x, y>>
    BY <1>3, <2>1, <2>2 DEF set_pull
  <2>4. x.reg # y.reg
    BY <2>1, <2>2
  <2>5. /\ b \in Seq(BitRec) /\ b # <<>> /\ Once(b)
        /\ \A m : Turns(b, m) <=> m = x.reg \/ m = y.reg
        /\ \A m : TurnsOn(b, m) <=> (m = x.reg /\ x.on) \/ (m = y.reg /\ y.on)
        /\ \A i \in DOMAIN b : b[i].reg = x.reg \/ b[i].reg = y.reg
    BY <2>3, <2>4, TwoBits
  <2> QED BY <1>3, <2>1, <2>2, <2>5 DEF LineRegs
<1> QED BY <1>2, <1>3

\* The three bits of a drive strength say the strength.
LEMMA StrengthBits ==
    ASSUME NEW p, NEW s \in Nat, s \in 2 .. 16, s % 2 = 0, NEW b, b = set_strength(p, s)
    PROVE  /\ b \in Seq(BitRec) /\ b # <<>> /\ Once(b)
           /\ \A i \in DOMAIN b : b[i].reg \notin LineRegs
           /\ ~ Turns(b, "RES_EN") /\ ~ Turns(b, "PAD_RES")
           /\ \A n \in {"DRV0", "DRV1", "DRV2"} : Turns(b, n)
           /\ s = ((IF TurnsOn(b, "DRV0") THEN 1 ELSE 0) + (IF TurnsOn(b, "DRV1") THEN 2 ELSE 0)
                     + (IF TurnsOn(b, "DRV2") THEN 4 ELSE 0) + 1) * 2
<1>1. {"DRV0", "DRV1", "DRV2"} \subseteq Names
  BY DrvRange DEF Names
<1>2. PICK k \in Nat : k = s \div 2 - 1 /\ k \in 0 .. 7 /\ s = (k + 1) * 2
  <2>1. \A x \in 2 .. 16 : x % 2 = 0 => x \div 2 - 1 \in 0 .. 7 /\ x = ((x \div 2 - 1) + 1) * 2
    OBVIOUS
  <2> QED BY <2>1
<1>3. PICK u, v, w \in BOOLEAN : /\ u <=> (k \div 1) % 2 = 1
                                 /\ v <=> (k \div 2) % 2 = 1
                                 /\ w <=> (k \div 4) % 2 = 1
  BY Zenon
<1>4. k = (IF u THEN 1 ELSE 0) + (IF v THEN 2 ELSE 0) + (IF w THEN 4 ELSE 0)
  BY <1>2, <1>3
<1>5. PICK x \in BitRec : x = Bit("DRV0", u) /\ x.reg = "DRV0" /\ (x.on <=> u)
  BY <1>1, BitFields
<1>6. PICK y \in BitRec : y = Bit("DRV1", v) /\ y.reg = "DRV1" /\ (y.on <=> v)
  BY <1>1, BitFields
<1>7. PICK z \in BitRec : z = Bit("DRV2", w) /\ z.reg = "DRV2" /\ (z.on <=> w)
  BY <1>1, BitFields
<1>8. DOMAIN b = {1, 2, 3} /\ b[1] = x /\ b[2] = y /\ b[3] = z /\ b \in Seq(BitRec) /\ b # <<>>
  <2>1. Drv[1] = "DRV0" /\ Drv[2] = "DRV1" /\ Drv[3] = "DRV2" /\ BIT[1] = 1 /\ BIT[2] = 2 /\ BIT[3] = 4
    BY DEF Drv, BIT
  <2>2. b = [i \in 1 .. 3 |-> Bit(Drv[i], ((s \div 2 - 1) \div BIT[i]) % 2 = 1)]
    BY DEF set_strength
  <2>3. DOMAIN b = 1 .. 3 /\ 1 .. 3 = {1, 2, 3}
    BY <2>2
  <2>4. u = ((k \div 1) % 2 = 1) /\ v = ((k \div 2) % 2 = 1) /\ w = ((k \div 4) % 2 = 1)
    BY <1>3
  <2>5. b[1] = Bit("DRV0", (k \div 1) % 2 = 1)
    BY <1>2, <2>1, <2>2
  <2>6. b[2] = Bit("DRV1", (k \div 2) % 2 = 1)
    BY <1>2, <2>1, <2>2
  <2>7. b[3] = Bit("DRV2", (k \div 4) % 2 = 1)
    BY <1>2, <2>1, <2>2
  <2>8. b[1] = x /\ b[2] = y /\ b[3] = z
    BY <1>5, <1>6, <1>7, <2>4, <2>5, <2>6, <2>7
  <2>9. b \in [1 .. 3 -> BitRec]
    BY <2>2, <2>3, <2>8
  <2>10. b \in Seq(BitRec)
    <3>1. 3 \in Nat
      OBVIOUS
    <3> QED BY <2>9, <3>1, SeqDef, Zenon
  <2>11. b # <<>>
    <3>1. 1 \in DOMAIN b
      BY <2>3
    <3>2. PICK e : e = <<>> /\ DOMAIN e = {}
      OBVIOUS
    <3> QED BY <3>1, <3>2
  <2> QED BY <2>3, <2>8, <2>10, <2>11
<1>9. /\ Once(b)
      /\ \A m : Turns(b, m) <=> m = "DRV0" \/ m = "DRV1" \/ m = "DRV2"
      /\ \A m : TurnsOn(b, m) <=> (m = "DRV0" /\ u) \/ (m = "DRV1" /\ v) \/ (m = "DRV2" /\ w)
      /\ \A i \in DOMAIN b : b[i].reg \in {"DRV0", "DRV1", "DRV2"}
  BY <1>5, <1>6, <1>7, <1>8, ThreeBits
<1>10. (TurnsOn(b, "DRV0") <=> u) /\ (TurnsOn(b, "DRV1") <=> v) /\ (TurnsOn(b, "DRV2") <=> w)
  BY <1>9
<1>11. s = ((IF TurnsOn(b, "DRV0") THEN 1 ELSE 0) + (IF TurnsOn(b, "DRV1") THEN 2 ELSE 0)
              + (IF TurnsOn(b, "DRV2") THEN 4 ELSE 0) + 1) * 2
  BY <1>2, <1>4, <1>10
<1> QED BY <1>8, <1>9, <1>11 DEF LineRegs

\* What the bits of a supported parameter say, and that an unsupported one has none.
BiasBits(p, c, b) ==
    \/ c[1] = "bias_disable" /\ b = set_pull(p, TRUE, FALSE)
    \/ c[1] = "bias_pull_up" /\ b = set_pull(p, FALSE, TRUE)
    \/ c[1] = "bias_pull_down" /\ b = set_pull(p, FALSE, FALSE)

LEMMA ConfigBits ==
    ASSUME NEW p, NEW c, c[2] \in Nat, NEW b, b = config_bits(p, c)
    PROVE  \/ ~ Supported(c) /\ b = <<>>
           \/ Supported(c) /\ BiasBits(p, c, b)
           \/ /\ Supported(c) /\ c[1] = "drive_strength" /\ b = set_strength(p, c[2])
              /\ c[2] \in 2 .. 16 /\ c[2] % 2 = 0
<1>1. PICK e : e = <<>>
  OBVIOUS
<1>2. PICK x, y, z, s : x = set_pull(p, TRUE, FALSE) /\ y = set_pull(p, FALSE, TRUE)
                          /\ z = set_pull(p, FALSE, FALSE) /\ s = set_strength(p, c[2])
  BY Zenon
<1>3. b = IF param_is_disabled(c[1]) THEN e ELSE IF c[1] = "bias_disable" THEN x
          ELSE IF c[1] = "bias_pull_up" THEN y ELSE IF c[1] = "bias_pull_down" THEN z
          ELSE IF c[1] = "drive_strength" THEN s ELSE e
  BY <1>1, <1>2, Zenon DEF config_bits
<1>4. \A k \in Nat : k \in {2, 4, 6, 8, 10, 12, 14, 16} <=> (k \in 2 .. 16 /\ k % 2 = 0)
  OBVIOUS
<1>5. ~ (c[2] \in 2 .. 16 /\ c[2] % 2 = 0) => s = e
  BY <1>1, <1>2, Zenon DEF set_strength
<1>6. CASE c[1] = "bias_disable"
  BY <1>2, <1>3, <1>6 DEF BiasBits, Supported, param_is_disabled
<1>7. CASE c[1] = "bias_pull_up"
  BY <1>2, <1>3, <1>7 DEF BiasBits, Supported, param_is_disabled
<1>8. CASE c[1] = "bias_pull_down"
  BY <1>2, <1>3, <1>8 DEF BiasBits, Supported, param_is_disabled
<1>9. CASE c[1] = "drive_strength"
  <2>1. param_is_disabled(c[1]) <=> chip.nsp /\ probe = "ready"
    BY <1>9 DEF param_is_disabled
  <2>2. Supported(c) <=> ~ param_is_disabled(c[1]) /\ c[2] \in 2 .. 16 /\ c[2] % 2 = 0
    BY <1>4, <1>9, <2>1 DEF Supported
  <2>3. b = IF param_is_disabled(c[1]) THEN e ELSE s
    BY <1>3, <1>9
  <2> QED BY <1>1, <1>2, <1>5, <1>9, <2>2, <2>3
<1>10. CASE c[1] \notin {"bias_disable", "bias_pull_up", "bias_pull_down", "drive_strength"}
  <2>1. b = e
    BY <1>3, <1>10
  <2> QED BY <1>1, <1>10, <2>1 DEF Supported
<1> QED BY <1>6, <1>7, <1>8, <1>9, <1>10

\* Once the bits of a supported parameter are written, the settings are the wanted ones.
WillSet(b, n, p) == TurnsOn(b, n) \/ (p \in reg[n] /\ ~ Turns(b, n))
WillWeight(b, n, p, w) == IF WillSet(b, n, p) THEN w ELSE 0
SetsTo(b, p, s) ==
    /\ s.bias = "bias_disable" <=> ~ WillSet(b, "RES_EN", p)
    /\ s.bias = "bias_pull_up" <=> WillSet(b, "RES_EN", p) /\ WillSet(b, "PAD_RES", p)
    /\ s.strength = (WillWeight(b, "DRV0", p, 1) + WillWeight(b, "DRV1", p, 2) + WillWeight(b, "DRV2", p, 4) + 1) * 2

LEMMA ParamBits ==
    ASSUME NEW p, NEW c, c[2] \in Nat, NEW b, b = config_bits(p, c), b # <<>>,
           NEW s \in [bias : Biases, strength : Nat], SetsTo(<<>>, p, s)
    PROVE  /\ Supported(c) /\ b \in Seq(BitRec) /\ Once(b)
           /\ \A i \in DOMAIN b : b[i].reg \notin LineRegs
           /\ Wanted(s, c) \in [bias : Biases, strength : Nat] /\ SetsTo(b, p, Wanted(s, c))
<1>1. \A n : WillSet(<<>>, n, p) <=> p \in reg[n]
  BY NoTurns DEF WillSet
<1>2. CASE Supported(c) /\ BiasBits(p, c, b)
  <2>1. PICK k : k = c[1] /\ k \in Biases
    BY <1>2 DEF BiasBits, Biases
  <2>2. PICK w : w = [s EXCEPT !.bias = k]
    OBVIOUS
  <2>3. w \in [bias : Biases, strength : Nat] /\ w.bias = k /\ w.strength = s.strength
    BY <2>1, <2>2
  <2>4. Wanted(s, c) = w
    BY <2>1, <2>2 DEF Wanted, Biases
  <2>5. PICK disable \in BOOLEAN, up \in BOOLEAN :
           /\ b = set_pull(p, disable, up) /\ (k = "bias_disable" <=> disable) /\ (k = "bias_pull_up" <=> ~ disable /\ up)
    <3>1. CASE k = "bias_disable"
      <4>1. b = set_pull(p, TRUE, FALSE)
        BY <1>2, <2>1, <3>1 DEF BiasBits
      <4> QED BY <3>1, <4>1, Zenon
    <3>2. CASE k = "bias_pull_up"
      <4>1. b = set_pull(p, FALSE, TRUE)
        BY <1>2, <2>1, <3>2 DEF BiasBits
      <4> QED BY <3>2, <4>1, Zenon
    <3>3. CASE k = "bias_pull_down"
      <4>1. b = set_pull(p, FALSE, FALSE)
        BY <1>2, <2>1, <3>3 DEF BiasBits
      <4> QED BY <3>3, <4>1, Zenon
    <3> QED BY <2>1, <3>1, <3>2, <3>3 DEF Biases
  <2>6. /\ b \in Seq(BitRec) /\ Once(b)
        /\ \A i \in DOMAIN b : b[i].reg \notin LineRegs
        /\ \A n \in {"DRV0", "DRV1", "DRV2"} : ~ Turns(b, n)
        /\ Turns(b, "RES_EN") /\ (TurnsOn(b, "RES_EN") <=> ~ disable)
        /\ ~ disable => Turns(b, "PAD_RES") /\ (TurnsOn(b, "PAD_RES") <=> up)
    BY <2>5, PullBits
  <2>7. \A n \in {"DRV0", "DRV1", "DRV2"} : WillSet(b, n, p) <=> WillSet(<<>>, n, p)
    BY <1>1, <2>6, TurnsFirst DEF WillSet
  <2>8. \A n \in {"DRV0", "DRV1", "DRV2"} : \A v : WillWeight(b, n, p, v) = WillWeight(<<>>, n, p, v)
    BY <2>7 DEF WillWeight
  <2>9. (WillSet(b, "RES_EN", p) <=> ~ disable) /\ (~ disable => (WillSet(b, "PAD_RES", p) <=> up))
    BY <2>6 DEF WillSet
  <2>10. SetsTo(b, p, w)
    BY <2>3, <2>5, <2>8, <2>9 DEF SetsTo
  <2> QED BY <1>2, <2>3, <2>4, <2>6, <2>10
<1>3. CASE /\ Supported(c) /\ c[1] = "drive_strength" /\ b = set_strength(p, c[2])
           /\ c[2] \in 2 .. 16 /\ c[2] % 2 = 0
  <2>1. PICK k \in Nat : k = c[2]
    OBVIOUS
  <2>2. PICK w : w = [s EXCEPT !.strength = k]
    OBVIOUS
  <2>3. w \in [bias : Biases, strength : Nat] /\ w.bias = s.bias /\ w.strength = k
    BY <2>1, <2>2
  <2>4. Wanted(s, c) = w
    BY <1>3, <2>1, <2>2 DEF Wanted
  <2>5. /\ b \in Seq(BitRec) /\ Once(b)
        /\ \A i \in DOMAIN b : b[i].reg \notin LineRegs
        /\ ~ Turns(b, "RES_EN") /\ ~ Turns(b, "PAD_RES")
        /\ \A n \in {"DRV0", "DRV1", "DRV2"} : Turns(b, n)
        /\ k = ((IF TurnsOn(b, "DRV0") THEN 1 ELSE 0) + (IF TurnsOn(b, "DRV1") THEN 2 ELSE 0)
                  + (IF TurnsOn(b, "DRV2") THEN 4 ELSE 0) + 1) * 2
    <3>1. k \in 2 .. 16 /\ k % 2 = 0 /\ b = set_strength(p, k)
      BY <1>3, <2>1
    <3> HIDE <1>3, <2>1
    <3> QED BY <3>1, StrengthBits
  <2>6. \A n \in {"RES_EN", "PAD_RES"} : WillSet(b, n, p) <=> WillSet(<<>>, n, p)
    BY <1>1, <2>5, TurnsFirst DEF WillSet
  <2>7. \A n \in {"DRV0", "DRV1", "DRV2"} : \A v : WillWeight(b, n, p, v) = IF TurnsOn(b, n) THEN v ELSE 0
    BY <2>5 DEF WillWeight, WillSet
  <2>8. SetsTo(b, p, w)
    BY <2>3, <2>5, <2>6, <2>7, SMTT(30) DEF SetsTo
  <2> QED BY <1>3, <2>3, <2>4, <2>5, <2>8
<1> QED BY <1>2, <1>3, ConfigBits

\* A call goes on with the bits of the next parameter, or is over.
LEMMA ConfigParamStep == ASSUME IprocInv, NEW t \in Thread, ConfigParam(t) PROVE IprocInv'
<1>1. th[t].pc = "conf" /\ UNCHANGED <<chip, probe, reg, stat, lock, hnd, want, due>>
  BY DEF ConfigParam
<1>2. /\ th \in [Thread -> TState] /\ th[t] \in TState /\ Call(t) /\ Locked(t) /\ chip \in Chips
      /\ set \in [Line -> [bias : Biases, strength : Nat]]
  BY DEF IprocInv, Types
<1>3. th[t].bits = <<>>
  BY <1>1, <1>2 DEF Call
<1>4. PICK p \in Line : p = th[t].pin /\ p \in Pin /\ Owner[p] = t
  BY <1>1, <1>2, ChipFacts DEF Call
<1>5. Rest(p) = <<>>
  BY <1>1, <1>3, <1>4 DEF Rest
<1>6. PICK cs \in Seq(STRING \X Nat) : cs = th[t].conf
  BY <1>2 DEF TState
<1>7. PICK c : c = Head(cs)
  OBVIOUS
<1>8. PICK b : b = config_bits(p, c)
  OBVIOUS
<1>9. cs # <<>> => c[2] \in Nat /\ Tail(cs) \in Seq(STRING \X Nat)
  <2>1. cs # <<>> => c \in STRING \X Nat /\ Tail(cs) \in Seq(STRING \X Nat)
    BY <1>7, HeadTailProperties
  <2> QED BY <2>1
<1>10. Line' = Line
  BY <1>1 DEF Line
<1>11. /\ reg' \in [Names -> SUBSET Line] /\ lock' \in Thread \cup {"none"} /\ reg' = reg
       /\ \A u \in Thread : u # t => (lock' = u <=> lock = u)
       /\ want' \in [Pin -> {"in", "low", "high"}] /\ lock # t
  BY <1>1, <1>2 DEF IprocInv, Types, Locked
<1>12. /\ IF cs = <<>> \/ b = <<>> THEN th' = [th EXCEPT ![t] = Idle]
          ELSE th' = [th EXCEPT ![t].pc = "read", ![t].bits = b, ![t].conf = Tail(@)]
       /\ set' = IF cs # <<>> /\ Supported(c) THEN [set EXCEPT ![p] = Wanted(@, c)] ELSE set
  BY <1>4, <1>6, <1>7, <1>8 DEF ConfigParam
<1>13. CASE cs = <<>> \/ b = <<>>
  <2>1. cs # <<>> => ~ Supported(c)
    <3> SUFFICES ASSUME cs # <<>> PROVE ~ Supported(c)
      OBVIOUS
    <3>1. c[2] \in Nat /\ b = <<>>
      BY <1>9, <1>13
    <3> SUFFICES ASSUME Supported(c) PROVE FALSE
      OBVIOUS
    <3>2. CASE BiasBits(p, c, b)
      <4>1. PICK disable \in BOOLEAN, up \in BOOLEAN : b = set_pull(p, disable, up)
        BY <3>2, Zenon DEF BiasBits
      <4>2. b # <<>>
        BY <4>1, PullBits
      <4> QED BY <3>1, <4>2
    <3>3. CASE b = set_strength(p, c[2]) /\ c[2] \in 2 .. 16 /\ c[2] % 2 = 0
      <4>1. PICK k \in Nat : k = c[2] /\ k \in 2 .. 16 /\ k % 2 = 0 /\ b = set_strength(p, k)
        BY <3>1, <3>3
      <4>2. b # <<>>
        BY <4>1, StrengthBits
      <4> QED BY <3>1, <4>2
    <3> QED BY <1>8, <3>1, <3>2, <3>3, ConfigBits
  <2>2. set' = set /\ th' = [th EXCEPT ![t] = Idle]
    BY <1>12, <1>13, <2>1
  <2>3. Idle \in TState /\ Idle.pc = "idle" /\ Idle.bits = <<>>
    BY IdleState
  <2>4. th' \in [Thread -> TState] /\ th'[t] = Idle /\ \A u \in Thread : u # t => th'[u] = th[u]
    BY <1>2, <2>2, <2>3
  <2>5. Call(t)'
    <3>1. PICK e : e = <<>> /\ Once(e) /\ DOMAIN e = {}
      BY NoneTwice
    <3>2. th'[t].pc = "idle" /\ th'[t].bits = e
      BY <2>3, <2>4, <3>1
    <3> QED BY <3>1, <3>2 DEF Call
  <2>6. Locked(t)'
    BY <1>1, <1>11, <2>3, <2>4 DEF Locked
  <2>7. ASSUME NEW q \in Pin PROVE Rest(q)' = Rest(q)
    <3>1. CASE q = p
      BY <1>4, <1>5, <2>3, <2>4, <3>1 DEF Rest
    <3>2. CASE q # p
      BY <1>4, <2>3, <2>4, <3>2, OtherPins
    <3> QED BY <3>1, <3>2
  <2>8. \A n \in Names, q \in Pin : Will(n, q)' <=> Will(n, q)
    BY <1>1, <2>7 DEF Will
  <2> QED BY <1>1, <1>11, <2>2, <2>4, <2>5, <2>6, <2>8, SameWill
<1>14. CASE ~ (cs = <<>> \/ b = <<>>)
  <2>1. c[2] \in Nat /\ Tail(cs) \in Seq(STRING \X Nat) /\ b # <<>>
    BY <1>9, <1>14
  <2>2. PICK s \in [bias : Biases, strength : Nat] : s = set[p]
    BY <1>2
  <2>3. \A n : \A q \in Pin : Rest(q) = <<>> => (Will(n, q) <=> WillSet(<<>>, n, q))
    BY DEF Will, WillSet
  <2>4. SetsTo(<<>>, p, s)
    <3>1. SetWill(p)
      BY <1>4 DEF IprocInv
    <3>2. \A n : Will(n, p) <=> WillSet(<<>>, n, p)
      BY <1>4, <1>5, <2>3
    <3>3. \A n, w : Weight(n, p, w) = WillWeight(<<>>, n, p, w)
      BY <3>2 DEF Weight, WillWeight
    <3> QED BY <2>2, <3>1, <3>2, <3>3 DEF SetWill, SetsTo
  <2>5. PICK w : w = Wanted(s, c)
    OBVIOUS
  <2>6. /\ Supported(c) /\ b \in Seq(BitRec) /\ Once(b)
        /\ \A i \in DOMAIN b : b[i].reg \notin LineRegs
        /\ w \in [bias : Biases, strength : Nat] /\ SetsTo(b, p, w)
    BY <1>8, <2>1, <2>4, <2>5, ParamBits
  <2>7. set' = [set EXCEPT ![p] = w]
    BY <1>12, <1>14, <2>2, <2>5, <2>6
  <2>8. PICK r \in Seq(STRING \X Nat) : r = Tail(cs)
    BY <2>1
  <2>9. PICK x : x = [th[t] EXCEPT !.pc = "read", !.bits = b, !.conf = r]
    OBVIOUS
  <2>10. th' = [th EXCEPT ![t] = x]
    BY <1>2, <1>6, <1>12, <1>14, <2>8, <2>9
  <2>11. x \in TState /\ x.pc = "read" /\ x.pin = p /\ x.bits = b
    BY <1>2, <1>4, <2>6, <2>9 DEF TState
  <2>12. th' \in [Thread -> TState] /\ th'[t] = x /\ \A u \in Thread : u # t => th'[u] = th[u]
    BY <1>2, <2>10, <2>11
  <2>13. Call(t)'
    BY <1>4, <1>10, <2>1, <2>6, <2>11, <2>12 DEF Call
  <2>14. Locked(t)'
    BY <1>1, <1>11, <2>11, <2>12 DEF Locked
  <2>15. Rest(p)' = b /\ \A q \in Pin : q # p => Rest(q)' = Rest(q)
    <3>1. ASSUME NEW q \in Pin, q # p PROVE Rest(q)' = Rest(q)
      BY <1>4, <2>11, <2>12, <3>1, OtherPins
    <3> QED BY <1>4, <2>11, <2>12, <3>1 DEF Rest
  <2>16. /\ \A n : Will(n, p)' <=> WillSet(b, n, p)
         /\ \A n : \A q \in Pin : q # p => (Will(n, q)' <=> Will(n, q))
    BY <1>1, <2>15 DEF Will, WillSet
  <2>17. ASSUME NEW q \in Pin PROVE LineWill(q)'
    <3>1. LineWill(q) /\ want'[q] = want[q]
      BY <1>1 DEF IprocInv
    <3>2. ASSUME NEW n \in LineRegs PROVE Will(n, q)' <=> Will(n, q)
      <4>1. CASE q # p
        BY <2>16, <4>1
      <4>2. CASE q = p
        <5>1. ~ Turns(b, n) /\ ~ TurnsOn(b, n)
          BY <2>6, <3>2 DEF Turns, TurnsOn
        <5>2. Will(n, p) <=> p \in reg[n]
          BY <1>5, RestNone
        <5> QED BY <2>16, <4>2, <5>1, <5>2 DEF WillSet
      <4> QED BY <4>1, <4>2
    <3> QED BY <3>1, <3>2 DEF LineWill, LineRegs
  <2>18. ASSUME NEW q \in Line PROVE SetWill(q)'
    <3>1. CASE q # p
      <4>1. SetWill(q) /\ q \in Pin /\ set'[q] = set[q]
        BY <1>2, <2>7, <3>1, ChipFacts DEF IprocInv
      <4>2. \A n : Will(n, q)' <=> Will(n, q)
        BY <2>16, <3>1, <4>1
      <4>3. \A n, v : Weight(n, q, v)' = Weight(n, q, v)
        BY <4>2 DEF Weight
      <4> QED BY <4>1, <4>2, <4>3 DEF SetWill
    <3>2. CASE q = p
      <4>1. set'[p] = w
        BY <1>2, <1>4, <2>7
      <4>2. \A n, v : Weight(n, p, v)' = WillWeight(b, n, p, v)
        BY <2>16 DEF Weight, WillWeight
      <4>3. SetWill(p)'
        BY <2>6, <2>16, <4>1, <4>2 DEF SetWill, SetsTo
      <4> QED BY <3>2, <4>3
    <3> QED BY <3>1, <3>2
  <2>19. set' \in [Line -> [bias : Biases, strength : Nat]]
    BY <1>2, <1>4, <2>6, <2>7
  <2> QED BY <1>1, <1>11, <2>12, <2>13, <2>14, <2>17, <2>18, <2>19, CallStep
<1> QED BY <1>13, <1>14

------------------------------------------------------------------------------
(* The theorems.                                                             *)

LEMMA IprocStep == IprocInv /\ [Next]_vars => IprocInv'
<1> SUFFICES ASSUME IprocInv, [Next]_vars PROVE IprocInv'
  OBVIOUS
<1>1. CASE UNCHANGED vars
  <2>1. UNCHANGED <<chip, probe, reg, stat, lock, th, hnd, want, set, due>>
    BY <1>1 DEF vars
  <2>2. NoEdgeLost'
    BY <2>1 DEF IprocInv, NoEdgeLost
  <2> QED BY <2>1, <2>2, QuietStep DEF IprocInv, Types
<1>2. CASE Next
  BY <1>2, ProbeStep, GpioCallStep, IrqCallStep, ConfigSetStep, ConfigParamStep, ReadRegStep, WriteRegStep,
     ToggleStep, HandlerStep DEF Next
<1> QED BY <1>1, <1>2

LEMMA IprocAlways == Spec => []IprocInv
<1>1. Init => IprocInv
  BY IprocInit
<1>2. IprocInv /\ [Next]_vars => IprocInv'
  BY IprocStep
<1> QED BY <1>1, <1>2, PTL DEF Spec

\* Types, and a thread that writes a register has held chip->lock since it read it.
THEOREM IprocTypeOK == Spec => []TypeOK
<1>1. IprocInv => TypeOK
  <2> SUFFICES ASSUME IprocInv PROVE TypeOK
    OBVIOUS
  <2>1. hnd.bits \subseteq Line /\ hnd.bank \in 0 .. num_banks
    BY DEF IprocInv, Types, HState
  <2> QED BY <2>1 DEF IprocInv, Types, Locked, TypeOK
<1> QED BY <1>1, IprocAlways, PTL

\* The handler clears a pin's status before it invokes the child handler, so that an
\* edge that comes after the child handler started stays latched, however the calls,
\* the edges and the handler's steps follow one another.
THEOREM IprocNoEdgeLost == Spec => []NoEdgeLost
<1>1. IprocInv => NoEdgeLost
  BY DEF IprocInv
<1> QED BY <1>1, IprocAlways, PTL

\* Whatever is written to the other pins' bits of the shared registers, and however the
\* calls of the threads interleave, the bias and the strength of a pin that no call works
\* on read back as the supported parameters asked for.
THEOREM IprocSettingsKept == Spec => []SettingsKept
<1>1. IprocInv => SettingsKept
  <2> SUFFICES ASSUME IprocInv, NEW p \in Line, \A t \in Thread : th[t].pc # "idle" => th[t].pin # p
               PROVE  config_get(p) = set[p]
    BY DEF SettingsKept
  <2>1. /\ chip \in Chips /\ set \in [Line -> [bias : Biases, strength : Nat]] /\ SetWill(p)
    BY DEF IprocInv, Types
  <2>2. p \in Pin /\ Owner[p] \in Thread
    BY <2>1, ChipFacts, IprocAssumption
  <2>3. Rest(p) = <<>>
    BY <2>2 DEF Rest
  <2>4. \A n : Will(n, p) <=> p \in reg[n]
    BY <2>3, RestNone
  <2>5. \A n, w : Weight(n, p, w) = IF p \in reg[n] THEN w ELSE 0
    BY <2>4 DEF Weight
  <2>6. PICK x \in [bias : Biases, strength : Nat] : x = config_get(p)
    BY <2>1, ConfigOf
  <2>7. PICK y \in [bias : Biases, strength : Nat] : y = set[p]
    BY <2>1
  <2>8. x.strength = y.strength
    BY <2>1, <2>5, <2>6, <2>7, ConfigOf DEF SetWill
  <2>9. /\ x.bias = "bias_disable" <=> y.bias = "bias_disable"
        /\ x.bias = "bias_pull_up" <=> y.bias = "bias_pull_up"
    BY <2>1, <2>4, <2>6, <2>7, ConfigOf DEF SetWill
  <2>10. x.bias = y.bias
    BY <2>9 DEF Biases
  <2>11. x = y
    BY <2>8, <2>10
  <2> QED BY <2>6, <2>7, <2>11
<1> QED BY <1>1, IprocAlways, PTL

------------------------------------------------------------------------------
(* The lines, as their users see them.                                       *)

Shown ==
    /\ st \in [Pin -> {"in", "low", "high"}]
    /\ \A p \in Pin : /\ st[p] = "in" <=> ~ p \in reg["OUT_EN"]
                      /\ st[p] = "high" <=> p \in reg["OUT_EN"] /\ p \in reg["DATA_OUT"]

\* A line that no request works on is in the state last requested.
Settled == chip.calls = "gpio" => \A p \in Pin \ busy : st[p] = want[p]

LEMMA StShown == Shown
<1>1. DOMAIN st = Pin /\ st = [p \in Pin |-> st[p]]
  BY DEF st
<1>2. st \in [Pin -> {"in", "low", "high"}]
  BY <1>1, LineOf
<1> QED BY <1>2, LineOf DEF Shown

LEMMA LinesSettled == IprocInv => Settled
<1> SUFFICES ASSUME IprocInv, chip.calls = "gpio", NEW p \in Pin, p \notin busy PROVE st[p] = want[p]
  BY DEF Settled
<1>1. Owner[p] \in Thread
  BY IprocAssumption
<1>2. busy = {th[t].pin : t \in {t \in Thread : th[t].pc # "idle"}}
  BY DEF busy
<1>3. Rest(p) = <<>>
  BY <1>1, <1>2 DEF Rest
<1>4. \A n : Will(n, p) <=> p \in reg[n]
  BY <1>3, RestNone
<1>5. LineWill(p) /\ want[p] \in {"in", "low", "high"}
  BY DEF IprocInv, Types
<1>6. /\ st[p] \in {"in", "low", "high"}
      /\ st[p] = "in" <=> ~ p \in reg["OUT_EN"]
      /\ st[p] = "high" <=> p \in reg["OUT_EN"] /\ p \in reg["DATA_OUT"]
  BY LineOf
<1> QED BY <1>4, <1>5, <1>6 DEF LineWill

LEMMA SameSt == ASSUME UNCHANGED <<chip, reg>> PROVE st' = st
BY DEF st, iproc_get_bit, Cell

LEMMA SameBusy ==
    ASSUME chip' = chip,
           chip.calls = "gpio" => \A u \in Thread : th'[u].pin = th[u].pin /\ (th'[u].pc = "idle" <=> th[u].pc = "idle")
    PROVE  busy' = busy
<1>1. CASE chip.calls = "gpio"
  <2>1. busy = {th[t].pin : t \in {t \in Thread : th[t].pc # "idle"}}
    BY <1>1 DEF busy
  <2>2. busy' = {th'[t].pin : t \in {t \in Thread : th'[t].pc # "idle"}}
    BY <1>1 DEF busy
  <2>3. {t \in Thread : th'[t].pc # "idle"} = {t \in Thread : th[t].pc # "idle"}
    BY <1>1
  <2> QED BY <1>1, <2>1, <2>2, <2>3
<1>2. CASE chip.calls # "gpio"
  BY <1>2 DEF busy
<1> QED BY <1>1, <1>2

\* A call begins: its line was not busy, and does not move yet.
LEMMA GpioCallRequests ==
    ASSUME IprocInv, IprocInv', NEW t \in Thread, NEW p \in Pin, GpioCall(t, p) PROVE Lines!Request
<1>1. /\ chip.calls = "gpio" /\ chip' = chip /\ reg' = reg /\ th[t].pc = "idle" /\ Owner[p] = t /\ p \in Line
      /\ \A q \in Pin : q # p => want'[q] = want[q]
  BY DEF GpioCall, Begin, IprocInv, Types
<1>2. PICK b : th' = [th EXCEPT ![t] = [Idle EXCEPT !.pc = "read", !.pin = p, !.bits = b]]
  BY DEF GpioCall, Begin
<1>3. th \in [Thread -> TState]
  BY DEF IprocInv, Types
<1>4. th'[t].pc = "read" /\ th'[t].pin = p /\ \A u \in Thread : u # t => th'[u] = th[u]
  BY <1>2, <1>3 DEF Idle
<1>5. /\ busy = {th[u].pin : u \in {u \in Thread : th[u].pc # "idle"}}
      /\ busy' = {th'[u].pin : u \in {u \in Thread : th'[u].pc # "idle"}}
  BY <1>1 DEF busy
<1>6. busy \subseteq busy' /\ p \in busy'
  BY <1>1, <1>4, <1>5
<1>7. busy' \subseteq Pin
  <2>1. Line \subseteq Pin /\ Line' = Line
    BY <1>1, ChipFacts DEF IprocInv, Types, Line
  <2>2. \A u \in Thread : th'[u].pc # "idle" => th'[u].pin \in Line
    BY <2>1 DEF IprocInv, Call
  <2> QED BY <1>5, <2>1, <2>2
<1>8. p \notin busy
  <2> SUFFICES ASSUME NEW u \in Thread, th[u].pc # "idle", th[u].pin = p PROVE FALSE
    BY <1>5
  <2>1. Owner[p] = u
    BY DEF IprocInv, Call
  <2> QED BY <1>1, <2>1
<1>9. st' = st
  BY <1>1, SameSt
<1>10. want' \in [Pin -> {"in", "low", "high"}]
  BY DEF IprocInv, Types
<1> QED BY <1>1, <1>6, <1>7, <1>8, <1>9, <1>10, SMTT(30) DEF Lines!Request, Lines!LineState

\* A write moves the line of its call only, and the call returns when the line is as requested.
LEMMA WriteRegServes ==
    ASSUME IprocInv, Shown, Shown', Settled', NEW t \in Thread, WriteReg(t)
    PROVE  [Lines!Request \/ Lines!ServeWithGlitch]_<<st, want, busy>>
<1>1. UNCHANGED <<chip, want>> /\ th[t].pc = "write" /\ th[t].pin \in Line /\ Call(t)
  BY WriteOne DEF WriteReg, IprocInv
<1>2. PICK p : p = th[t].pin /\ p \in Pin
  BY <1>1, ChipFacts DEF IprocInv, Types
<1>3. {"OUT_EN", "DATA_OUT"} \subseteq Names
  BY DEF Names
<1>4. /\ th \in [Thread -> TState] /\ th[t].bits \in Seq(BitRec) /\ th[t].bits # <<>>
  BY <1>1 DEF IprocInv, Types, TState, Call
<1>5. \A q \in Pin : q # p => \A n \in Names : q \in reg'[n] <=> q \in reg[n]
  BY <1>2, WriteOne
<1>6. \A q \in Pin : q # p => st'[q] = st[q]
  BY <1>3, <1>5 DEF Shown
<1>7. CASE chip.calls # "gpio"
  <2>1. busy' = busy
    BY <1>1, <1>7, SameBusy
  <2>2. Head(th[t].bits).reg \notin LineRegs
    <3>1. 1 \in DOMAIN th[t].bits /\ Head(th[t].bits) = th[t].bits[1]
      BY <1>4, HeadTailProperties, LenProperties, EmptySeq
    <3> QED BY <1>1, <1>7, <3>1 DEF Call
  <2>3. \A n \in LineRegs : p \in reg'[n] <=> p \in reg[n]
    BY <1>2, <1>3, <2>2, WriteOne DEF LineRegs
  <2>4. st'[p] = st[p]
    BY <1>2, <2>3 DEF Shown, LineRegs
  <2>5. st' = st
    BY <1>6, <2>4 DEF Shown
  <2> QED BY <1>1, <2>1, <2>5
<1>8. CASE chip.calls = "gpio"
  <2>1. /\ busy = {th[u].pin : u \in {u \in Thread : th[u].pc # "idle"}}
        /\ busy' = {th'[u].pin : u \in {u \in Thread : th'[u].pc # "idle"}}
    BY <1>1, <1>8 DEF busy
  <2>2. \A u \in Thread : u # t => th'[u] = th[u]
    BY <1>4 DEF WriteReg
  <2>3. th'[t].pc = "idle" \/ th'[t].pin = p
    <3>1. CASE Tail(th[t].bits) # <<>>
      <4>1. PICK r : th' = [th EXCEPT ![t].pc = "read", ![t].bits = r]
        BY <3>1 DEF WriteReg
      <4> QED BY <1>2, <1>4, <4>1 DEF TState
    <3>2. CASE Tail(th[t].bits) = <<>>
      <4>1. th' = [th EXCEPT ![t] = Idle]
        BY <1>8, <3>2 DEF WriteReg
      <4> QED BY <1>4, <4>1, IdleState
    <3> QED BY <3>1, <3>2
  <2>4. busy' \subseteq busy /\ p \in busy
    BY <1>1, <1>2, <2>1, <2>2, <2>3
  <2>5. \A q \in Pin \ busy' : st'[q] = want[q]
    BY <1>1, <1>8 DEF Settled
  <2>6. st' \in [Pin -> {"in", "low", "high"}]
    BY DEF Shown
  <2>7. Lines!ServeWithGlitch
    BY <1>1, <1>6, <2>4, <2>5, <2>6 DEF Lines!ServeWithGlitch, Lines!LineState
  <2> QED BY <2>7
<1> QED BY <1>7, <1>8, SMTT(30)

LEMMA IprocRefines ==
    ASSUME IprocInv, IprocInv', Shown, Shown', Settled', [Next]_vars
    PROVE  [Lines!Request \/ Lines!ServeWithGlitch]_<<st, want, busy>>
<1>1. ASSUME UNCHANGED <<chip, reg, th, want>> PROVE UNCHANGED <<st, want, busy>>
  BY <1>1, SameSt, SameBusy
<1>2. CASE UNCHANGED vars \/ Probe \/ (\E p \in Pin : Toggle(p) \/ Latch(p)) \/ Handler
  BY <1>1, <1>2 DEF vars, Probe, Toggle, Latch, Handler, HandlerEnter, HandlerBank, HandlerClear, HandlerInvoke, HandlerReturn
<1>3. ASSUME NEW t \in Thread, NEW p \in Pin, IrqCall(t, p) \/ \E cs \in ConfCalls : ConfigSet(t, p, cs)
      PROVE  UNCHANGED <<st, want, busy>>
  <2>1. UNCHANGED <<chip, reg, want>> /\ chip.calls # "gpio"
    BY <1>3 DEF IrqCall, ConfigSet, Begin
  <2> QED BY <2>1, SameSt, SameBusy
<1>4. ASSUME NEW t \in Thread, ConfigParam(t) PROVE UNCHANGED <<st, want, busy>>
  <2>1. UNCHANGED <<chip, reg, want>> /\ th[t].pc = "conf"
    BY <1>4 DEF ConfigParam
  <2>2. chip.calls # "gpio"
    BY <2>1 DEF IprocInv, Call
  <2> QED BY <2>1, <2>2, SameSt, SameBusy
<1>5. ASSUME NEW t \in Thread, ReadReg(t) PROVE UNCHANGED <<st, want, busy>>
  <2>1. UNCHANGED <<chip, reg, want>> /\ th[t].pc = "read"
    BY <1>5 DEF ReadReg
  <2>2. PICK tmp : th' = [th EXCEPT ![t].pc = "write", ![t].tmp = tmp]
    BY <1>5 DEF ReadReg
  <2>3. \A u \in Thread : th'[u].pin = th[u].pin /\ (th'[u].pc = "idle" <=> th[u].pc = "idle")
    BY <2>1, <2>2 DEF IprocInv, Types, TState
  <2> QED BY <2>1, <2>3, SameSt, SameBusy
<1> QED BY <1>2, <1>3, <1>4, <1>5, GpioCallRequests, WriteRegServes DEF Next

\* Whatever the controller, its lines and the interleaving of the calls, a line moves
\* only while a call on it is in progress and is as requested when the call returns:
\* chip->lock keeps the calls on the other lines of the bank's registers apart.
THEOREM IprocImplementsGpioLines == Spec => ImplementsGpioLines
<1>1. Init => Lines!Init
  <2> SUFFICES ASSUME Init PROVE Lines!Init
    OBVIOUS
  <2>1. busy = {}
    BY IdleState DEF Init, busy
  <2> QED BY <2>1, StShown DEF Init, Lines!Init, Lines!LineState, Shown
<1>2. IprocInv /\ IprocInv' /\ Shown /\ Shown' /\ Settled' /\ [Next]_vars
        => [Lines!Request \/ Lines!ServeWithGlitch]_<<st, want, busy>>
  BY IprocRefines
<1>3. IprocInv => Shown /\ Settled
  BY StShown, LinesSettled
<1> QED BY <1>1, <1>2, <1>3, IprocAlways, PTL DEF Spec, ImplementsGpioLines, Lines!GlitchSpec
===============================================================================
