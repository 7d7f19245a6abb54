------------------------- MODULE PinctrlBcm2835Proofs -------------------------
(***************************************************************************)
(* The BCM2835 pin controller for any number of threads, any pins in use   *)
(* and any device tree nodes: the settings of pins, the detectors of       *)
(* interrupts and the maps made of nodes are the ones asked for.           *)
(***************************************************************************)
EXTENDS PinctrlBcm2835, SequenceTheorems, WellFoundedInduction, TLAPS

------------------------------------------------------------------------------
(* Functions, levels and pulls (Bcm2835Mux).                                 *)

Tmps == {<< >>} \cup UNION {[FSEL_REG(p) -> fsel_values] : p \in case.pins}
MState ==
    [pc : {"idle", "fsel", "trans", "write", "conf", "clock", "unclock"},
     pin : Pin, fn : fsel_values, gpio : BOOLEAN, tmp : Tmps, conf : Seq(STRING \X Nat)]
Setting == [fn : fsel_values, high : BOOLEAN, pull : 0 .. 3]

MuxTypes ==
    /\ fsel \in [case.pins -> fsel_values] /\ out \subseteq case.pins
    /\ pud \in 0 .. 3 /\ clk \subseteq case.pins /\ pull \in [case.pins -> 0 .. 3]
    /\ core \in Thread \cup {"none"}
    /\ mth \in [Thread -> MState]
    /\ asked \in [case.pins -> Setting]
    /\ raced \subseteq case.pins

Updating(t) == mth[t].pc \in {"trans", "write"}

\* A call works on a pin of its thread; its copy of the register is right about
\* every pin that no overlapping call has written.
MuxCall(t) ==
    LET p == mth[t].pin
    IN  /\ mth[t].pc # "idle" => p \in case.pins /\ Owner[p] = t
        /\ mth[t].pc \in {"fsel", "trans", "write"} => case.calls = "mux" /\ mth[t].fn = asked[p].fn
        /\ mth[t].pc \in {"conf", "clock", "unclock"} => case.calls = "pull"
        /\ Updating(t) =>
              /\ mth[t].tmp \in [FSEL_REG(p) -> fsel_values]
              /\ \A q \in FSEL_REG(p) : q # p => mth[t].tmp[q] = fsel[q] \/ q \in raced
        /\ mth[t].pc = "write" => GPIO_IN \in {fsel[p], mth[t].fn} \/ p \in raced
        /\ mth[t].pc = "clock" => pud = asked[p].pull \/ p \in raced
        /\ core = t <=> Updating(t) /\ mth[t].gpio

\* The call that works on pin p, if its owner has one.
At(p, pcs) == mth[Owner[p]].pc \in pcs /\ mth[Owner[p]].pin = p

MuxPin(p) ==
    /\ fsel[p] = asked[p].fn \/ p \in raced \/ At(p, {"fsel", "trans", "write"})
    /\ pull[p] = asked[p].pull \/ p \in raced \/ At(p, {"clock"})
    /\ p \in out <=> asked[p].high
    /\ case.calls # "mux" => fsel[p] = asked[p].fn
    /\ case.calls # "pull" => pull[p] = asked[p].pull
    /\ p \in clk => At(p, {"unclock"})

MuxInv == MuxTypes /\ (\A t \in Thread : MuxCall(t)) /\ (\A p \in case.pins : MuxPin(p))

LEMMA PinsTyped ==
    ASSUME case \in Cases
    PROVE  /\ case.pins \subseteq Pin
           /\ \A p \in case.pins : Owner[p] \in Thread
           /\ "none" \notin Thread
  BY Bcm2835Assumption

LEMMA SameMux ==
    ASSUME case' = case
    PROVE  MState' = MState /\ \A p : FSEL_REG(p)' = FSEL_REG(p) /\ GPIO_REG(p)' = GPIO_REG(p)
  BY DEF MState, Tmps, FSEL_REG, GPIO_REG

LEMMA MIdleTyped ==
    /\ MIdle \in MState
    /\ MIdle.pc = "idle"
  BY DEF MIdle, MState, Tmps, Pin, BCM2835_NUM_GPIOS, fsel_values

LEMMA MuxInitInv == ASSUME case \in Cases, MuxInit PROVE MuxInv
<1>1. MuxTypes
  BY MIdleTyped DEF MuxInit, MuxTypes, Setting, fsel_values, GPIO_IN
<1>2. ASSUME NEW t \in Thread PROVE MuxCall(t)
  <2>1. mth[t].pc = "idle" /\ core = "none"
    BY MIdleTyped DEF MuxInit
  <2> QED BY <2>1, PinsTyped DEF MuxCall, Updating
<1>3. ASSUME NEW p \in case.pins PROVE MuxPin(p)
  BY DEF MuxInit, MuxPin
<1> QED BY <1>1, <1>2, <1>3 DEF MuxInv

\* A call of which no step was taken, while nothing it relies on changed.
LEMMA OtherMuxCall ==
    ASSUME case \in Cases, case' = case, NEW u \in Thread, MuxCall(u), mth'[u] = mth[u],
           core' = u <=> core = u,
           mth[u].pc # "idle" =>
              LET p == mth[u].pin
              IN  /\ asked'[p].fn = asked[p].fn
                  /\ fsel'[p] = fsel[p] \/ (Updating(u) => p \in raced')
                  /\ mth[u].pc = "clock" => asked'[p].pull = asked[p].pull /\ (pud' = pud \/ p \in raced')
                  /\ Updating(u) /\ p \in raced => p \in raced'
                  /\ mth[u].pc = "clock" /\ p \in raced => p \in raced'
                  /\ Updating(u) => \A q \in FSEL_REG(p) :
                        /\ fsel'[q] = fsel[q] \/ q \in raced'
                        /\ q \in raced => q \in raced'
    PROVE  MuxCall(u)'
<1> DEFINE p == mth[u].pin
<1>1. FSEL_REG(p)' = FSEL_REG(p)
  BY SameMux
<1>2. mth'[u].pin = p /\ (Updating(u)' <=> Updating(u))
  BY DEF Updating
<1>3. Updating(u) => mth[u].pc # "idle"
  BY DEF Updating
<1>4. Updating(u)' =>
              /\ mth'[u].tmp \in [FSEL_REG(p) -> fsel_values]
              /\ \A q \in FSEL_REG(p) : q # p => mth'[u].tmp[q] = fsel'[q] \/ q \in raced'
  BY <1>2, <1>3 DEF MuxCall
<1>5. mth'[u].pc = "write" => GPIO_IN \in {fsel'[p], mth'[u].fn} \/ p \in raced'
  BY <1>2 DEF MuxCall, Updating, GPIO_IN
<1>6. mth'[u].pc = "clock" => pud' = asked'[p].pull \/ p \in raced'
  BY <1>2 DEF MuxCall
<1>7. core' = u <=> Updating(u)' /\ mth'[u].gpio
  BY <1>2 DEF MuxCall
<1>8. /\ mth'[u].pc # "idle" => p \in case.pins /\ Owner[p] = u
      /\ mth'[u].pc \in {"fsel", "trans", "write"} => case'.calls = "mux" /\ mth'[u].fn = asked'[p].fn
      /\ mth'[u].pc \in {"conf", "clock", "unclock"} => case'.calls = "pull"
  BY DEF MuxCall
<1> QED BY <1>1, <1>2, <1>4, <1>5, <1>6, <1>7, <1>8 DEF MuxCall

\* A call begins: its pin gets a new setting, which nothing else looks at yet.
LEMMA MuxBegin ==
    ASSUME case \in Cases, case' = case, MuxInv, NEW t \in Thread, NEW p \in case.pins, Owner[p] = t,
           mth[t].pc = "idle", NEW m \in MState, mth' = [mth EXCEPT ![t] = m],
           m.pin = p, m.pc \in {"fsel", "conf"},
           NEW v \in Setting, asked' = [asked EXCEPT ![p] = v], v.pull = asked[p].pull,
           m.pc = "fsel" => case.calls = "mux" /\ m.fn = v.fn,
           m.pc = "conf" => case.calls = "pull" /\ v.fn = asked[p].fn,
           out' \subseteq case.pins, \A q \in case.pins \ {p} : q \in out' <=> q \in out, p \in out' <=> v.high,
           UNCHANGED <<fsel, pud, clk, pull, core, raced>>
    PROVE  MuxInv'
<1> USE DEF MuxInv
<1>1. /\ mth'[t] = m /\ \A u \in Thread : u # t => mth'[u] = mth[u]
      /\ asked'[p] = v /\ \A q \in case.pins : q # p => asked'[q] = asked[q]
  BY DEF MuxTypes
<1>2. MuxTypes'
  BY SameMux DEF MuxTypes
<1>3. ASSUME NEW u \in Thread PROVE MuxCall(u)'
  <2>1. CASE u = t
    <3>1. core # t
      BY DEF MuxCall, Updating
    <3> QED BY <1>1, <2>1, <3>1 DEF MuxCall, Updating
  <2>2. CASE u # t
    <3>1. mth[u].pc # "idle" => mth[u].pin # p /\ mth[u].pin \in case.pins
      BY <2>2 DEF MuxCall
    <3>2. mth'[u] = mth[u] /\ MuxCall(u)
      BY <1>1, <2>2
    <3> QED BY <1>1, <2>2, <3>1, <3>2, OtherMuxCall
  <2> QED BY <2>1, <2>2
<1>4. ASSUME NEW q \in case.pins PROVE MuxPin(q)'
  <2>1. MuxPin(q)
    OBVIOUS
  <2>2. CASE q = p
    BY <1>1, <2>1, <2>2 DEF MuxPin, At
  <2>3. CASE q # p
    <3>1. ASSUME NEW pcs, At(q, pcs), "idle" \notin pcs PROVE At(q, pcs)'
      BY <1>1, <2>3, <3>1 DEF At, MuxCall
    <3>2. asked'[q] = asked[q] /\ (q \in out' <=> q \in out)
      BY <1>1, <2>3
    <3> QED BY <2>1, <3>1, <3>2 DEF MuxPin
  <2> QED BY <2>2, <2>3
<1> QED BY <1>2, <1>3, <1>4

LEMMA MuxCalls ==
    ASSUME case \in Cases, case' = case, MuxInv, NEW t \in Thread, NEW p \in case.pins,
           \/ pmx_set(t, p) \/ gpio_direction_input(t, p) \/ gpio_direction_output(t, p)
           \/ pinconf_set(t, p)
    PROVE  MuxInv'
<1>0. /\ p \in Pin /\ asked \in [case.pins -> Setting] /\ out \subseteq case.pins
      /\ p \in out <=> asked[p].high
  BY PinsTyped DEF MuxInv, MuxTypes, MuxPin
<1>1. ASSUME NEW f \in fsel_values, NEW gpio \in BOOLEAN, NEW v \in BOOLEAN, FselCall(t, p, f, gpio),
             asked' = [asked EXCEPT ![p].fn = f, ![p].high = v],
             out' = IF v THEN out \cup {p} ELSE out \ {p}
      PROVE  MuxInv'
  <2> DEFINE m == [MIdle EXCEPT !.pc = "fsel", !.pin = p, !.fn = f, !.gpio = gpio]
             s == [asked[p] EXCEPT !.fn = f, !.high = v]
  <2>1. m \in MState /\ m.pc = "fsel" /\ m.pin = p /\ m.fn = f
    BY <1>0, MIdleTyped DEF MState, MIdle
  <2>2. s \in Setting /\ s.fn = f /\ s.high = v /\ s.pull = asked[p].pull /\ asked' = [asked EXCEPT ![p] = s]
    BY <1>0, <1>1 DEF Setting
  <2>3. /\ case.calls = "mux" /\ mth[t].pc = "idle" /\ Owner[p] = t /\ mth' = [mth EXCEPT ![t] = m]
        /\ UNCHANGED <<fsel, pud, clk, pull, core, raced>>
    BY <1>1 DEF FselCall
  <2>4. out' \subseteq case.pins /\ (\A q \in case.pins \ {p} : q \in out' <=> q \in out) /\ (p \in out' <=> v)
    BY <1>0, <1>1
  <2> HIDE DEF m, s
  <2>5. /\ m.pc \in {"fsel", "conf"}
        /\ m.pc = "fsel" => case.calls = "mux" /\ m.fn = s.fn
        /\ m.pc = "conf" => case.calls = "pull" /\ s.fn = asked[p].fn
        /\ p \in out' <=> s.high
    BY <2>1, <2>2, <2>3, <2>4
  <2> QED BY <2>1, <2>2, <2>3, <2>4, <2>5, MuxBegin
<1>2. ASSUME NEW f \in fsel_values, NEW gpio \in BOOLEAN, FselCall(t, p, f, gpio),
             asked' = [asked EXCEPT ![p].fn = f], UNCHANGED out
      PROVE  MuxInv'
  <2>1. asked[p].high \in BOOLEAN /\ asked' = [asked EXCEPT ![p].fn = f, ![p].high = asked[p].high]
    BY <1>0, <1>2 DEF Setting
  <2>2. out' = IF asked[p].high THEN out \cup {p} ELSE out \ {p}
    BY <1>0, <1>2
  <2> QED BY <1>1, <1>2, <2>1, <2>2
<1>3. CASE pmx_set(t, p)
  <2>1. PICK f \in Fns \cup {GPIO_IN} : FselCall(t, p, f, FALSE) /\ asked' = [asked EXCEPT ![p].fn = f]
    BY <1>3 DEF pmx_set
  <2>2. f \in fsel_values /\ UNCHANGED out
    BY <1>3, MuxAssumption DEF pmx_set, GPIO_IN, fsel_values
  <2> QED BY <1>2, <2>1, <2>2
<1>4. CASE gpio_direction_input(t, p)
  <2>1. GPIO_IN \in fsel_values
    BY DEF GPIO_IN, fsel_values
  <2> QED BY <1>2, <1>4, <2>1 DEF gpio_direction_input
<1>5. CASE gpio_direction_output(t, p)
  <2>1. PICK v \in BOOLEAN : FselCall(t, p, GPIO_OUT, TRUE) /\ SetLevel(p, v)
                              /\ asked' = [asked EXCEPT ![p].fn = GPIO_OUT, ![p].high = v]
    BY <1>5 DEF gpio_direction_output
  <2>2. GPIO_OUT \in fsel_values
    BY DEF GPIO_OUT, fsel_values
  <2> QED BY <1>1, <2>1, <2>2 DEF SetLevel
<1>6. CASE pinconf_set(t, p)
  <2>1. PICK cs \in ConfCalls : mth' = [mth EXCEPT ![t] = [MIdle EXCEPT !.pc = "conf", !.pin = p, !.conf = cs]]
    BY <1>6 DEF pinconf_set
  <2> DEFINE m == [MIdle EXCEPT !.pc = "conf", !.pin = p, !.conf = cs]
  <2>2. m \in MState /\ m.pc = "conf" /\ m.pin = p
    BY <1>0, MIdleTyped, MuxAssumption DEF MState, MIdle
  <2>3. /\ case.calls = "pull" /\ mth[t].pc = "idle" /\ Owner[p] = t /\ mth' = [mth EXCEPT ![t] = m]
        /\ UNCHANGED <<fsel, out, pud, clk, pull, core, asked, raced>>
    BY <1>6, <2>1 DEF pinconf_set
  <2>4. PICK s \in Setting : s = asked[p] /\ asked' = [asked EXCEPT ![p] = s]
    BY <1>0, <2>3
  <2> HIDE DEF m
  <2>5. /\ m.pc \in {"fsel", "conf"}
        /\ m.pc = "fsel" => case.calls = "mux" /\ m.fn = s.fn
        /\ m.pc = "conf" => case.calls = "pull" /\ s.fn = asked[p].fn
        /\ s.pull = asked[p].pull
        /\ out' \subseteq case.pins /\ (\A q \in case.pins \ {p} : q \in out' <=> q \in out)
        /\ p \in out' <=> s.high
    BY <1>0, <2>2, <2>3, <2>4
  <2>6. UNCHANGED <<fsel, pud, clk, pull, core, raced>> /\ mth[t].pc = "idle" /\ Owner[p] = t
        /\ mth' = [mth EXCEPT ![t] = m]
    BY <2>3
  <2> QED BY <2>2, <2>4, <2>5, <2>6, MuxBegin
<1> QED BY <1>3, <1>4, <1>5, <1>6

LEMMA GpioSetStep ==
    ASSUME case \in Cases, case' = case, MuxInv, NEW t \in Thread, NEW p \in case.pins, gpio_set(t, p)
    PROVE  MuxInv'
<1> USE DEF MuxInv
<1>1. PICK v \in BOOLEAN : SetLevel(p, v) /\ asked' = [asked EXCEPT ![p].high = v]
  BY DEF gpio_set
<1>2. UNCHANGED <<fsel, pud, clk, pull, core, mth, raced>>
  BY DEF gpio_set
<1>3. /\ asked' \in [case.pins -> Setting]
      /\ \A q \in case.pins : asked'[q].fn = asked[q].fn /\ asked'[q].pull = asked[q].pull
      /\ \A q \in case.pins : asked'[q].high = IF q = p THEN v ELSE asked[q].high
  BY <1>1 DEF MuxTypes, Setting
<1>4. out' \subseteq case.pins /\ \A q \in case.pins : q \in out' <=> IF q = p THEN v ELSE q \in out
  BY <1>1 DEF MuxTypes, SetLevel
<1>5. MuxTypes'
  BY <1>2, <1>3, <1>4, SameMux DEF MuxTypes
<1>6. ASSUME NEW u \in Thread PROVE MuxCall(u)'
  <2>1. MuxCall(u) /\ mth'[u] = mth[u] /\ (mth[u].pc # "idle" => mth[u].pin \in case.pins)
    BY <1>2 DEF MuxCall
  <2> QED BY <1>2, <1>3, <2>1, OtherMuxCall
<1>7. ASSUME NEW q \in case.pins PROVE MuxPin(q)'
  <2>1. MuxPin(q)
    OBVIOUS
  <2> QED BY <1>2, <1>3, <1>4, <2>1 DEF MuxPin, At
<1> QED BY <1>5, <1>6, <1>7

LEMMA OverlapFacts ==
    ASSUME case \in Cases, MuxInv, NEW t \in Thread, NEW u \in Thread, u # t, Updating(u),
           NEW p \in case.pins, p \in FSEL_REG(mth[u].pin)
    PROVE  mth[u].pin \in Overlapping(t, p)
<1>1. mth[u].pin \in case.pins
  BY DEF MuxInv, MuxCall, Updating
<1>2. mth[u].pin \in FSEL_REG(p)
  BY <1>1 DEF FSEL_REG
<1> QED BY <1>2 DEF Overlapping, Updating

\* The register is read: without an overlapping call, the copy of no other call
\* has an old value of the pin.
LEMMA FselReadStep ==
    ASSUME case \in Cases, case' = case, MuxInv, NEW t \in Thread, FselRead(t)
    PROVE  MuxInv'
<1> USE DEF MuxInv
<1> DEFINE p == mth[t].pin
           f == mth[t].fn
<1>1. /\ mth[t].pc = "fsel" /\ (mth[t].gpio => core = "none")
      /\ raced' = IF Overlapping(t, p) = {} THEN raced \ {p} ELSE raced
      /\ UNCHANGED <<fsel, out, pud, clk, pull, asked>>
  BY DEF FselRead
<1>2. MuxCall(t) /\ p \in case.pins /\ Owner[p] = t /\ mth[t] \in MState /\ f = asked[p].fn /\ case.calls = "mux"
      /\ core # t /\ p \in FSEL_REG(p)
  BY <1>1 DEF MuxCall, MuxTypes, Updating, FSEL_REG
<1>3. \/ fsel[p] = f /\ mth' = [mth EXCEPT ![t] = MIdle] /\ core' = core
      \/ /\ mth' = [mth EXCEPT ![t].pc = IF fsel[p] # GPIO_IN /\ f # GPIO_IN THEN "trans" ELSE "write",
                               ![t].tmp = [q \in FSEL_REG(p) |-> fsel[q]]]
         /\ core' = IF mth[t].gpio THEN t ELSE core
  BY DEF FselRead
<1>4. /\ mth'[t] \in MState /\ \A u \in Thread : u # t => mth'[u] = mth[u]
      /\ \/ fsel[p] = f /\ mth'[t].pc = "idle" /\ core' = core
         \/ /\ mth'[t].pc \in {"trans", "write"} /\ mth'[t].tmp = [q \in FSEL_REG(p) |-> fsel[q]]
            /\ mth'[t].pc = "write" => GPIO_IN \in {fsel[p], f}
            /\ core' = IF mth[t].gpio THEN t ELSE core
            /\ mth'[t].pin = p /\ mth'[t].fn = f /\ mth'[t].gpio = mth[t].gpio
  <2>1. [q \in FSEL_REG(p) |-> fsel[q]] \in [FSEL_REG(p) -> fsel_values]
    BY DEF MuxTypes, FSEL_REG
  <2>2. [q \in FSEL_REG(p) |-> fsel[q]] \in Tmps
    BY <1>2, <2>1 DEF Tmps
  <2>3. ASSUME NEW pc \in {"trans", "write"}, NEW g \in Tmps, mth' = [mth EXCEPT ![t].pc = pc, ![t].tmp = g]
        PROVE  /\ mth'[t] \in MState /\ \A u \in Thread : u # t => mth'[u] = mth[u]
               /\ mth'[t].pc = pc /\ mth'[t].tmp = g
               /\ mth'[t].pin = p /\ mth'[t].fn = f /\ mth'[t].gpio = mth[t].gpio
    BY <1>2, <2>3 DEF MuxTypes, MState
  <2>4. CASE mth' = [mth EXCEPT ![t] = MIdle] /\ core' = core /\ fsel[p] = f
    BY <2>4, MIdleTyped DEF MuxTypes
  <2>5. CASE /\ mth' = [mth EXCEPT ![t].pc = IF fsel[p] # GPIO_IN /\ f # GPIO_IN THEN "trans" ELSE "write",
                                   ![t].tmp = [q \in FSEL_REG(p) |-> fsel[q]]]
             /\ core' = IF mth[t].gpio THEN t ELSE core
    <3> DEFINE pc == IF fsel[p] # GPIO_IN /\ f # GPIO_IN THEN "trans" ELSE "write"
    <3>1. pc \in {"trans", "write"} /\ (pc = "write" => GPIO_IN \in {fsel[p], f})
      OBVIOUS
    <3>2. mth' = [mth EXCEPT ![t].pc = pc, ![t].tmp = [q \in FSEL_REG(p) |-> fsel[q]]]
      BY <2>5
    <3> HIDE DEF pc
    <3> QED BY <2>2, <2>3, <2>5, <3>1, <3>2
  <2> QED BY <1>3, <2>4, <2>5
<1>5. mth' \in [Thread -> MState]
  BY <1>3, <1>4 DEF MuxTypes
<1>6. MuxTypes'
  BY <1>1, <1>3, <1>5, SameMux DEF MuxTypes
<1>7. ASSUME NEW u \in Thread, u # t PROVE MuxCall(u)'
  <2>1. MuxCall(u) /\ mth'[u] = mth[u] /\ (core' = u <=> core = u)
    <3>1. core = u => ~ mth[t].gpio
      BY <1>1, PinsTyped
    <3> QED BY <1>3, <1>4, <1>7, <3>1
  <2>2. \A q \in case.pins : q # p => (q \in raced' <=> q \in raced)
    BY <1>1
  <2>3. mth[u].pc # "idle" => mth[u].pin # p /\ mth[u].pin \in case.pins
    BY <1>2, <1>7, <2>1 DEF MuxCall
  <2>4. Updating(u) => \A q \in FSEL_REG(mth[u].pin) : q \in raced => q \in raced'
    <3> SUFFICES ASSUME Updating(u), p \in FSEL_REG(mth[u].pin) PROVE raced' = raced
      BY <2>2 DEF FSEL_REG
    <3>1. Overlapping(t, p) # {}
      BY <1>2, <1>7, OverlapFacts
    <3> QED BY <1>1, <3>1
  <2> QED BY <1>1, <2>1, <2>2, <2>3, <2>4, OtherMuxCall
<1>8. MuxCall(t)'
  <2>1. CASE mth'[t].pc = "idle" /\ core' = core
    BY <1>2, <2>1 DEF MuxCall, Updating
  <2>2. CASE /\ mth'[t].pc \in {"trans", "write"} /\ mth'[t].tmp = [q \in FSEL_REG(p) |-> fsel[q]]
             /\ mth'[t].pc = "write" => GPIO_IN \in {fsel[p], f}
             /\ core' = IF mth[t].gpio THEN t ELSE core
             /\ mth'[t].pin = p /\ mth'[t].fn = f /\ mth'[t].gpio = mth[t].gpio
    <3>1. FSEL_REG(p)' = FSEL_REG(p)
      BY <2>2, SameMux DEF FSEL_REG
    <3>2. mth'[t].tmp \in [FSEL_REG(p) -> fsel_values] /\ \A q \in FSEL_REG(p) : mth'[t].tmp[q] = fsel'[q]
      BY <1>1, <2>2 DEF MuxTypes, FSEL_REG
    <3>3. core' = t <=> mth[t].gpio
      BY <1>2, <2>2
    <3> QED BY <1>1, <1>2, <2>2, <3>1, <3>2, <3>3 DEF MuxCall, Updating
  <2> QED BY <1>4, <2>1, <2>2
<1>9. ASSUME NEW q \in case.pins PROVE MuxPin(q)'
  <2>1. MuxPin(q)
    OBVIOUS
  <2>2. CASE q = p
    BY <1>1, <1>2, <1>4, <2>1, <2>2 DEF MuxPin, At
  <2>3. CASE q # p
    <3>1. ASSUME NEW pcs, At(q, pcs), "idle" \notin pcs PROVE At(q, pcs)'
      BY <1>2, <1>4, <2>3, <3>1, PinsTyped DEF At
    <3>2. q \in raced' <=> q \in raced
      BY <1>1, <2>3
    <3> QED BY <1>1, <2>1, <3>1, <3>2 DEF MuxPin
  <2> QED BY <2>2, <2>3
<1> QED BY <1>6, <1>7, <1>8, <1>9

\* What a write does to the functions: only the call's pin gets a new one, except
\* where calls overlapped.
LEMMA FselWriteFacts ==
    ASSUME case \in Cases, MuxInv, NEW t \in Thread, FselWrite(t)
    PROVE  LET p == mth[t].pin
           IN  /\ p \in case.pins /\ Owner[p] = t /\ Updating(t)
               /\ fsel' \in [case.pins -> fsel_values] /\ raced' \subseteq case.pins
               /\ raced \subseteq raced'
               /\ fsel'[p] = Written(t)
               /\ \A q \in FSEL_REG(p) : q # p => fsel'[q] = mth[t].tmp[q]
               /\ \A q \in case.pins : q # p => fsel'[q] = fsel[q] \/ q \in raced
               /\ Overlapping(t, p) # {} => p \in raced'
<1> DEFINE p == mth[t].pin
<1>1. MuxCall(t) /\ MuxTypes /\ Updating(t) /\ mth[t] \in MState
  BY DEF FselWrite, MuxInv, Updating, MuxTypes
<1>2. p \in case.pins /\ Owner[p] = t /\ p \in FSEL_REG(p) /\ mth[t].tmp \in [FSEL_REG(p) -> fsel_values]
  BY <1>1 DEF MuxCall, Updating, FSEL_REG
<1>3. /\ fsel' = [q \in case.pins |-> IF q \in FSEL_REG(p) THEN fields(t)[q] ELSE fsel[q]]
      /\ raced' = IF Overlapping(t, p) = {} THEN raced ELSE raced \cup Overlapping(t, p) \cup {p}
  BY DEF FselWrite
<1>4. Written(t) \in fsel_values
  BY <1>1 DEF Written, MState, GPIO_IN, fsel_values
<1>5. /\ fields(t) \in [FSEL_REG(p) -> fsel_values] /\ fields(t)[p] = Written(t)
      /\ \A q \in FSEL_REG(p) : q # p => fields(t)[q] = mth[t].tmp[q]
  BY <1>2, <1>4 DEF fields
<1>6. fsel' \in [case.pins -> fsel_values] /\ fsel'[p] = Written(t)
  BY <1>1, <1>2, <1>3, <1>5 DEF MuxTypes
<1>7. ASSUME NEW q \in FSEL_REG(p), q # p PROVE fsel'[q] = mth[t].tmp[q]
  BY <1>3, <1>5, <1>7 DEF FSEL_REG
<1>8. ASSUME NEW q \in case.pins, q # p PROVE fsel'[q] = fsel[q] \/ q \in raced
  <2>1. CASE q \in FSEL_REG(p)
    BY <1>1, <1>7, <1>8, <2>1 DEF MuxCall
  <2>2. CASE q \notin FSEL_REG(p)
    BY <1>3, <2>2
  <2> QED BY <2>1, <2>2
<1>9. Overlapping(t, p) \subseteq case.pins
  BY DEF Overlapping, FSEL_REG
<1> QED BY <1>1, <1>2, <1>3, <1>6, <1>7, <1>8, <1>9 DEF MuxTypes

LEMMA FselWriteStep ==
    ASSUME case \in Cases, case' = case, MuxInv, NEW t \in Thread, FselWrite(t)
    PROVE  MuxInv'
<1> USE DEF MuxInv
<1> DEFINE p == mth[t].pin
<1>1. UNCHANGED <<out, pud, clk, pull, asked>>
  BY DEF FselWrite
<1>2. /\ p \in case.pins /\ Owner[p] = t /\ Updating(t)
      /\ fsel' \in [case.pins -> fsel_values] /\ raced' \subseteq case.pins
      /\ raced \subseteq raced'
      /\ fsel'[p] = Written(t)
      /\ \A q \in FSEL_REG(p) : q # p => fsel'[q] = mth[t].tmp[q]
      /\ \A q \in case.pins : q # p => fsel'[q] = fsel[q] \/ q \in raced
      /\ Overlapping(t, p) # {} => p \in raced'
  BY FselWriteFacts
<1>3. MuxCall(t) /\ mth[t] \in MState /\ mth[t].fn = asked[p].fn /\ case.calls = "mux"
      /\ mth[t].tmp \in [FSEL_REG(p) -> fsel_values] /\ (core = t <=> mth[t].gpio)
  BY <1>2 DEF MuxCall, MuxTypes, Updating
<1>4. /\ mth' \in [Thread -> MState] /\ \A u \in Thread : u # t => mth'[u] = mth[u]
      /\ \/ /\ mth[t].pc = "trans" /\ mth'[t].pc = "write" /\ core' = core
            /\ mth'[t].pin = p /\ mth'[t].fn = mth[t].fn /\ mth'[t].gpio = mth[t].gpio /\ mth'[t].tmp = mth[t].tmp
         \/ mth[t].pc = "write" /\ mth'[t].pc = "idle" /\ core' = IF mth[t].gpio THEN "none" ELSE core
  <2>1. CASE mth[t].pc = "trans"
    <3>1. mth' = [mth EXCEPT ![t].pc = "write"] /\ core' = core
      BY <2>1 DEF FselWrite
    <3> QED BY <1>3, <2>1, <3>1 DEF MuxTypes, MState
  <2>2. CASE mth[t].pc = "write"
    <3>1. mth' = [mth EXCEPT ![t] = MIdle] /\ core' = IF mth[t].gpio THEN "none" ELSE core
      BY <2>2 DEF FselWrite
    <3> QED BY <1>3, <2>2, <3>1, MIdleTyped DEF MuxTypes
  <2> QED BY <1>2, <2>1, <2>2 DEF Updating
<1>5. MuxTypes'
  BY <1>1, <1>2, <1>4, SameMux DEF MuxTypes
<1>6. ASSUME NEW u \in Thread, u # t PROVE MuxCall(u)'
  <2>1. MuxCall(u) /\ mth'[u] = mth[u] /\ (core' = u <=> core = u)
    BY <1>3, <1>4, <1>6, PinsTyped
  <2>2. mth[u].pc # "idle" => mth[u].pin # p /\ mth[u].pin \in case.pins
    BY <1>2, <1>6, <2>1 DEF MuxCall
  <2>3. ASSUME Updating(u), NEW q \in FSEL_REG(mth[u].pin)
        PROVE  fsel'[q] = fsel[q] \/ q \in raced'
    <3>1. CASE q = p
      BY <1>2, <1>6, <2>3, <3>1, OverlapFacts
    <3>2. CASE q # p
      BY <1>2, <3>2 DEF FSEL_REG
    <3> QED BY <3>1, <3>2
  <2>4. mth[u].pc # "idle" => fsel'[mth[u].pin] = fsel[mth[u].pin] \/ mth[u].pin \in raced'
    BY <1>2, <2>2
  <2> QED BY <1>1, <1>2, <2>1, <2>2, <2>3, <2>4, OtherMuxCall
<1>7. MuxCall(t)'
  <2>1. CASE mth'[t].pc = "idle" /\ core' = IF mth[t].gpio THEN "none" ELSE core
    BY <1>3, <2>1, PinsTyped DEF MuxCall, Updating
  <2>2. CASE /\ mth[t].pc = "trans" /\ mth'[t].pc = "write" /\ core' = core
             /\ mth'[t].pin = p /\ mth'[t].fn = mth[t].fn /\ mth'[t].gpio = mth[t].gpio /\ mth'[t].tmp = mth[t].tmp
    <3>1. FSEL_REG(p)' = FSEL_REG(p)
      BY <2>2, SameMux DEF FSEL_REG
    <3>2. fsel'[p] = GPIO_IN
      BY <1>2, <2>2 DEF Written
    <3> QED BY <1>1, <1>2, <1>3, <2>2, <3>1, <3>2 DEF MuxCall, Updating
  <2> QED BY <1>4, <2>1, <2>2
<1>8. ASSUME NEW q \in case.pins PROVE MuxPin(q)'
  <2>1. MuxPin(q)
    OBVIOUS
  <2>2. CASE q = p
    <3>1. At(q, {"fsel", "trans", "write"})' \/ fsel'[q] = asked[q].fn
      BY <1>2, <1>3, <1>4, <2>2 DEF At, Written
    <3>2. pull[q] = asked[q].pull /\ ~ At(q, {"unclock"})
      BY <1>2, <1>3, <2>1, <2>2 DEF MuxPin, At, Updating
    <3> QED BY <1>1, <1>3, <2>1, <2>2, <3>1, <3>2 DEF MuxPin
  <2>3. CASE q # p
    <3>1. ASSUME NEW pcs, At(q, pcs), "idle" \notin pcs PROVE At(q, pcs)'
      BY <1>2, <1>4, <2>3, <3>1, PinsTyped DEF At
    <3>2. fsel'[q] = fsel[q] \/ q \in raced'
      BY <1>2, <2>3
    <3>3. case.calls = "mux" /\ raced \subseteq raced'
      BY <1>2, <1>3
    <3> QED BY <1>1, <2>1, <3>1, <3>2, <3>3 DEF MuxPin
  <2> QED BY <2>2, <2>3
<1> QED BY <1>5, <1>6, <1>7, <1>8

\* A pull is written to GPPUD: the calls for other pins that have come as far as
\* the clock are raced from now on.
LEMMA PullValueStep ==
    ASSUME case \in Cases, case' = case, MuxInv, NEW t \in Thread, PullValue(t)
    PROVE  MuxInv'
<1> USE DEF MuxInv
<1> DEFINE p == mth[t].pin
           arg == Head(mth[t].conf)[2] % 4
           others == {mth[u].pin : u \in {u \in Thread \ {t} : mth[u].pc \in {"clock", "unclock"}}}
           ends == IF mth[t].conf = <<>> THEN TRUE ELSE Head(mth[t].conf)[1] # "pull"
<1>1. mth[t].pc = "conf" /\ UNCHANGED <<fsel, out, clk, core>>
  BY DEF PullValue
<1>2. MuxCall(t) /\ p \in case.pins /\ Owner[p] = t /\ mth[t] \in MState /\ case.calls = "pull" /\ core # t
  BY <1>1 DEF MuxCall, MuxTypes, Updating
<1>3. CASE ends /\ mth' = [mth EXCEPT ![t] = MIdle] /\ UNCHANGED <<pud, pull, asked, raced>>
  <2>1. /\ mth' \in [Thread -> MState] /\ mth'[t].pc = "idle"
        /\ \A u \in Thread : u # t => mth'[u] = mth[u]
    BY <1>3, MIdleTyped DEF MuxTypes
  <2>2. MuxTypes'
    BY <1>1, <1>3, <2>1, SameMux DEF MuxTypes
  <2>3. ASSUME NEW u \in Thread, u # t PROVE MuxCall(u)'
    <3>1. MuxCall(u) /\ mth'[u] = mth[u]
      BY <2>1, <2>3
    <3> QED BY <1>1, <1>3, <3>1, OtherMuxCall
  <2>4. MuxCall(t)'
    BY <1>1, <1>2, <2>1 DEF MuxCall, Updating
  <2>5. ASSUME NEW q \in case.pins PROVE MuxPin(q)'
    <3>1. MuxPin(q)
      OBVIOUS
    <3>2. ASSUME NEW pcs, At(q, pcs), "conf" \notin pcs PROVE At(q, pcs)'
      BY <1>1, <2>1, <3>2, PinsTyped DEF At
    <3> QED BY <1>1, <1>3, <3>1, <3>2 DEF MuxPin
  <2> QED BY <2>2, <2>3, <2>4, <2>5
<1>4. CASE /\ ~ ends
           /\ mth' = [mth EXCEPT ![t].pc = "clock", ![t].conf = Tail(@)]
           /\ pud' = arg
           /\ \E S \in SUBSET clk : pull' = [q \in case.pins |-> IF q \in S THEN arg ELSE pull[q]]
           /\ asked' = [asked EXCEPT ![p].pull = arg]
           /\ raced' = IF others = {} THEN raced \ {p} ELSE raced \cup others \cup {p}
  <2>1. mth[t].conf \in Seq(STRING \X Nat) /\ mth[t].conf # <<>>
    BY <1>2, <1>4 DEF MState
  <2>2. arg \in 0 .. 3 /\ Tail(mth[t].conf) \in Seq(STRING \X Nat)
    <3>1. Head(mth[t].conf) \in STRING \X Nat /\ Tail(mth[t].conf) \in Seq(STRING \X Nat)
      BY <2>1
    <3>2. Head(mth[t].conf)[2] \in Nat
      BY <3>1
    <3> QED BY <3>1, <3>2
  <2> HIDE DEF arg
  <2>3. /\ mth' \in [Thread -> MState] /\ mth'[t].pc = "clock" /\ mth'[t].pin = p
        /\ \A u \in Thread : u # t => mth'[u] = mth[u]
    BY <1>2, <1>4, <2>2 DEF MuxTypes, MState
  <2>4. /\ asked' \in [case.pins -> Setting] /\ asked'[p].pull = arg
        /\ \A q \in case.pins : q # p => asked'[q] = asked[q]
        /\ asked'[p].fn = asked[p].fn /\ asked'[p].high = asked[p].high
    BY <1>2, <1>4, <2>2 DEF MuxTypes, Setting
  <2>5. pull' \in [case.pins -> 0 .. 3] /\ \A q \in case.pins : q \notin clk => pull'[q] = pull[q]
    BY <1>4, <2>2 DEF MuxTypes
  <2>6. others \subseteq case.pins
    BY DEF MuxCall
  <2>7. raced' \subseteq case.pins /\ \A q \in case.pins : q # p /\ q \in raced => q \in raced'
    BY <1>2, <1>4, <2>6 DEF MuxTypes
  <2>8. ASSUME NEW u \in Thread, u # t, mth[u].pc \in {"clock", "unclock"} PROVE mth[u].pin \in raced'
    <3>1. mth[u].pin \in others
      BY <2>8
    <3> QED BY <1>4, <3>1
  <2>9. MuxTypes'
    BY <1>1, <1>4, <2>2, <2>3, <2>4, <2>5, <2>7, SameMux DEF MuxTypes
  <2>10. ASSUME NEW u \in Thread, u # t PROVE MuxCall(u)'
    <3>1. MuxCall(u) /\ mth'[u] = mth[u] /\ ~ Updating(u)
      BY <1>2, <2>3, <2>10 DEF MuxCall, Updating
    <3>2. mth[u].pc # "idle" => mth[u].pin # p /\ mth[u].pin \in case.pins
      BY <1>2, <2>10, <3>1 DEF MuxCall
    <3> QED BY <1>1, <2>4, <2>8, <2>10, <3>1, <3>2, OtherMuxCall
  <2>11. MuxCall(t)'
    BY <1>1, <1>2, <1>4, <2>3, <2>4 DEF MuxCall, Updating
  <2>12. ASSUME NEW q \in case.pins PROVE MuxPin(q)'
    <3>1. MuxPin(q)
      OBVIOUS
    <3>2. CASE q = p
      <4>1. At(q, {"clock"})' /\ q \notin clk
        BY <1>1, <1>2, <2>3, <3>1, <3>2 DEF At, MuxPin
      <4>2. fsel'[q] = asked'[q].fn
        BY <1>1, <1>2, <2>4, <3>1, <3>2 DEF MuxPin
      <4> QED BY <1>1, <1>2, <2>4, <3>1, <3>2, <4>1, <4>2 DEF MuxPin
    <3>3. CASE q # p
      <4>1. ASSUME NEW pcs, At(q, pcs), "idle" \notin pcs PROVE At(q, pcs)'
        BY <1>2, <2>3, <3>3, <4>1, PinsTyped DEF At
      <4>2. asked'[q] = asked[q] /\ (q \in raced => q \in raced')
        BY <2>4, <2>7, <3>3
      <4>3. q \in clk => q \in raced'
        BY <1>2, <2>8, <3>1, <3>3, PinsTyped DEF MuxPin, At
      <4>4. q \notin clk => pull'[q] = pull[q]
        BY <2>5
      <4> QED BY <1>1, <1>2, <3>1, <4>1, <4>2, <4>3, <4>4 DEF MuxPin
    <3> QED BY <3>2, <3>3
  <2> QED BY <2>9, <2>10, <2>11, <2>12
<1> QED BY <1>3, <1>4 DEF PullValue

\* The clock of the pin is started or stopped.
LEMMA PullClockStep ==
    ASSUME case \in Cases, case' = case, MuxInv, NEW t \in Thread, PullClock(t)
    PROVE  MuxInv'
<1> USE DEF MuxInv
<1> DEFINE p == mth[t].pin
<1>1. mth[t].pc \in {"clock", "unclock"} /\ UNCHANGED <<fsel, out, pud, core, asked, raced>>
  BY DEF PullClock
<1>2. MuxCall(t) /\ p \in case.pins /\ Owner[p] = t /\ mth[t] \in MState /\ case.calls = "pull" /\ core # t
      /\ p \in GPIO_REG(p)
  BY <1>1 DEF MuxCall, MuxTypes, Updating, GPIO_REG
<1>3. /\ clk' \subseteq case.pins /\ \A q \in clk' : q \in clk \/ q = p
      /\ pull' \in [case.pins -> 0 .. 3] /\ \A q \in case.pins : q # p => pull'[q] = pull[q]
      /\ mth' \in [Thread -> MState] /\ \A u \in Thread : u # t => mth'[u] = mth[u]
      /\ mth'[t].pin = p
      /\ \/ mth[t].pc = "clock" /\ mth'[t].pc = "unclock" /\ pull'[p] = pud
         \/ mth[t].pc = "unclock" /\ mth'[t].pc = "conf" /\ pull'[p] = pull[p] /\ p \notin clk'
  <2>1. CASE mth[t].pc = "clock"
    <3>1. /\ clk' = (clk \ GPIO_REG(p)) \cup ({p} \cap case.pins)
          /\ pull' = [q \in case.pins |-> IF q = p THEN pud ELSE pull[q]]
          /\ mth' = [mth EXCEPT ![t].pc = "unclock"]
      BY <2>1 DEF PullClock, clock_pin
    <3> QED BY <1>2, <2>1, <3>1 DEF MuxTypes, MState
  <2>2. CASE mth[t].pc = "unclock"
    <3>1. /\ clk' = clk \ GPIO_REG(p) /\ pull' = pull
          /\ mth' = [mth EXCEPT ![t].pc = "conf"]
      BY <2>2 DEF PullClock
    <3> QED BY <1>2, <2>2, <3>1 DEF MuxTypes, MState
  <2> QED BY <1>1, <2>1, <2>2
<1>4. MuxTypes'
  BY <1>1, <1>3, SameMux DEF MuxTypes
<1>5. ASSUME NEW u \in Thread, u # t PROVE MuxCall(u)'
  <2>1. MuxCall(u) /\ mth'[u] = mth[u]
    BY <1>3, <1>5
  <2> QED BY <1>1, <2>1, OtherMuxCall
<1>6. MuxCall(t)'
  BY <1>1, <1>2, <1>3 DEF MuxCall, Updating
<1>7. ASSUME NEW q \in case.pins PROVE MuxPin(q)'
  <2>1. MuxPin(q)
    OBVIOUS
  <2>2. CASE q = p
    <3>1. pull'[q] = asked[q].pull \/ q \in raced
      BY <1>1, <1>2, <1>3, <2>1, <2>2 DEF MuxPin, MuxCall, At
    <3>2. q \in clk' => At(q, {"unclock"})'
      BY <1>2, <1>3, <2>2 DEF At
    <3> QED BY <1>1, <1>2, <2>1, <2>2, <3>1, <3>2 DEF MuxPin
  <2>3. CASE q # p
    <3>1. ASSUME NEW pcs, At(q, pcs), "idle" \notin pcs PROVE At(q, pcs)'
      BY <1>2, <1>3, <2>3, <3>1, PinsTyped DEF At
    <3>2. pull'[q] = pull[q] /\ (q \in clk' => q \in clk)
      BY <1>3, <2>3
    <3> QED BY <1>1, <1>2, <2>1, <3>1, <3>2 DEF MuxPin
  <2> QED BY <2>2, <2>3
<1> QED BY <1>4, <1>5, <1>6, <1>7

LEMMA MuxStep ==
    ASSUME case \in Cases, case' = case, MuxInv, MuxNext \/ UNCHANGED muxVars
    PROVE  MuxInv'
<1>1. CASE MuxNext
  BY <1>1, MuxCalls, GpioSetStep, FselReadStep, FselWriteStep, PullValueStep, PullClockStep DEF MuxNext
<1>2. CASE UNCHANGED muxVars
  <2>1. UNCHANGED <<fsel, out, pud, clk, pull, core, mth, asked, raced>>
    BY <1>2 DEF muxVars
  <2>2. MuxTypes'
    BY <2>1, SameMux DEF MuxInv, MuxTypes
  <2>3. ASSUME NEW u \in Thread PROVE MuxCall(u)'
    BY <2>1, OtherMuxCall DEF MuxInv
  <2>4. ASSUME NEW q \in case.pins PROVE MuxPin(q)'
    <3>1. MuxPin(q)
      BY DEF MuxInv
    <3> QED BY <2>1, <3>1 DEF MuxPin, At
  <2> QED BY <2>2, <2>3, <2>4 DEF MuxInv
<1> QED BY <1>1, <1>2

\* What the invariant says of the properties the run checks.
LEMMA MuxKept == ASSUME case \in Cases, MuxInv PROVE MuxTypeOK /\ MuxSettingsKept
<1>1. MuxTypeOK
  BY PinsTyped DEF MuxInv, MuxTypes, MuxCall, MuxTypeOK
<1>2. ASSUME NEW p \in case.pins, p \notin raced, \A t \in Thread : mth[t].pc # "idle" => mth[t].pin # p
      PROVE  fsel[p] = asked[p].fn /\ (p \in out <=> asked[p].high) /\ pull[p] = asked[p].pull
  <2>1. MuxPin(p) /\ Owner[p] \in Thread
    BY PinsTyped DEF MuxInv
  <2>2. ASSUME NEW pcs, "idle" \notin pcs PROVE ~ At(p, pcs)
    BY <1>2, <2>1, <2>2 DEF At
  <2> QED BY <1>2, <2>1, <2>2 DEF MuxPin
<1> QED BY <1>1, <1>2 DEF MuxSettingsKept

\* A function changes only in FselWrite().
CleanStep ==
    \A p \in case.pins : fsel'[p] # fsel[p] /\ p \notin raced' =>
        /\ GPIO_IN \in {fsel[p], fsel'[p]}
        /\ fsel'[p] = GPIO_OUT => (p \in out' <=> asked'[p].high)

LEMMA MuxClean == ASSUME case \in Cases, MuxInv, MuxNext \/ UNCHANGED muxVars PROVE CleanStep
<1>1. CASE fsel' = fsel
  BY <1>1 DEF CleanStep
<1>2. ASSUME NEW t \in Thread, FselWrite(t) PROVE CleanStep
  <2> SUFFICES ASSUME NEW p \in case.pins, fsel'[p] # fsel[p], p \notin raced'
               PROVE  GPIO_IN \in {fsel[p], fsel'[p]} /\ (p \in out' <=> asked'[p].high)
    BY DEF CleanStep
  <2>1. p = mth[t].pin /\ p \notin raced /\ fsel'[p] = Written(t) /\ Updating(t)
    BY <1>2, FselWriteFacts
  <2>2. p \in out' <=> asked'[p].high
    BY <1>2 DEF FselWrite, MuxInv, MuxPin
  <2>3. MuxCall(t)
    BY SMTT(30) DEF MuxInv
  <2> QED BY <2>1, <2>2, <2>3 DEF Written, MuxCall, Updating
<1>3. MuxNext /\ (\A t \in Thread : ~ FselWrite(t)) => fsel' = fsel
  BY ZenonT(40) DEF MuxNext, pmx_set, gpio_direction_input, gpio_direction_output, FselCall, gpio_set, pinconf_set,
     FselRead, PullValue, PullClock
<1>4. UNCHANGED muxVars => fsel' = fsel
  BY DEF muxVars
<1> QED BY <1>1, <1>2, <1>3, <1>4

------------------------------------------------------------------------------
(* Interrupts (Bcm2835Irq).                                                  *)

Op == ({"config"} \X Detectors \X BOOLEAN) \cup ({"type"} \X Types \X BOOLEAN)
          \cup ({"map", "clear", "flow"} \X {""} \X BOOLEAN)
IState == [pin : Pin, ops : Seq(Op), reading : BOOLEAN, tmp : SUBSET case.pins]
HState == [pc : {"idle", "bank", "pin", "ack", "action"}, parts : Seq(SUBSET Pin),
           ev : SUBSET case.pins, pin : Pin, level : BOOLEAN]

IrqTypes ==
    /\ probe \in {"start", "off", "ready"}
    /\ det \in [Detectors -> SUBSET case.pins] /\ events \subseteq case.pins
    /\ enabled \subseteq case.pins /\ irq_type \in [case.pins -> Types]
    /\ irq_lock \in [Bank -> Actor \cup {"none"}]
    /\ ith \in [Actor -> IState] /\ hnd \in [Group -> HState]

\* irq_lock[b] is held by the actor that has operations to do on a pin of bank b;
\* while it holds the lock, what it has read of a register stays right.
IrqLocks ==
    /\ \A a \in Actor : ith[a].ops # <<>> =>
          ith[a].pin \in case.pins /\ irq_lock[ith[a].pin \div 32] = a
    /\ \A b \in Bank : irq_lock[b] # "none" =>
          ith[irq_lock[b]].ops # <<>> /\ ith[irq_lock[b]].pin \div 32 = b
    /\ \A a \in Actor : ith[a].reading =>
          /\ ith[a].ops # <<>> /\ ith[a].ops[1][1] = "config"
          /\ ith[a].tmp = det[ith[a].ops[1][2]] \cap GPIO_REG(ith[a].pin)

\* A handler has operations to do only while it handles a pin.
IrqHandlers ==
    \A g \in Group :
        /\ hnd[g].pc \in {"idle", "bank", "action"} => ith[g].ops = <<>>
        /\ hnd[g].pc \in {"ack", "action"} => hnd[g].pin \in case.pins

\* Nothing is enabled before the probe has finished.
IrqProbe ==
    /\ probe # "ready" => /\ enabled = {} /\ \A b \in Bank : irq_lock[b] = "none"
                          /\ \A g \in Group : hnd[g].pc = "idle"
    /\ probe = "off" => \A r \in Detectors : det[r] = {}

Detecting(p) == {r \in Detectors : p \in det[r]}

\* Operations s, done on a pin that has the detectors D on, is enabled or not
\* (e), has type ty and an event latched or not (ev), leave it with the type T,
\* enabled or not (en), and with exactly the detectors that go with that.
On(op, r) == op[1] = "config" /\ op[2] = r /\ op[3]
Off(op, r) == op[1] = "config" /\ op[2] = r /\ ~ op[3]
LeadsToDetectors(s, D, T, en) ==
    \A r \in Detectors :
        (r \in Range(Regs[T]) /\ en) <=>
           \/ r \in D /\ \A i \in 1 .. Len(s) : ~ Off(s[i], r)
           \/ \E i \in 1 .. Len(s) : On(s[i], r)

LeadsToType(s, ty, T) ==
    /\ (\A i \in 1 .. Len(s) : s[i][1] # "type") => ty = T
    /\ \A i \in 1 .. Len(s) :
          s[i][1] = "type" /\ (\A j \in i + 1 .. Len(s) : s[j][1] # "type") => s[i][2] = T

LeadsToMap(s, e, en) ==
    /\ (\A i \in 1 .. Len(s) : s[i][1] # "map") => (e <=> en)
    /\ \A i \in 1 .. Len(s) : s[i][1] = "map" => (s[i][3] <=> en)

\* No register is changed twice, and to disable a pin means to turn its detectors
\* off, then to clear its event, then to take it off the map.
InOrder(s) ==
    \A i, j \in 1 .. Len(s) : i < j =>
        /\ s[i][1] = "config" /\ s[j][1] = "config" => s[i][2] # s[j][2]
        /\ s[i][1] = "clear" => s[j][1] # "config"
        /\ s[i][1] = "map" /\ ~ s[i][3] => s[j][1] # "config" /\ s[j][1] # "clear"

\* At no moment does a pin that is not enabled detect anything or have an event.
Covered(s, D, e, ev) ==
    /\ ev \/ D # {} => e
    /\ (\E i \in 1 .. Len(s) : s[i][1] = "map" /\ ~ s[i][3]) /\ (\A i \in 1 .. Len(s) : s[i][1] # "clear")
          => D = {} /\ ~ ev
    /\ (\E i \in 1 .. Len(s) : s[i][1] = "config" /\ s[i][3]) => e \/ (s[1][1] = "map" /\ s[1][3])

Leads(s, D, e, ty, ev, T, en) ==
    /\ LeadsToDetectors(s, D, T, en) /\ LeadsToType(s, ty, T) /\ LeadsToMap(s, e, en)
    /\ InOrder(s) /\ Covered(s, D, e, ev)

Leading(s, D, e, ty, ev) == \E T \in Types, en \in BOOLEAN : Leads(s, D, e, ty, ev, T, en)

\* The operations that are left to do on pin p.
Rest(p) ==
    LET a == irq_lock[p \div 32]
    IN  IF a # "none" /\ ith[a].pin = p THEN ith[a].ops ELSE <<>>

PinIs(p, D, e, ty, ev) ==
    D = Detecting(p) /\ (e <=> p \in enabled) /\ ty = irq_type[p] /\ (ev <=> p \in events)

IrqPin(p) ==
    probe = "ready" =>
        \E D \in SUBSET Detectors, e \in BOOLEAN, ty \in Types, ev \in BOOLEAN, T \in Types, en \in BOOLEAN :
            PinIs(p, D, e, ty, ev) /\ Leads(Rest(p), D, e, ty, ev, T, en)

IrqInv == IrqTypes /\ IrqLocks /\ IrqHandlers /\ IrqProbe /\ \A p \in case.pins : IrqPin(p)

\* With nothing left to do, the detectors are those of the type.
LEMMA LeadsEmpty ==
    ASSUME NEW D \in SUBSET Detectors, NEW e \in BOOLEAN, NEW ev \in BOOLEAN, NEW ty \in Types,
           NEW T \in Types, NEW en \in BOOLEAN
    PROVE  Leads(<<>>, D, e, ty, ev, T, en) <=>
               /\ ty = T /\ (e <=> en) /\ (ev \/ D # {} => e)
               /\ \A r \in Detectors : r \in D <=> r \in Range(Regs[T]) /\ en
<1>1. Len(<<>>) = 0 /\ 1 .. 0 = {}
  OBVIOUS
<1>2. LeadsToDetectors(<<>>, D, T, en) <=> \A r \in Detectors : r \in D <=> r \in Range(Regs[T]) /\ en
  BY <1>1 DEF LeadsToDetectors
<1>3. /\ LeadsToType(<<>>, ty, T) <=> ty = T
      /\ LeadsToMap(<<>>, e, en) <=> (e <=> en)
      /\ InOrder(<<>>)
      /\ Covered(<<>>, D, e, ev) <=> (ev \/ D # {} => e)
  BY <1>1 DEF LeadsToType, LeadsToMap, InOrder, Covered
<1> QED BY <1>2, <1>3 DEF Leads

LEMMA OpParts ==
    ASSUME NEW o \in Op
    PROVE  /\ o[1] \in {"config", "type", "map", "clear", "flow"} /\ o[3] \in BOOLEAN
           /\ o[1] = "config" => o[2] \in Detectors
           /\ o[1] = "type" => o[2] \in Types
<1>1. CASE o \in {"config"} \X Detectors \X BOOLEAN
  BY <1>1
<1>2. CASE o \in {"type"} \X Types \X BOOLEAN
  BY <1>2
<1>3. CASE o \in {"map", "clear", "flow"} \X {""} \X BOOLEAN
  BY <1>3
<1> QED BY <1>1, <1>2, <1>3 DEF Op

\* What one operation does to a pin.
After(op, D, e, ty, ev, D2, e2, ty2, ev2) ==
    /\ D2 = IF op[1] = "config" THEN IF op[3] THEN D \cup {op[2]} ELSE D \ {op[2]} ELSE D
    /\ e2 <=> IF op[1] = "map" THEN op[3] ELSE e
    /\ ty2 = IF op[1] = "type" THEN op[2] ELSE ty
    /\ ev2 <=> IF op[1] = "clear" THEN FALSE ELSE ev

\* One operation done is one operation less to do.
LEMMA LeadsTail ==
    ASSUME NEW s \in Seq(Op), s # <<>>, NEW D \in SUBSET Detectors, NEW e \in BOOLEAN, NEW ev \in BOOLEAN,
           NEW ty \in Types, NEW T \in Types, NEW en \in BOOLEAN, Leads(s, D, e, ty, ev, T, en),
           NEW D2, NEW e2, NEW ty2, NEW ev2, After(s[1], D, e, ty, ev, D2, e2, ty2, ev2)
    PROVE  Leads(Tail(s), D2, e2, ty2, ev2, T, en)
<1>0. /\ D2 = IF s[1][1] = "config" THEN IF s[1][3] THEN D \cup {s[1][2]} ELSE D \ {s[1][2]} ELSE D
      /\ e2 <=> IF s[1][1] = "map" THEN s[1][3] ELSE e
      /\ ty2 = IF s[1][1] = "type" THEN s[1][2] ELSE ty
      /\ ev2 <=> IF s[1][1] = "clear" THEN FALSE ELSE ev
  BY DEF After
<1> USE <1>0
<1>1. PICK k \in Seq(Op) : k = Tail(s)
  BY HeadTailProperties
<1>2. /\ Len(s) \in Nat \ {0} /\ Len(k) \in Nat /\ Len(k) = Len(s) - 1
      /\ \A i \in 1 .. Len(k) : i + 1 \in 1 .. Len(s) /\ k[i] = s[i + 1]
      /\ \A i \in 1 .. Len(s) : i = 1 \/ (i - 1 \in 1 .. Len(k) /\ s[i] = k[i - 1])
      /\ 1 \in 1 .. Len(s)
  BY <1>1
<1>3. \A i \in 1 .. Len(s) : s[i] \in Op
  BY ElementOfSeq
<1>5. s[1][3] \in BOOLEAN /\ (s[1][1] = "config" => s[1][2] \in Detectors)
  BY <1>2, <1>3, OpParts
<1>6. LeadsToDetectors(k, D2, T, en)
  <2> SUFFICES ASSUME NEW r \in Detectors
               PROVE  (r \in Range(Regs[T]) /\ en) <=>
                         \/ r \in D2 /\ \A i \in 1 .. Len(k) : ~ Off(k[i], r)
                         \/ \E i \in 1 .. Len(k) : On(k[i], r)
    BY DEF LeadsToDetectors
  <2>1. (r \in Range(Regs[T]) /\ en) <=>
             \/ r \in D /\ \A i \in 1 .. Len(s) : ~ Off(s[i], r)
             \/ \E i \in 1 .. Len(s) : On(s[i], r)
    BY DEF Leads, LeadsToDetectors
  <2>2. /\ (\E i \in 1 .. Len(s) : On(s[i], r)) <=> On(s[1], r) \/ \E i \in 1 .. Len(k) : On(k[i], r)
        /\ (\A i \in 1 .. Len(s) : ~ Off(s[i], r)) <=>
              ~ Off(s[1], r) /\ \A i \in 1 .. Len(k) : ~ Off(k[i], r)
    BY <1>2
  <2>3. s[1][1] = "config" /\ s[1][2] = r => \A i \in 1 .. Len(k) : ~ On(k[i], r) /\ ~ Off(k[i], r)
    BY <1>2 DEF Leads, InOrder, On, Off
  <2>5. CASE On(s[1], r)
    <3>1. r \in D2 /\ ~ Off(s[1], r)
      BY <2>5 DEF On, Off
    <3> QED BY <2>1, <2>2, <2>3, <2>5, <3>1 DEF On
  <2>6. CASE Off(s[1], r)
    <3>1. r \notin D2 /\ ~ On(s[1], r)
      BY <2>6 DEF On, Off
    <3> QED BY <2>1, <2>2, <2>3, <2>6, <3>1 DEF Off
  <2>7. CASE ~ On(s[1], r) /\ ~ Off(s[1], r)
    <3>1. r \in D2 <=> r \in D
      BY <2>7 DEF On, Off
    <3> QED BY <2>1, <2>2, <2>7, <3>1
  <2> QED BY <2>5, <2>6, <2>7
<1>7. LeadsToType(k, ty2, T)
  <2>1. ASSUME \A i \in 1 .. Len(k) : k[i][1] # "type" PROVE ty2 = T
    <3>1. ASSUME NEW i \in 1 .. Len(s), i # 1 PROVE s[i][1] # "type"
      <4>1. i - 1 \in 1 .. Len(k) /\ s[i] = k[i - 1]
        BY <1>2, <3>1
      <4> QED BY <2>1, <4>1
    <3>2. CASE s[1][1] = "type"
      <4>1. \A j \in 1 + 1 .. Len(s) : s[j][1] # "type"
        BY <1>2, <3>1
      <4> QED BY <1>2, <3>2, <4>1 DEF Leads, LeadsToType
    <3>3. CASE s[1][1] # "type"
      BY <1>2, <3>1, <3>3 DEF Leads, LeadsToType
    <3> QED BY <3>2, <3>3
  <2>2. ASSUME NEW i \in 1 .. Len(k), k[i][1] = "type", \A j \in i + 1 .. Len(k) : k[j][1] # "type"
        PROVE  k[i][2] = T
    <3>1. i + 1 \in 1 .. Len(s) /\ s[i + 1] = k[i]
      BY <1>2
    <3>2. ASSUME NEW j \in (i + 1) + 1 .. Len(s) PROVE s[j][1] # "type"
      <4>1. j - 1 \in i + 1 .. Len(k) /\ s[j] = k[j - 1]
        BY <1>2
      <4> QED BY <2>2, <4>1
    <3> QED BY <2>2, <3>1, <3>2 DEF Leads, LeadsToType
  <2> QED BY <2>1, <2>2 DEF LeadsToType
<1>8. LeadsToMap(k, e2, en)
  <2>1. ASSUME \A i \in 1 .. Len(k) : k[i][1] # "map" PROVE e2 <=> en
    <3>1. CASE s[1][1] = "map"
      BY <1>2, <3>1 DEF Leads, LeadsToMap
    <3>2. CASE s[1][1] # "map"
      BY <1>2, <2>1, <3>2 DEF Leads, LeadsToMap
    <3> QED BY <3>1, <3>2
  <2> QED BY <1>2, <2>1 DEF Leads, LeadsToMap
<1>9. InOrder(k)
  <2> SUFFICES ASSUME NEW i \in 1 .. Len(k), NEW j \in 1 .. Len(k), i < j
               PROVE  /\ k[i][1] = "config" /\ k[j][1] = "config" => k[i][2] # k[j][2]
                      /\ k[i][1] = "clear" => k[j][1] # "config"
                      /\ k[i][1] = "map" /\ ~ k[i][3] => k[j][1] # "config" /\ k[j][1] # "clear"
    BY DEF InOrder
  <2>1. i + 1 \in 1 .. Len(s) /\ j + 1 \in 1 .. Len(s) /\ i + 1 < j + 1 /\ k[i] = s[i + 1] /\ k[j] = s[j + 1]
    BY <1>2
  <2> QED BY <2>1 DEF Leads, InOrder
<1>10. Covered(k, D2, e2, ev2)
  <2>1. Covered(s, D, e, ev)
    BY DEF Leads
  <2>2. ev2 \/ D2 # {} => e2
    <3>1. CASE s[1][1] = "map" /\ ~ s[1][3]
      <4>1. ASSUME NEW i \in 1 .. Len(s) PROVE s[i][1] # "clear"
        <5>1. i = 1 \/ 1 < i
          BY <1>2
        <5> QED BY <1>2, <3>1, <5>1 DEF Leads, InOrder
      <4>2. D = {} /\ ~ ev
        BY <1>2, <2>1, <3>1, <4>1 DEF Covered
      <4> QED BY <3>1, <4>2
    <3>2. CASE s[1][1] = "map" /\ s[1][3]
      BY <3>2
    <3>3. CASE s[1][1] = "config"
      <4>1. s[1][3] => e
        BY <1>2, <2>1, <3>3 DEF Covered
      <4>2. ~ s[1][3] => D2 \subseteq D
        BY <3>3
      <4> QED BY <2>1, <3>3, <4>1, <4>2 DEF Covered
    <3>4. CASE s[1][1] # "map" /\ s[1][1] # "config"
      BY <2>1, <3>4 DEF Covered
    <3> QED BY <3>1, <3>2, <3>3, <3>4
  <2>3. ASSUME NEW i \in 1 .. Len(k), k[i][1] = "map", ~ k[i][3], \A j \in 1 .. Len(k) : k[j][1] # "clear"
        PROVE  D2 = {} /\ ~ ev2
    <3>1. i + 1 \in 1 .. Len(s) /\ s[i + 1][1] = "map" /\ ~ s[i + 1][3]
      BY <1>2, <2>3
    <3>2. ~ en
      BY <3>1 DEF Leads, LeadsToMap
    <3>3. CASE s[1][1] = "clear"
      <4>1. ASSUME NEW j \in 1 .. Len(s) PROVE s[j][1] # "config"
        <5>1. j = 1 \/ 1 < j
          BY <1>2
        <5> QED BY <1>2, <3>3, <5>1 DEF Leads, InOrder
      <4>2. \A r \in Detectors : \A j \in 1 .. Len(s) : ~ Off(s[j], r)
        BY <4>1 DEF Off
      <4>3. D = {}
        BY <3>2, <4>2 DEF Leads, LeadsToDetectors
      <4> QED BY <3>3, <4>3
    <3>4. CASE s[1][1] # "clear"
      <4>1. \A j \in 1 .. Len(s) : s[j][1] # "clear"
        BY <1>2, <2>3, <3>4, SMTT(30)
      <4>2. D = {} /\ ~ ev
        BY <2>1, <3>1, <4>1 DEF Covered
      <4>3. ~ (s[1][1] = "config" /\ s[1][3])
        <5> SUFFICES ASSUME s[1][1] = "config", s[1][3] PROVE FALSE
          OBVIOUS
        <5>1. On(s[1], s[1][2]) /\ s[1][2] \in Detectors
          BY <1>5 DEF On
        <5> QED BY <1>2, <3>2, <5>1 DEF Leads, LeadsToDetectors
      <4> QED BY <3>4, <4>2, <4>3
    <3> QED BY <3>3, <3>4
  <2>4. ASSUME NEW i \in 1 .. Len(k), k[i][1] = "config", k[i][3]
        PROVE  e2
    <3>1. i + 1 \in 1 .. Len(s) /\ s[i + 1][1] = "config" /\ s[i + 1][3]
      BY <1>2, <2>4
    <3>2. e \/ (s[1][1] = "map" /\ s[1][3])
      BY <2>1, <3>1 DEF Covered
    <3>3. ~ (s[1][1] = "map" /\ ~ s[1][3])
      <4>1. 1 \in 1 .. Len(s) /\ 1 < i + 1 /\ InOrder(s)
        BY <1>2 DEF Leads
      <4> QED BY <3>1, <4>1 DEF InOrder
    <3> QED BY <3>2, <3>3
  <2> QED BY <2>2, <2>3, <2>4 DEF Covered
<1> QED BY <1>1, <1>6, <1>7, <1>8, <1>9, <1>10 DEF Leads

\* An event may be latched only while something is detected, and may be cleared.
LEMMA LeadsEvent ==
    ASSUME NEW s, NEW D, NEW e \in BOOLEAN, NEW ev \in BOOLEAN, NEW ty, NEW T, NEW en \in BOOLEAN,
           NEW ev2 \in BOOLEAN, ev2 => ev \/ D # {}, Leads(s, D, e, ty, ev, T, en)
    PROVE  Leads(s, D, e, ty, ev2, T, en)
  BY DEF Leads, Covered

\* The registers of each type: no one twice, and none common to two types but
\* one edge and both.
LEMMA RegsFacts ==
    ASSUME NEW ty \in Types
    PROVE  /\ Regs[ty] \in Seq(Detectors) /\ Len(Regs[ty]) \in Nat
           /\ DOMAIN Regs[ty] = 1 .. Len(Regs[ty])
           /\ \A i, j \in 1 .. Len(Regs[ty]) : i # j => Regs[ty][i] # Regs[ty][j]
           /\ \A r : r \in Range(Regs[ty]) <=> \E i \in 1 .. Len(Regs[ty]) : Regs[ty][i] = r
<1> DEFINE one == {<< >>, <<"GPREN">>, <<"GPFEN">>, <<"GPHEN">>, <<"GPLEN">>}
           two == {<<"GPREN", "GPFEN">>}
<1>4. Regs[ty] \in one \cup two
  BY DEF Regs, Types
<1>5. \A a, b \in Detectors : << >> \in Seq(Detectors) /\ <<a>> \in Seq(Detectors) /\ <<a, b>> \in Seq(Detectors)
  OBVIOUS
<1>6. {"GPREN", "GPFEN", "GPHEN", "GPLEN"} \subseteq Detectors
  BY DEF Detectors
<1>1. Regs[ty] \in Seq(Detectors)
  BY <1>4, <1>5, <1>6
<1>2. \A i, j \in 1 .. Len(Regs[ty]) : i # j => Regs[ty][i] # Regs[ty][j]
  BY DEF Regs, Types
<1>3. DOMAIN Regs[ty] = 1 .. Len(Regs[ty])
  BY <1>1
<1> QED BY <1>1, <1>2, <1>3 DEF Range

LEMMA RegsOf ==
    /\ \A r : r \in Range(Regs["rising"]) <=> r = "GPREN"
    /\ \A r : r \in Range(Regs["falling"]) <=> r = "GPFEN"
    /\ \A r : r \in Range(Regs["both"]) <=> r = "GPREN" \/ r = "GPFEN"
    /\ \A r : r \in Range(Regs["high"]) <=> r = "GPHEN"
    /\ \A r : r \in Range(Regs["low"]) <=> r = "GPLEN"
    /\ \A r : r \notin Range(Regs["none"])
<1>1. /\ Regs["rising"] = <<"GPREN">> /\ Regs["falling"] = <<"GPFEN">>
      /\ Regs["both"] = <<"GPREN", "GPFEN">> /\ Regs["high"] = <<"GPHEN">>
      /\ Regs["low"] = <<"GPLEN">> /\ Regs["none"] = << >>
  BY DEF Regs
<1> QED BY <1>1 DEF Range

LEMMA ConfigFacts ==
    ASSUME NEW ty \in Types, NEW b \in BOOLEAN
    PROVE  /\ irq_config(ty, b) \in Seq(Op) /\ Len(irq_config(ty, b)) = Len(Regs[ty])
           /\ \A i \in 1 .. Len(Regs[ty]) : /\ irq_config(ty, b)[i][1] = "config"
                                            /\ irq_config(ty, b)[i][2] = Regs[ty][i]
                                            /\ irq_config(ty, b)[i][3] <=> b
<1>1. Regs[ty] \in Seq(Detectors) /\ DOMAIN Regs[ty] = 1 .. Len(Regs[ty]) /\ Len(Regs[ty]) \in Nat
  BY RegsFacts
<1>2. \A i \in 1 .. Len(Regs[ty]) : <<"config", Regs[ty][i], b>> \in Op
  <2> SUFFICES ASSUME NEW i \in 1 .. Len(Regs[ty]) PROVE <<"config", Regs[ty][i], b>> \in Op
    OBVIOUS
  <2>1. Regs[ty][i] \in Detectors
    BY <1>1, ElementOfSeq
  <2> QED BY <2>1 DEF Op
<1>3. irq_config(ty, b) = [i \in 1 .. Len(Regs[ty]) |-> <<"config", Regs[ty][i], b>>]
  BY <1>1 DEF irq_config
<1> QED BY <1>1, <1>2, <1>3

\* The same, of a sequence c.
ConfigOps(c, ty, b) ==
    /\ c \in Seq(Op) /\ Len(c) = Len(Regs[ty])
    /\ \A i \in 1 .. Len(Regs[ty]) : c[i][1] = "config" /\ c[i][2] = Regs[ty][i] /\ (c[i][3] <=> b)

LEMMA ConfigSeq == ASSUME NEW ty \in Types, NEW b \in BOOLEAN PROVE ConfigOps(irq_config(ty, b), ty, b)
  BY ConfigFacts DEF ConfigOps

\* s is A, followed by B.
Concat(A, B, s) ==
    /\ s \in Seq(Op) /\ Len(A) \in Nat /\ Len(B) \in Nat /\ Len(s) = Len(A) + Len(B)
    /\ \A i \in 1 .. Len(A) : s[i] = A[i]
    /\ \A i \in 1 .. Len(B) : s[Len(A) + i] = B[i]

LEMMA ConcatOps == ASSUME NEW A \in Seq(Op), NEW B \in Seq(Op) PROVE Concat(A, B, A \o B)
  BY ConcatProperties DEF Concat

\* s is one operation.
Single(s, kind, arg, b) ==
    s \in Seq(Op) /\ Len(s) = 1 /\ s[1][1] = kind /\ s[1][2] = arg /\ (s[1][3] <=> b)

FlowOp(b) == << <<"flow", "", b>> >>

LEMMA SingleOps ==
    ASSUME NEW b \in BOOLEAN
    PROVE  /\ Single(Map(b), "map", "", b) /\ Single(Clear, "clear", "", TRUE)
           /\ Single(FlowOp(b), "flow", "", b)
           /\ \A ty \in Types : Single(SetType(ty), "type", ty, TRUE)
<1>1. /\ <<"map", "", b>> \in Op /\ <<"clear", "", TRUE>> \in Op /\ <<"flow", "", b>> \in Op
      /\ \A ty \in Types : <<"type", ty, TRUE>> \in Op
  BY DEF Op
<1>2. ASSUME NEW kind, NEW arg, NEW x \in BOOLEAN, <<kind, arg, x>> \in Op
      PROVE  Single(<< <<kind, arg, x>> >>, kind, arg, x)
  BY <1>2 DEF Single
<1> QED BY <1>1, <1>2 DEF Map, Clear, SetType, FlowOp

\* irq_enable() leaves the pin enabled with the detectors of its type.
LEMMA EnableLeads ==
    ASSUME NEW ty \in Types, NEW D \in SUBSET Detectors, NEW e \in BOOLEAN, NEW ev \in BOOLEAN,
           \A r \in Detectors : r \in D <=> r \in Range(Regs[ty]) /\ e, ev \/ D # {} => e
    PROVE  LET s == Map(TRUE) \o irq_config(ty, TRUE)
           IN  s \in Seq(Op) /\ s # <<>> /\ Leads(s, D, e, ty, ev, ty, TRUE)
<1>1. PICK R : R = Regs[ty]
  OBVIOUS
<1>2. PICK s : s = Map(TRUE) \o irq_config(ty, TRUE)
  OBVIOUS
<1>3. /\ Len(R) \in Nat /\ (\A i, j \in 1 .. Len(R) : i # j => R[i] # R[j])
      /\ \A r : r \in Range(Regs[ty]) <=> \E i \in 1 .. Len(R) : R[i] = r
  BY <1>1, RegsFacts
<1>4. /\ s \in Seq(Op) /\ Len(s) = 1 + Len(R)
      /\ s[1][1] = "map" /\ s[1][3]
      /\ \A i \in 1 .. Len(s) : i # 1 =>
            i - 1 \in 1 .. Len(R) /\ s[i][1] = "config" /\ s[i][2] = R[i - 1] /\ s[i][3]
      /\ \A i \in 1 .. Len(R) : i + 1 \in 1 .. Len(s) /\ s[i + 1][1] = "config" /\ s[i + 1][2] = R[i] /\ s[i + 1][3]
  <2>0. PICK c : c = irq_config(ty, TRUE)
    OBVIOUS
  <2>1. /\ c \in Seq(Op) /\ Len(c) = Len(R)
        /\ \A i \in 1 .. Len(R) : c[i][1] = "config" /\ c[i][2] = R[i] /\ c[i][3]
    BY <1>1, <2>0, ConfigFacts
  <2>2. PICK m : m = Map(TRUE)
    OBVIOUS
  <2>3. m \in Seq(Op) /\ Len(m) = 1 /\ m[1][1] = "map" /\ m[1][3]
    BY <2>2, SingleOps DEF Single
  <2>4. /\ s \in Seq(Op) /\ Len(s) = 1 + Len(R) /\ s[1] = m[1]
        /\ \A i \in 1 .. Len(R) : s[1 + i] = c[i]
    <3>1. Concat(m, c, s)
      BY <1>2, <2>0, <2>1, <2>2, <2>3, ConcatOps
    <3>2. Len(R) \in Nat
      BY <1>3
    <3>3. s \in Seq(Op) /\ Len(s) = 1 + Len(R) /\ s[1] = m[1]
      BY <2>1, <2>3, <3>1, <3>2 DEF Concat
    <3>4. ASSUME NEW i \in 1 .. Len(R) PROVE s[1 + i] = c[i]
      BY <2>1, <2>3, <3>1 DEF Concat
    <3> QED BY <3>3, <3>4
  <2>5. ASSUME NEW i \in 1 .. Len(R) PROVE i + 1 \in 1 .. Len(s) /\ s[i + 1] = c[i]
    <3>1. Len(R) \in Nat /\ i + 1 = 1 + i
      BY <1>3
    <3> QED BY <2>4, <3>1
  <2>6. ASSUME NEW i \in 1 .. Len(s), i # 1 PROVE i - 1 \in 1 .. Len(R) /\ s[i] = c[i - 1]
    <3>1. Len(R) \in Nat /\ i = 1 + (i - 1)
      BY <1>3
    <3>2. i - 1 \in 1 .. Len(R)
      BY <2>4, <2>6, <3>1
    <3> QED BY <2>4, <3>1, <3>2
  <2>7. s[1][1] = "map" /\ s[1][3]
    BY <2>3, <2>4
  <2>8. ASSUME NEW i \in 1 .. Len(R)
        PROVE  i + 1 \in 1 .. Len(s) /\ s[i + 1][1] = "config" /\ s[i + 1][2] = R[i] /\ s[i + 1][3]
    BY <2>1, <2>5
  <2>9. ASSUME NEW i \in 1 .. Len(s), i # 1
        PROVE  i - 1 \in 1 .. Len(R) /\ s[i][1] = "config" /\ s[i][2] = R[i - 1] /\ s[i][3]
    BY <2>1, <2>6, <2>9
  <2> QED BY <2>4, <2>7, <2>8, <2>9
<1>5. LeadsToDetectors(s, D, ty, TRUE)
  <2> SUFFICES ASSUME NEW r \in Detectors
               PROVE  r \in Range(Regs[ty]) <=> \/ r \in D /\ \A i \in 1 .. Len(s) : ~ Off(s[i], r)
                                                \/ \E i \in 1 .. Len(s) : On(s[i], r)
    BY DEF LeadsToDetectors
  <2>1. \A i \in 1 .. Len(s) : ~ Off(s[i], r)
    BY <1>4 DEF Off
  <2>2. ASSUME NEW i \in 1 .. Len(s), On(s[i], r) PROVE \E j \in 1 .. Len(R) : R[j] = r
    BY <1>4, <2>2 DEF On
  <2>3. ASSUME NEW i \in 1 .. Len(R), R[i] = r PROVE \E j \in 1 .. Len(s) : On(s[j], r)
    BY <1>4, <2>3 DEF On
  <2> QED BY <1>3, <2>1, <2>2, <2>3
<1>6. LeadsToType(s, ty, ty)
  BY <1>4 DEF LeadsToType
<1>7. LeadsToMap(s, e, TRUE)
  BY <1>3, <1>4 DEF LeadsToMap
<1>8. InOrder(s)
  BY <1>3, <1>4 DEF InOrder
<1>9. Covered(s, D, e, ev)
  BY <1>3, <1>4 DEF Covered
<1>10. s # <<>>
  BY <1>3, <1>4
<1> QED BY <1>2, <1>4, <1>5, <1>6, <1>7, <1>8, <1>9, <1>10 DEF Leads

\* irq_disable() leaves the pin disabled, with no detectors and no event.
LEMMA DisableLeads ==
    ASSUME NEW ty \in Types, NEW D \in SUBSET Detectors, NEW e \in BOOLEAN, NEW ev \in BOOLEAN,
           \A r \in Detectors : r \in D <=> r \in Range(Regs[ty]) /\ e, ev \/ D # {} => e
    PROVE  LET s == irq_config(ty, FALSE) \o Clear \o Map(FALSE)
           IN  s \in Seq(Op) /\ s # <<>> /\ Leads(s, D, e, ty, ev, ty, FALSE)
<1>1. PICK R : R = Regs[ty]
  OBVIOUS
<1>2. PICK s : s = irq_config(ty, FALSE) \o Clear \o Map(FALSE)
  OBVIOUS
<1>3. /\ Len(R) \in Nat /\ (\A i, j \in 1 .. Len(R) : i # j => R[i] # R[j])
      /\ \A r : r \in Range(Regs[ty]) <=> \E i \in 1 .. Len(R) : R[i] = r
  BY <1>1, RegsFacts
<1>4. /\ s \in Seq(Op) /\ Len(s) = Len(R) + 2
      /\ \A i \in 1 .. Len(R) : s[i][1] = "config" /\ s[i][2] = R[i] /\ ~ s[i][3]
      /\ s[Len(R) + 1][1] = "clear" /\ s[Len(R) + 2][1] = "map" /\ ~ s[Len(R) + 2][3]
  <2>0. PICK c : c = irq_config(ty, FALSE)
    OBVIOUS
  <2>1. /\ c \in Seq(Op) /\ Len(c) = Len(R)
        /\ \A i \in 1 .. Len(R) : c[i][1] = "config" /\ c[i][2] = R[i] /\ ~ c[i][3]
    BY <1>1, <2>0, ConfigFacts
  <2>2. PICK m, z : m = Map(FALSE) /\ z = Clear
    OBVIOUS
  <2>3. m \in Seq(Op) /\ Len(m) = 1 /\ m[1][1] = "map" /\ ~ m[1][3]
    BY <2>2, SingleOps DEF Single
  <2>4. z \in Seq(Op) /\ Len(z) = 1 /\ z[1][1] = "clear"
    BY <2>2, SingleOps DEF Single
  <2>5. PICK k : k = c \o z
    OBVIOUS
  <2>6. Concat(c, z, k) /\ Concat(k, m, s) /\ Len(R) \in Nat
    <3>1. Concat(c, z, k)
      BY <2>1, <2>4, <2>5, ConcatOps
    <3>2. k \in Seq(Op)
      BY <3>1 DEF Concat
    <3> QED BY <1>2, <1>3, <2>0, <2>2, <2>3, <2>5, <3>1, <3>2, ConcatOps
  <2>7. Len(k) = Len(R) + 1 /\ k[Len(R) + 1] = z[1]
    BY <2>1, <2>4, <2>6 DEF Concat
  <2>8. s \in Seq(Op) /\ Len(s) = Len(R) + 2 /\ s[Len(k) + 1] = m[1]
    BY <2>3, <2>6, <2>7 DEF Concat
  <2>9. s[Len(R) + 1] = k[Len(R) + 1] /\ Len(k) + 1 = Len(R) + 2
    BY <2>6, <2>7 DEF Concat
  <2>10. ASSUME NEW i \in 1 .. Len(R) PROVE s[i] = c[i]
    <3>1. i \in 1 .. Len(k) /\ i \in 1 .. Len(c)
      BY <2>1, <2>6, <2>7
    <3>2. s[i] = k[i]
      BY <2>6, <3>1 DEF Concat
    <3>3. k[i] = c[i]
      BY <2>6, <3>1 DEF Concat
    <3> QED BY <3>2, <3>3
  <2>11. \A i \in 1 .. Len(R) : s[i][1] = "config" /\ s[i][2] = R[i] /\ ~ s[i][3]
    BY <2>1, <2>10
  <2>12. s[Len(R) + 1] = z[1] /\ s[Len(R) + 2] = m[1]
    BY <2>7, <2>8, <2>9
  <2>13. s[Len(R) + 1][1] = "clear" /\ s[Len(R) + 2][1] = "map" /\ ~ s[Len(R) + 2][3]
    BY <2>3, <2>4, <2>12
  <2> QED BY <2>8, <2>11, <2>13
<1>5. \A i \in 1 .. Len(s) : i \in 1 .. Len(R) \/ i = Len(R) + 1 \/ i = Len(R) + 2
  BY <1>3, <1>4
<1>6. Len(R) + 1 \in 1 .. Len(s) /\ Len(R) + 2 \in 1 .. Len(s) /\ 1 .. Len(R) \subseteq 1 .. Len(s)
  BY <1>3, <1>4
<1>7. LeadsToDetectors(s, D, ty, FALSE)
  <2> SUFFICES ASSUME NEW r \in Detectors
               PROVE  ~ \/ r \in D /\ \A i \in 1 .. Len(s) : ~ Off(s[i], r)
                        \/ \E i \in 1 .. Len(s) : On(s[i], r)
    BY DEF LeadsToDetectors
  <2>1. \A i \in 1 .. Len(s) : ~ On(s[i], r)
    BY <1>4, <1>5 DEF On
  <2>2. r \in D => \E i \in 1 .. Len(s) : Off(s[i], r)
    BY <1>3, <1>4, <1>6 DEF Off
  <2> QED BY <2>1, <2>2
<1>8. LeadsToType(s, ty, ty)
  BY <1>4, <1>5 DEF LeadsToType
<1>9. LeadsToMap(s, e, FALSE)
  BY <1>4, <1>5, <1>6 DEF LeadsToMap
<1>10. InOrder(s)
  BY <1>3, <1>4, <1>5 DEF InOrder
<1>11. Covered(s, D, e, ev)
  BY <1>4, <1>5, <1>6 DEF Covered
<1>12. s # <<>>
  BY <1>3, <1>4
<1> QED BY <1>2, <1>4, <1>7, <1>8, <1>9, <1>10, <1>11, <1>12 DEF Leads

\* From one edge to both or back, one register is changed.
EdgeOps(o, b, type, f) == SetType(o) \o irq_config(o, b) \o SetType(type) \o FlowOp(f)
LEMMA EdgeSeq ==
    ASSUME NEW o \in {"rising", "falling"}, NEW type \in Types, NEW b \in BOOLEAN, NEW f \in BOOLEAN, NEW s,
           s = EdgeOps(o, b, type, f)
    PROVE  /\ s \in Seq(Op) /\ Len(s) = 4
           /\ s[1][1] = "type" /\ s[3][1] = "type" /\ s[3][2] = type /\ s[4][1] = "flow"
           /\ s[2][1] = "config" /\ (s[2][3] <=> b)
           /\ s[2][2] = IF o = "rising" THEN "GPREN" ELSE "GPFEN"
<1>1. PICK A, B, C, E : /\ A = SetType(o) /\ B = irq_config(o, b) /\ C = SetType(type)
                        /\ E = FlowOp(f)
  OBVIOUS
<1>2. /\ A \in Seq(Op) /\ Len(A) = 1 /\ A[1][1] = "type"
      /\ C \in Seq(Op) /\ Len(C) = 1 /\ C[1][1] = "type" /\ C[1][2] = type
      /\ E \in Seq(Op) /\ Len(E) = 1 /\ E[1][1] = "flow"
  <2>1. o \in Types
    BY DEF Types
  <2>2. Single(A, "type", o, TRUE) /\ Single(C, "type", type, TRUE)
    BY <1>1, <2>1, SingleOps
  <2>3. Single(E, "flow", "", f)
    BY <1>1, SingleOps
  <2> QED BY <2>2, <2>3 DEF Single
<1>3. /\ B \in Seq(Op) /\ Len(B) = 1 /\ B[1][1] = "config" /\ (B[1][3] <=> b)
      /\ B[1][2] = IF o = "rising" THEN "GPREN" ELSE "GPFEN"
  <2>1. o \in Types /\ Regs[o] = IF o = "rising" THEN <<"GPREN">> ELSE <<"GPFEN">>
    BY DEF Types, Regs
  <2>2. Len(Regs[o]) = 1 /\ Regs[o][1] = IF o = "rising" THEN "GPREN" ELSE "GPFEN"
    BY <2>1
  <2>3. /\ B \in Seq(Op) /\ Len(B) = Len(Regs[o])
        /\ \A i \in 1 .. Len(Regs[o]) : B[i][1] = "config" /\ B[i][2] = Regs[o][i] /\ (B[i][3] <=> b)
    <3>1. ConfigOps(B, o, b)
      BY <1>1, <2>1, ConfigSeq
    <3> QED BY <3>1 DEF ConfigOps
  <2>4. 1 \in 1 .. Len(Regs[o])
    BY <2>2
  <2> QED BY <2>2, <2>3, <2>4
<1>4. PICK k : k = A \o B
  OBVIOUS
<1>5. PICK m : m = k \o C
  OBVIOUS
<1>6. Concat(A, B, k)
  BY <1>2, <1>3, <1>4, ConcatOps
<1>7. k \in Seq(Op) /\ Len(k) = 2 /\ k[1] = A[1] /\ k[2] = B[1]
  BY <1>2, <1>3, <1>6 DEF Concat
<1>8. Concat(k, C, m)
  BY <1>2, <1>5, <1>7, ConcatOps
<1>9. m \in Seq(Op) /\ Len(m) = 3 /\ m[1] = A[1] /\ m[2] = B[1] /\ m[3] = C[1]
  BY <1>2, <1>7, <1>8 DEF Concat
<1>10. Concat(m, E, s)
  BY <1>1, <1>2, <1>4, <1>5, <1>9, ConcatOps DEF EdgeOps
<1>11. s \in Seq(Op) /\ Len(s) = 4 /\ s[1] = A[1] /\ s[2] = B[1] /\ s[3] = C[1] /\ s[4] = E[1]
  <2>1. s \in Seq(Op) /\ Len(s) = 3 + 1 /\ s[3 + 1] = E[1]
    BY <1>2, <1>9, <1>10 DEF Concat
  <2>2. s[1] = m[1] /\ s[2] = m[2] /\ s[3] = m[3]
    BY <1>9, <1>10 DEF Concat
  <2> QED BY <1>9, <2>1, <2>2
<1> QED BY <1>2, <1>3, <1>11

\* Otherwise the old registers are turned off and the new ones on.
NumRegs(ty) == Len(Regs[ty])
SwapOps(cur, type, f) == irq_config(cur, FALSE) \o SetType(type) \o irq_config(type, TRUE) \o FlowOp(f)
Swapped(s, n, m, A, C, type) ==
    /\ s \in Seq(Op) /\ Len(s) = n + m + 2
    /\ \A i \in 1 .. n : s[i][1] = "config" /\ s[i][2] = A[i] /\ ~ s[i][3]
    /\ s[n + 1][1] = "type" /\ s[n + 1][2] = type
    /\ \A i \in 1 .. m : s[n + 1 + i][1] = "config" /\ s[n + 1 + i][2] = C[i] /\ s[n + 1 + i][3]
    /\ s[n + m + 2][1] = "flow"

LEMMA SwapSeq ==
    ASSUME NEW cur \in Types, NEW type \in Types, NEW f \in BOOLEAN, NEW s, NEW n \in Nat, NEW m \in Nat,
           n = NumRegs(cur), m = NumRegs(type),
           s = SwapOps(cur, type, f)
    PROVE  Swapped(s, n, m, Regs[cur], Regs[type], type)
<1>1. PICK A, B, C, E : /\ A = irq_config(cur, FALSE) /\ B = SetType(type) /\ C = irq_config(type, TRUE)
                        /\ E = FlowOp(f)
  OBVIOUS
<1>3. n \in Nat /\ m \in Nat
  OBVIOUS
<1>4. /\ B \in Seq(Op) /\ Len(B) = 1 /\ B[1][1] = "type" /\ B[1][2] = type
      /\ E \in Seq(Op) /\ Len(E) = 1 /\ E[1][1] = "flow"
  <2>1. Single(B, "type", type, TRUE)
    BY <1>1, SingleOps
  <2>2. Single(E, "flow", "", f)
    BY <1>1, SingleOps
  <2> QED BY <2>1, <2>2 DEF Single
<1>5. /\ A \in Seq(Op) /\ Len(A) = n
      /\ \A i \in 1 .. n : A[i][1] = "config" /\ A[i][2] = Regs[cur][i] /\ ~ A[i][3]
  <2>1. ConfigOps(A, cur, FALSE)
    BY <1>1, ConfigSeq
  <2> QED BY <2>1 DEF ConfigOps, NumRegs
<1>6. /\ C \in Seq(Op) /\ Len(C) = m
      /\ \A i \in 1 .. m : C[i][1] = "config" /\ C[i][2] = Regs[type][i] /\ C[i][3]
  <2>1. ConfigOps(C, type, TRUE)
    BY <1>1, ConfigSeq
  <2> QED BY <2>1 DEF ConfigOps, NumRegs
<1>7. PICK k : k = A \o B
  OBVIOUS
<1>8. PICK l : l = k \o C
  OBVIOUS
<1>9. Concat(A, B, k)
  BY <1>4, <1>5, <1>7, ConcatOps
<1>10. k \in Seq(Op) /\ Len(k) = n + 1 /\ k[n + 1] = B[1] /\ \A i \in 1 .. n : k[i] = A[i]
  BY <1>3, <1>4, <1>5, <1>9 DEF Concat
<1>11. Concat(k, C, l)
  BY <1>6, <1>8, <1>10, ConcatOps
<1>21. Len(A) = n /\ Len(C) = m /\ Len(k) = n + 1 /\ Len(E) = 1
  BY <1>4, <1>5, <1>6, <1>10
<1>22. l \in Seq(Op) /\ Len(l) = Len(k) + Len(C)
  BY <1>11 DEF Concat
<1>12. l \in Seq(Op) /\ Len(l) = n + m + 1
  <2>1. Len(l) = (n + 1) + m
    BY <1>21, <1>22
  <2>2. (n + 1) + m = n + m + 1
    BY <1>3
  <2> QED BY <1>22, <2>1, <2>2
<1>13. Concat(l, E, s)
  BY <1>1, <1>4, <1>7, <1>8, <1>12, ConcatOps DEF SwapOps
<1>14. s \in Seq(Op) /\ Len(s) = n + m + 2 /\ s[n + m + 1 + 1] = E[1]
  <2>1. s \in Seq(Op) /\ Len(s) = n + m + 1 + 1 /\ s[n + m + 1 + 1] = E[1]
    <3>1. s \in Seq(Op) /\ Len(s) = Len(l) + Len(E) /\ \A i \in 1 .. Len(E) : s[Len(l) + i] = E[i]
      BY <1>13 DEF Concat
    <3>2. s[Len(l) + 1] = E[1]
      BY <1>21, <3>1
    <3> QED BY <1>12, <1>21, <3>1, <3>2
  <2> QED BY <1>3, <2>1
<1>15. ASSUME NEW i \in 1 .. n + 1 PROVE s[i] = k[i]
  <2>1. i \in 1 .. Len(k) /\ i \in 1 .. Len(l)
    <3>1. i \in 1 .. n + 1 /\ i \in 1 .. n + m + 1
      BY <1>3
    <3> QED BY <1>12, <1>21, <3>1
  <2>2. s[i] = l[i]
    BY <1>13, <2>1 DEF Concat
  <2>3. l[i] = k[i]
    BY <1>11, <2>1 DEF Concat
  <2> QED BY <2>2, <2>3
<1>16. ASSUME NEW i \in 1 .. m PROVE s[n + 1 + i] = C[i]
  <2>1. n + 1 + i \in 1 .. Len(l) /\ i \in 1 .. Len(C)
    <3>1. n + 1 + i \in 1 .. n + m + 1
      BY <1>3
    <3> QED BY <1>12, <1>21, <3>1
  <2>2. s[n + 1 + i] = l[n + 1 + i]
    BY <1>13, <2>1 DEF Concat
  <2>3. l[Len(k) + i] = C[i]
    BY <1>11, <2>1 DEF Concat
  <2> QED BY <1>10, <2>2, <2>3
<1>17. \A i \in 1 .. n : s[i][1] = "config" /\ s[i][2] = Regs[cur][i] /\ ~ s[i][3]
  <2> SUFFICES ASSUME NEW i \in 1 .. n PROVE s[i] = A[i]
    BY <1>5
  <2>1. i \in 1 .. n + 1
    BY <1>3
  <2> QED BY <1>10, <1>15, <2>1
<1>18. s[n + 1][1] = "type" /\ s[n + 1][2] = type
  <2>1. n + 1 \in 1 .. n + 1
    BY <1>3
  <2>2. s[n + 1] = B[1]
    BY <1>10, <1>15, <2>1
  <2> QED BY <1>4, <2>2
<1>19. \A i \in 1 .. m : s[n + 1 + i][1] = "config" /\ s[n + 1 + i][2] = Regs[type][i] /\ s[n + 1 + i][3]
  BY <1>6, <1>16
<1>20. s[n + m + 2][1] = "flow"
  <2>1. n + m + 1 + 1 = n + m + 2
    BY <1>3
  <2> QED BY <1>4, <1>14, <2>1
<1> QED BY <1>14, <1>17, <1>18, <1>19, <1>20 DEF Swapped

LEMMA FlowSeq ==
    ASSUME NEW f \in BOOLEAN, NEW s, s = << >> \o FlowOp(f)
    PROVE  s \in Seq(Op) /\ Len(s) = 1 /\ s[1][1] = "flow"
<1>1. PICK E : E = FlowOp(f)
  OBVIOUS
<1>2. E \in Seq(Op) /\ Len(E) = 1 /\ E[1][1] = "flow"
  BY <1>1, SingleOps DEF Single
<1>3. s = E
  BY <1>1, <1>2
<1> QED BY <1>2, <1>3

TypeOps(type, f) == SetType(type) \o FlowOp(f)
LEMMA TypeSeq ==
    ASSUME NEW type \in Types, NEW f \in BOOLEAN, NEW s, s = TypeOps(type, f)
    PROVE  /\ s \in Seq(Op) /\ Len(s) = 2
           /\ s[1][1] = "type" /\ s[1][2] = type /\ s[2][1] = "flow"
<1>1. PICK A, E : A = SetType(type) /\ E = FlowOp(f)
  OBVIOUS
<1>2. /\ A \in Seq(Op) /\ Len(A) = 1 /\ A[1][1] = "type" /\ A[1][2] = type
      /\ E \in Seq(Op) /\ Len(E) = 1 /\ E[1][1] = "flow"
  <2>1. Single(A, "type", type, TRUE) /\ Single(E, "flow", "", f)
    BY <1>1, SingleOps
  <2> QED BY <2>1 DEF Single
<1>3. Concat(A, E, s)
  BY <1>1, <1>2, ConcatOps DEF TypeOps
<1>4. s \in Seq(Op) /\ Len(s) = 2 /\ s[1] = A[1] /\ s[2] = E[1]
  BY <1>2, <1>3 DEF Concat
<1> QED BY <1>2, <1>4

\* What is left to show of operations that touch neither the map nor the event.
LEMMA LeadsPlain ==
    ASSUME NEW s \in Seq(Op), NEW D, NEW e \in BOOLEAN, NEW ev \in BOOLEAN, NEW ty, NEW T,
           \A i \in 1 .. Len(s) : s[i][1] \in {"config", "type", "flow"},
           \A i \in 1 .. Len(s) : s[i][1] = "config" => e,
           \A i, j \in 1 .. Len(s) : i < j /\ s[i][1] = "config" /\ s[j][1] = "config" => s[i][2] # s[j][2],
           ev \/ D # {} => e, LeadsToDetectors(s, D, T, e), LeadsToType(s, ty, T)
    PROVE  Leads(s, D, e, ty, ev, T, e)
<1>1. LeadsToMap(s, e, e)
  BY DEF LeadsToMap
<1>2. InOrder(s)
  BY DEF InOrder
<1>3. Covered(s, D, e, ev)
  BY DEF Covered
<1> QED BY <1>1, <1>2, <1>3 DEF Leads

LEMMA FlowLeads ==
    ASSUME NEW ty \in Types, NEW D \in SUBSET Detectors, NEW e \in BOOLEAN, NEW ev \in BOOLEAN,
           \A r \in Detectors : r \in D <=> r \in Range(Regs[ty]) /\ e, ev \/ D # {} => e,
           NEW s \in Seq(Op), Len(s) = 1, s[1][1] = "flow"
    PROVE  Leads(s, D, e, ty, ev, ty, e)
<1>1. \A i \in 1 .. Len(s) : s[i][1] = "flow"
  OBVIOUS
<1>2. LeadsToDetectors(s, D, ty, e)
  BY <1>1 DEF LeadsToDetectors, On, Off
<1>3. LeadsToType(s, ty, ty)
  BY <1>1 DEF LeadsToType
<1> QED BY <1>1, <1>2, <1>3, LeadsPlain

LEMMA TypeLeads ==
    ASSUME NEW ty \in Types, NEW D \in SUBSET Detectors, NEW e \in BOOLEAN, NEW ev \in BOOLEAN,
           \A r \in Detectors : r \in D <=> r \in Range(Regs[ty]) /\ e, ev \/ D # {} => e, ~ e,
           NEW type \in Types,
           NEW s \in Seq(Op), Len(s) = 2, s[1][1] = "type", s[1][2] = type, s[2][1] = "flow"
    PROVE  Leads(s, D, e, ty, ev, type, e)
<1>1. \A i \in 1 .. Len(s) : i = 1 \/ i = 2
  OBVIOUS
<1>2. \A i \in 1 .. Len(s) : s[i][1] \in {"type", "flow"}
  BY <1>1
<1>3. LeadsToDetectors(s, D, type, e)
  BY <1>2 DEF LeadsToDetectors, On, Off
<1>4. LeadsToType(s, ty, type)
  <2>1. 1 \in 1 .. Len(s)
    OBVIOUS
  <2> QED BY <1>1, <2>1 DEF LeadsToType
<1> QED BY <1>2, <1>3, <1>4, LeadsPlain

LEMMA EdgeLeads ==
    ASSUME NEW ty \in Types, NEW D \in SUBSET Detectors, NEW e \in BOOLEAN, NEW ev \in BOOLEAN,
           \A r \in Detectors : r \in D <=> r \in Range(Regs[ty]) /\ e, ev \/ D # {} => e, e,
           NEW type \in Types, NEW o \in {"rising", "falling"}, NEW b \in BOOLEAN,
           IF b THEN type = "both" /\ ty \in {"rising", "falling"} \ {o}
                ELSE ty = "both" /\ type \in {"rising", "falling"} \ {o},
           NEW s \in Seq(Op), Len(s) = 4,
           s[1][1] = "type", s[3][1] = "type", s[3][2] = type, s[4][1] = "flow",
           s[2][1] = "config", s[2][3] <=> b, s[2][2] = IF o = "rising" THEN "GPREN" ELSE "GPFEN"
    PROVE  Leads(s, D, e, ty, ev, type, e)
<1>1. 1 .. Len(s) = {1, 2, 3, 4}
  OBVIOUS
<1>2. /\ \A i \in 1 .. Len(s) : s[i][1] \in {"config", "type", "flow"}
      /\ \A i \in 1 .. Len(s) : s[i][1] = "config" => i = 2
  BY <1>1
<1>3. LeadsToDetectors(s, D, type, e)
  <2> SUFFICES ASSUME NEW r \in Detectors
               PROVE  r \in Range(Regs[type]) <=>
                         \/ r \in D /\ \A i \in 1 .. Len(s) : ~ Off(s[i], r)
                         \/ \E i \in 1 .. Len(s) : On(s[i], r)
    BY DEF LeadsToDetectors
  <2>1. (\A i \in 1 .. Len(s) : ~ Off(s[i], r)) <=> ~ Off(s[2], r)
    BY <1>1, <1>2 DEF Off
  <2>2. (\E i \in 1 .. Len(s) : On(s[i], r)) <=> On(s[2], r)
    BY <1>1, <1>2 DEF On
  <2>3. Off(s[2], r) <=> ~ b /\ r = IF o = "rising" THEN "GPREN" ELSE "GPFEN"
    BY DEF Off
  <2>4. On(s[2], r) <=> b /\ r = IF o = "rising" THEN "GPREN" ELSE "GPFEN"
    BY DEF On
  <2>5. r \in D <=> r \in Range(Regs[ty])
    OBVIOUS
  <2>6. CASE b
    <3>1. type = "both" /\ ty \in {"rising", "falling"} \ {o}
      BY <2>6
    <3> QED BY <2>1, <2>2, <2>3, <2>4, <2>5, <2>6, <3>1, RegsOf
  <2>7. CASE ~ b
    <3>1. ty = "both" /\ type \in {"rising", "falling"} \ {o}
      BY <2>7
    <3> QED BY <2>1, <2>2, <2>3, <2>4, <2>5, <2>7, <3>1, RegsOf
  <2> QED BY <2>6, <2>7
<1>4. LeadsToType(s, ty, type)
  <2>1. ASSUME NEW i \in 1 .. Len(s), s[i][1] = "type", \A j \in i + 1 .. Len(s) : s[j][1] # "type"
        PROVE  s[i][2] = type
    <3>1. i = 1 \/ i = 3
      BY <1>1, <2>1
    <3>2. i # 1
      <4>1. 3 \in 1 + 1 .. Len(s)
        OBVIOUS
      <4> QED BY <2>1, <4>1
    <3> QED BY <3>1, <3>2
  <2>2. 1 \in 1 .. Len(s)
    OBVIOUS
  <2> QED BY <2>1, <2>2 DEF LeadsToType
<1>5. \A i, j \in 1 .. Len(s) : i < j /\ s[i][1] = "config" /\ s[j][1] = "config" => s[i][2] # s[j][2]
  BY <1>2
<1> QED BY <1>2, <1>3, <1>4, <1>5, LeadsPlain

\* No register goes with two types, but for one edge and both.
LEMMA RegsApart ==
    ASSUME NEW cur \in Types, NEW type \in Types, type # cur,
           ~ (type \in {"rising", "falling"} /\ cur = "both"), ~ (type = "both" /\ cur \in {"rising", "falling"})
    PROVE  \A r : ~ (r \in Range(Regs[cur]) /\ r \in Range(Regs[type]))
  BY RegsOf DEF Types

LEMMA SwapLeads ==
    ASSUME NEW ty \in Types, NEW D \in SUBSET Detectors, NEW e \in BOOLEAN, NEW ev \in BOOLEAN,
           \A r \in Detectors : r \in D <=> r \in Range(Regs[ty]) /\ e, ev \/ D # {} => e, e,
           NEW type \in Types, \A r : ~ (r \in Range(Regs[ty]) /\ r \in Range(Regs[type])),
           NEW f \in BOOLEAN, NEW s, s = SwapOps(ty, type, f)
    PROVE  s \in Seq(Op) /\ Len(s) >= 1 /\ Leads(s, D, e, ty, ev, type, e)
<1>1. PICK n \in Nat, m \in Nat : n = NumRegs(ty) /\ m = NumRegs(type)
  BY RegsFacts DEF NumRegs
<1>2. PICK A, C : A = Regs[ty] /\ C = Regs[type]
  OBVIOUS
<1>3. /\ s \in Seq(Op) /\ Len(s) = n + m + 2
      /\ \A i \in 1 .. n : s[i][1] = "config" /\ s[i][2] = A[i] /\ ~ s[i][3]
      /\ s[n + 1][1] = "type" /\ s[n + 1][2] = type
      /\ \A i \in 1 .. m : s[n + 1 + i][1] = "config" /\ s[n + 1 + i][2] = C[i] /\ s[n + 1 + i][3]
      /\ s[n + m + 2][1] = "flow"
  <2>1. Swapped(s, n, m, Regs[ty], Regs[type], type)
    BY <1>1, SwapSeq
  <2> QED BY <1>2, <2>1 DEF Swapped
<1>4. /\ \A i, j \in 1 .. n : i # j => A[i] # A[j]
      /\ \A i, j \in 1 .. m : i # j => C[i] # C[j]
      /\ \A r : r \in Range(Regs[ty]) <=> \E i \in 1 .. n : A[i] = r
      /\ \A r : r \in Range(Regs[type]) <=> \E i \in 1 .. m : C[i] = r
  <2>1. n = Len(A) /\ m = Len(C)
    BY <1>1, <1>2 DEF NumRegs
  <2>2. /\ \A i, j \in 1 .. Len(A) : i # j => A[i] # A[j]
        /\ \A r : r \in Range(Regs[ty]) <=> \E i \in 1 .. Len(A) : A[i] = r
    <3>1. /\ \A i, j \in 1 .. Len(Regs[ty]) : i # j => Regs[ty][i] # Regs[ty][j]
          /\ \A r : r \in Range(Regs[ty]) <=> \E i \in 1 .. Len(Regs[ty]) : Regs[ty][i] = r
      BY RegsFacts
    <3> QED BY <1>2, <3>1, Zenon
  <2>3. /\ \A i, j \in 1 .. Len(C) : i # j => C[i] # C[j]
        /\ \A r : r \in Range(Regs[type]) <=> \E i \in 1 .. Len(C) : C[i] = r
    <3>1. /\ \A i, j \in 1 .. Len(Regs[type]) : i # j => Regs[type][i] # Regs[type][j]
          /\ \A r : r \in Range(Regs[type]) <=> \E i \in 1 .. Len(Regs[type]) : Regs[type][i] = r
      BY RegsFacts
    <3> QED BY <1>2, <3>1, Zenon
  <2> QED BY <2>1, <2>2, <2>3
<1>5. \A i \in 1 .. n, j \in 1 .. m : A[i] # C[j]
  BY <1>4
<1>6. ASSUME NEW i \in 1 .. Len(s)
      PROVE  \/ i \in 1 .. n
             \/ i = n + 1
             \/ i - (n + 1) \in 1 .. m /\ i = n + 1 + (i - (n + 1))
             \/ i = n + m + 2
  <2>1. Len(s) = n + m + 2
    BY <1>3
  <2> QED BY <2>1
<1>7. /\ \A i \in 1 .. n : i \in 1 .. Len(s)
      /\ \A i \in 1 .. m : n + 1 + i \in 1 .. Len(s)
      /\ n + 1 \in 1 .. Len(s)
  <2>1. Len(s) = n + m + 2
    BY <1>3
  <2> QED BY <2>1
<1>8. ASSUME NEW i \in 1 .. Len(s)
      PROVE  \/ i \in 1 .. n /\ s[i][1] = "config" /\ s[i][2] = A[i] /\ ~ s[i][3]
             \/ i = n + 1 /\ s[i][1] = "type" /\ s[i][2] = type
             \/ /\ i > n + 1 /\ i - (n + 1) \in 1 .. m
                /\ s[i][1] = "config" /\ s[i][2] = C[i - (n + 1)] /\ s[i][3]
             \/ s[i][1] = "flow"
  <2>1. CASE i \in 1 .. n
    BY <1>3, <2>1
  <2>2. CASE i = n + 1
    BY <1>3, <2>2
  <2>3. CASE i - (n + 1) \in 1 .. m /\ i = n + 1 + (i - (n + 1))
    <3>1. i > n + 1
      BY <2>3
    <3>2. PICK x \in 1 .. m : x = i - (n + 1) /\ i = n + 1 + x
      BY <2>3
    <3>3. s[n + 1 + x][1] = "config" /\ s[n + 1 + x][2] = C[x] /\ s[n + 1 + x][3]
      BY <1>3
    <3> QED BY <3>1, <3>2, <3>3
  <2>4. CASE i = n + m + 2
    BY <1>3, <2>4
  <2> QED BY <1>6, <2>1, <2>2, <2>3, <2>4
<1>9. LeadsToDetectors(s, D, type, e)
  <2> SUFFICES ASSUME NEW r \in Detectors
               PROVE  r \in Range(Regs[type]) <=>
                         \/ r \in D /\ \A i \in 1 .. Len(s) : ~ Off(s[i], r)
                         \/ \E i \in 1 .. Len(s) : On(s[i], r)
    BY DEF LeadsToDetectors
  <2>1. ASSUME NEW i \in 1 .. Len(s), On(s[i], r) PROVE r \in Range(Regs[type])
    BY <1>4, <1>8, <2>1 DEF On
  <2>2. ASSUME r \in Range(Regs[type]) PROVE \E i \in 1 .. Len(s) : On(s[i], r)
    <3>1. PICK x \in 1 .. m : C[x] = r
      BY <1>4, <2>2
    <3>2. n + 1 + x \in 1 .. Len(s)
      BY <1>7
    <3>3. On(s[n + 1 + x], r)
      BY <1>3, <3>1 DEF On
    <3> QED BY <3>2, <3>3
  <2>3. ASSUME r \in D PROVE \E i \in 1 .. Len(s) : Off(s[i], r)
    <3>1. PICK x \in 1 .. n : A[x] = r
      BY <1>4, <2>3
    <3> QED BY <1>3, <1>7, <3>1 DEF Off
  <2> QED BY <2>1, <2>2, <2>3
<1>10. LeadsToType(s, ty, type)
  BY <1>3, <1>7, <1>8 DEF LeadsToType
<1>11. ASSUME NEW i \in 1 .. Len(s), NEW j \in 1 .. Len(s), i < j, s[i][1] = "config", s[j][1] = "config"
       PROVE  s[i][2] # s[j][2]
  <2>1. \/ i \in 1 .. n /\ s[i][2] = A[i]
        \/ i > n + 1 /\ i - (n + 1) \in 1 .. m /\ s[i][2] = C[i - (n + 1)]
    BY <1>8, <1>11, <1>3
  <2>2. \/ j \in 1 .. n /\ s[j][2] = A[j]
        \/ j > n + 1 /\ j - (n + 1) \in 1 .. m /\ s[j][2] = C[j - (n + 1)]
    BY <1>8, <1>11, <1>3
  <2>3. i - (n + 1) # j - (n + 1) /\ i # j
    BY <1>11
  <2>4. ~ (i > n + 1 /\ j \in 1 .. n)
    BY <1>11
  <2> QED BY <1>4, <1>5, <2>1, <2>2, <2>3, <2>4, SMTT(30)
<1>12. \A i \in 1 .. Len(s) : s[i][1] \in {"config", "type", "flow"}
  BY <1>8
<1>13. Len(s) >= 1
  BY <1>3
<1>14. s \in Seq(Op)
  BY <1>3
<1>15. \A i, j \in 1 .. Len(s) : i < j /\ s[i][1] = "config" /\ s[j][1] = "config" => s[i][2] # s[j][2]
  BY <1>11
<1>16. Leads(s, D, e, ty, ev, type, e)
  BY <1>9, <1>10, <1>12, <1>14, <1>15, LeadsPlain
<1> QED BY <1>13, <1>14, <1>16

\* The sequences irq_set_type() may be.
Edges == {"rising", "falling"}
SetTypeOps(s, en, cur, type, f) ==
    \/ s = << >> \o FlowOp(f)
    \/ ~ en /\ type \in Types /\ s = TypeOps(type, f)
    \/ en /\ type \in Edges /\ cur = "both" /\ \E o \in Edges \ {type} : s = EdgeOps(o, FALSE, type, f)
    \/ en /\ type = "both" /\ cur \in Edges /\ \E o \in Edges \ {cur} : s = EdgeOps(o, TRUE, type, f)
    \/ /\ en /\ type \in Types \ {cur} /\ ~ (type \in Edges /\ cur = "both")
       /\ ~ (type = "both" /\ cur \in Edges) /\ s = SwapOps(cur, type, f)

LEMMA SetTypeShape ==
    ASSUME NEW p, NEW cur \in Types, cur = irq_type[p], NEW type, NEW f \in BOOLEAN, f <=> type \in EdgeTypes,
           NEW s, s = irq_set_type(p, type)
    PROVE  SetTypeOps(s, p \in enabled, cur, type, f)
<1>1. << <<"flow", "", type \in EdgeTypes>> >> = FlowOp(f)
  <2>1. (type \in EdgeTypes) = f
    OBVIOUS
  <2> QED BY <2>1 DEF FlowOp
<1>2. s = (IF p \in enabled THEN set_type_enabled(p, type) ELSE set_type_disabled(p, type)) \o FlowOp(f)
  BY <1>1 DEF irq_set_type
<1>3. CASE p \notin enabled
  BY <1>2, <1>3 DEF set_type_disabled, SetTypeOps, TypeOps
<1>4. CASE p \in enabled
  <2>1. s = set_type_enabled(p, type) \o FlowOp(f)
    BY <1>2, <1>4
  <2>2. CASE type \notin Types \/ type = cur
    BY <2>1, <2>2 DEF set_type_enabled, SetTypeOps
  <2>3. CASE type \in Edges /\ cur = "both"
    <3>1. type \in Types /\ type # cur
      BY <2>3 DEF Types, Edges
    <3>2. CASE type = "rising"
      <4>1. set_type_enabled(p, type) = SetType("falling") \o irq_config("falling", FALSE) \o SetType(type)
        BY <2>3, <3>1, <3>2 DEF set_type_enabled, Edges
      <4>2. s = EdgeOps("falling", FALSE, type, f) /\ "falling" \in Edges \ {type}
        BY <2>1, <3>2, <4>1 DEF EdgeOps, Edges
      <4> QED BY <1>4, <2>3, <4>2 DEF SetTypeOps
    <3>3. CASE type = "falling"
      <4>1. set_type_enabled(p, type) = SetType("rising") \o irq_config("rising", FALSE) \o SetType(type)
        BY <2>3, <3>1, <3>3 DEF set_type_enabled, Edges
      <4>2. s = EdgeOps("rising", FALSE, type, f) /\ "rising" \in Edges \ {type}
        BY <2>1, <3>3, <4>1 DEF EdgeOps, Edges
      <4> QED BY <1>4, <2>3, <4>2 DEF SetTypeOps
    <3> QED BY <2>3, <3>2, <3>3 DEF Edges
  <2>4. CASE type = "both" /\ cur \in Edges
    <3>1. type \in Types /\ type # cur /\ type \notin Edges
      BY <2>4 DEF Types, Edges
    <3>2. CASE cur = "rising"
      <4>1. set_type_enabled(p, type) = SetType("falling") \o irq_config("falling", TRUE) \o SetType(type)
        BY <2>4, <3>1, <3>2 DEF set_type_enabled, Edges
      <4>2. s = EdgeOps("falling", TRUE, type, f) /\ "falling" \in Edges \ {cur}
        BY <2>1, <3>2, <4>1 DEF EdgeOps, Edges
      <4> QED BY <1>4, <2>4, <4>2 DEF SetTypeOps
    <3>3. CASE cur = "falling"
      <4>1. set_type_enabled(p, type) = SetType("rising") \o irq_config("rising", TRUE) \o SetType(type)
        BY <2>4, <3>1, <3>3 DEF set_type_enabled, Edges
      <4>2. s = EdgeOps("rising", TRUE, type, f) /\ "rising" \in Edges \ {cur}
        BY <2>1, <3>3, <4>1 DEF EdgeOps, Edges
      <4> QED BY <1>4, <2>4, <4>2 DEF SetTypeOps
    <3> QED BY <2>4, <3>2, <3>3 DEF Edges
  <2>5. CASE type \in Types /\ type # cur /\ ~ (type \in Edges /\ cur = "both") /\ ~ (type = "both" /\ cur \in Edges)
    <3>1. set_type_enabled(p, type) = irq_config(cur, FALSE) \o SetType(type) \o irq_config(type, TRUE)
      BY <2>5 DEF set_type_enabled, Edges
    <3>2. s = SwapOps(cur, type, f)
      BY <2>1, <3>1 DEF SwapOps
    <3> QED BY <1>4, <2>5, <3>2 DEF SetTypeOps
  <2> QED BY <2>2, <2>3, <2>4, <2>5
<1> QED BY <1>3, <1>4

\* irq_set_type() leaves the pin enabled or disabled, as it was.
LEMMA SetTypeLeads ==
    ASSUME NEW cur \in Types, NEW D \in SUBSET Detectors, NEW e \in BOOLEAN, NEW ev \in BOOLEAN,
           \A r \in Detectors : r \in D <=> r \in Range(Regs[cur]) /\ e, ev \/ D # {} => e,
           NEW type, NEW f \in BOOLEAN, NEW s, SetTypeOps(s, e, cur, type, f)
    PROVE  s \in Seq(Op) /\ s # <<>> /\ Leading(s, D, e, cur, ev)
<1>5. \A r \in Detectors : r \in D <=> r \in Range(Regs[cur]) /\ e
  OBVIOUS
<1> DEFINE Good == s \in Seq(Op) /\ Len(s) >= 1 /\ \E T \in Types : Leads(s, D, e, cur, ev, T, e)
<1> SUFFICES Good
  <2>1. ASSUME Good PROVE s # <<>>
    BY <2>1
  <2> QED BY <2>1 DEF Leading
<1>6. CASE s = << >> \o FlowOp(f)
  <2>1. s \in Seq(Op) /\ Len(s) = 1 /\ s[1][1] = "flow"
    BY <1>6, FlowSeq
  <2>2. Leads(s, D, e, cur, ev, cur, e)
    BY <1>5, <2>1, FlowLeads
  <2> QED BY <2>1, <2>2
<1>7. CASE ~ e /\ type \in Types /\ s = TypeOps(type, f)
  <2>1. s \in Seq(Op) /\ Len(s) = 2 /\ s[1][1] = "type" /\ s[1][2] = type /\ s[2][1] = "flow"
    BY <1>7, TypeSeq
  <2>2. Leads(s, D, e, cur, ev, type, e)
    BY <1>5, <1>7, <2>1, TypeLeads
  <2> QED BY <1>7, <2>1, <2>2
<1>8. ASSUME e, NEW b \in BOOLEAN, NEW o \in Edges, s = EdgeOps(o, b, type, f),
             IF b THEN type = "both" /\ cur \in Edges \ {o} ELSE cur = "both" /\ type \in Edges \ {o}
      PROVE  Good
  <2>1. type \in Types /\ e
    BY <1>8 DEF Types, Edges
  <2>2. /\ s \in Seq(Op) /\ Len(s) = 4
        /\ s[1][1] = "type" /\ s[3][1] = "type" /\ s[3][2] = type /\ s[4][1] = "flow"
        /\ s[2][1] = "config" /\ (s[2][3] <=> b)
        /\ s[2][2] = IF o = "rising" THEN "GPREN" ELSE "GPFEN"
    BY <1>8, <2>1, EdgeSeq DEF Edges
  <2>3. Leads(s, D, e, cur, ev, type, e)
    BY ZenonT(40), <1>5, <1>8, <2>1, <2>2, EdgeLeads DEF Edges
  <2>4. s \in Seq(Op) /\ Len(s) = 4 /\ 4 >= 1
    BY <2>2
  <2>5. s \in Seq(Op) /\ Len(s) >= 1
    BY <2>4
  <2> QED BY <2>1, <2>3, <2>5
<1>9. CASE e /\ type \in Edges /\ cur = "both" /\ \E o \in Edges \ {type} : s = EdgeOps(o, FALSE, type, f)
  <2>1. PICK o \in Edges \ {type} : s = EdgeOps(o, FALSE, type, f)
    BY <1>9
  <2>2. o \in Edges /\ type \in Edges \ {o}
    BY <1>9
  <2> HIDE DEF Good
  <2> QED BY <1>8, <1>9, <2>1, <2>2
<1>10. CASE e /\ type = "both" /\ cur \in Edges /\ \E o \in Edges \ {cur} : s = EdgeOps(o, TRUE, type, f)
  <2>1. PICK o \in Edges \ {cur} : s = EdgeOps(o, TRUE, type, f)
    BY <1>10
  <2>2. o \in Edges /\ cur \in Edges \ {o}
    BY <1>10
  <2> HIDE DEF Good
  <2> QED BY <1>8, <1>10, <2>1, <2>2
<1>11. CASE /\ e /\ type \in Types \ {cur} /\ ~ (type \in Edges /\ cur = "both")
            /\ ~ (type = "both" /\ cur \in Edges) /\ s = SwapOps(cur, type, f)
  <2>1. type \in Types /\ type # cur /\ e
    BY <1>11
  <2>2. \A r : ~ (r \in Range(Regs[cur]) /\ r \in Range(Regs[type]))
    BY <1>11, <2>1, RegsApart DEF Edges
  <2>3. s \in Seq(Op) /\ Len(s) >= 1 /\ Leads(s, D, e, cur, ev, type, e)
    BY <1>5, <1>11, <2>1, <2>2, SwapLeads
  <2> QED BY <2>1, <2>3
<1> HIDE DEF Good
<1> QED BY <1>6, <1>7, <1>9, <1>10, <1>11 DEF SetTypeOps

LEMMA IrqFacts ==
    ASSUME case \in Cases
    PROVE  /\ "none" \notin Actor /\ Group \subseteq Actor /\ Thread \subseteq Actor
           /\ \A p \in case.pins : p \in Pin /\ p \in Nat /\ p \div 32 \in Bank
           /\ 0 \in Pin
<1>1. "none" \notin Actor /\ Group \subseteq Actor /\ Thread \subseteq Actor
  BY PinsTyped DEF Actor, Group
<1>2. \A p \in Pin : p \in Nat /\ p \div 32 \in 0 .. 1
  BY DEF Pin, BCM2835_NUM_GPIOS
<1>3. 0 \in Pin
  BY DEF Pin, BCM2835_NUM_GPIOS
<1> QED BY <1>1, <1>2, <1>3, PinsTyped DEF Bank

LEMMA IrqInitInv == ASSUME case \in Cases, IrqInit PROVE IrqInv
<1>1. NoOps \in IState /\ HIdle \in HState
  <2>1. << >> \in Seq(Op) /\ << >> \in Seq(SUBSET Pin)
    OBVIOUS
  <2>2. 0 \in Pin
    BY IrqFacts
  <2> QED BY <2>1, <2>2 DEF NoOps, HIdle, IState, HState
<1>2. events \subseteq case.pins /\ det \in [Detectors -> SUBSET case.pins]
  BY DEF IrqInit
<1>3. irq_type \in [case.pins -> Types]
  BY DEF IrqInit, Types
<1>4. IrqTypes
  BY <1>1, <1>2, <1>3 DEF IrqInit, IrqTypes
<1>5. \A a \in Actor : ith[a].ops = <<>> /\ ~ ith[a].reading
  BY DEF IrqInit, NoOps
<1>6. (\A b \in Bank : irq_lock[b] = "none") /\ \A g \in Group : hnd[g].pc = "idle"
  BY DEF IrqInit, HIdle
<1>7. IrqLocks
  BY <1>5, <1>6 DEF IrqLocks
<1>8. IrqHandlers
  BY <1>5, <1>6, IrqFacts DEF IrqHandlers
<1>9. IrqProbe
  BY <1>6 DEF IrqProbe, IrqInit
<1>10. \A p \in case.pins : IrqPin(p)
  BY DEF IrqPin, IrqInit
<1> QED BY <1>4, <1>7, <1>8, <1>9, <1>10 DEF IrqInv

\* A pin for which nothing changes but that an event may be latched or cleared.
LEMMA PinFrame ==
    ASSUME NEW p, IrqPin(p), probe' = probe, Rest(p)' = Rest(p), Detecting(p)' = Detecting(p),
           p \in enabled' <=> p \in enabled, irq_type'[p] = irq_type[p],
           p \in events' => p \in events \/ Detecting(p) # {}
    PROVE  IrqPin(p)'
<1> SUFFICES ASSUME probe = "ready" PROVE IrqPin(p)'
  BY DEF IrqPin
<1>1. PICK D \in SUBSET Detectors, e \in BOOLEAN, ty \in Types, ev \in BOOLEAN, T \in Types, en \in BOOLEAN :
          PinIs(p, D, e, ty, ev) /\ Leads(Rest(p), D, e, ty, ev, T, en)
  BY DEF IrqPin
<1>2. PICK ev2 \in BOOLEAN : ev2 <=> p \in events'
  BY Zenon
<1>3. PICK s : s = Rest(p)
  OBVIOUS
<1>4. ev2 => ev \/ D # {}
  BY <1>1, <1>2 DEF PinIs
<1>5. Leads(s, D, e, ty, ev2, T, en)
  BY <1>1, <1>3, <1>4, LeadsEvent
<1>6. PinIs(p, D, e, ty, ev2)'
  BY <1>1, <1>2 DEF PinIs
<1>7. Leads(Rest(p)', D, e, ty, ev2, T, en)
  BY <1>3, <1>5
<1> QED BY <1>6, <1>7 DEF IrqPin

\* With the lock free there is nothing left to do on the pin.
LEMMA PinIdle ==
    ASSUME NEW p \in case.pins, IrqPin(p), probe = "ready", Rest(p) = <<>>
    PROVE  \E D \in SUBSET Detectors, e \in BOOLEAN, ty \in Types, ev \in BOOLEAN :
               /\ PinIs(p, D, e, ty, ev) /\ (ev \/ D # {} => e)
               /\ \A r \in Detectors : r \in D <=> r \in Range(Regs[ty]) /\ e
<1>1. PICK D \in SUBSET Detectors, e \in BOOLEAN, ty \in Types, ev \in BOOLEAN, T \in Types, en \in BOOLEAN :
          PinIs(p, D, e, ty, ev) /\ Leads(<<>>, D, e, ty, ev, T, en)
  BY DEF IrqPin
<1>2. /\ ty = T /\ (e <=> en) /\ (ev \/ D # {} => e)
      /\ \A r \in Detectors : r \in D <=> r \in Range(Regs[T]) /\ en
  BY <1>1, LeadsEmpty
<1>3. \A r \in Detectors : r \in D <=> r \in Range(Regs[ty]) /\ e
  BY <1>2
<1> QED BY <1>1, <1>2, <1>3

\* The three operations on a pin, and what they lead to.
LEMMA CallLeads ==
    ASSUME case \in Cases, IrqInv, probe = "ready", NEW p \in case.pins, irq_lock[p \div 32] = "none", NEW ops,
           \/ ops = irq_enable(p)
           \/ ops = irq_disable(p)
           \/ \E type : ops = irq_set_type(p, type)
    PROVE  /\ ops \in Seq(Op) /\ ops # <<>>
           /\ \E D \in SUBSET Detectors, e \in BOOLEAN, ty \in Types, ev \in BOOLEAN, T \in Types, en \in BOOLEAN :
                 PinIs(p, D, e, ty, ev) /\ Leads(ops, D, e, ty, ev, T, en)
<1>1. Rest(p) = <<>> /\ IrqPin(p)
  BY DEF IrqInv, Rest
<1>2. PICK D \in SUBSET Detectors, e \in BOOLEAN, ty \in Types, ev \in BOOLEAN :
          /\ PinIs(p, D, e, ty, ev) /\ (ev \/ D # {} => e)
          /\ \A r \in Detectors : r \in D <=> r \in Range(Regs[ty]) /\ e
  BY <1>1, PinIdle
<1>3. irq_type[p] = ty /\ (e <=> p \in enabled)
  BY <1>2 DEF PinIs
<1>4. CASE ops = irq_enable(p)
  <2>1. ops = Map(TRUE) \o irq_config(ty, TRUE)
    BY <1>3, <1>4 DEF irq_enable
  <2>2. ops \in Seq(Op) /\ ops # <<>> /\ Leads(ops, D, e, ty, ev, ty, TRUE)
    BY <1>2, <2>1, EnableLeads
  <2> QED BY <1>2, <2>2
<1>5. CASE ops = irq_disable(p)
  <2>1. ops = irq_config(ty, FALSE) \o Clear \o Map(FALSE)
    BY <1>3, <1>5 DEF irq_disable
  <2>2. ops \in Seq(Op) /\ ops # <<>> /\ Leads(ops, D, e, ty, ev, ty, FALSE)
    BY <1>2, <2>1, DisableLeads
  <2> QED BY <1>2, <2>2
<1>6. ASSUME NEW type, ops = irq_set_type(p, type)
      PROVE  /\ ops \in Seq(Op) /\ ops # <<>>
             /\ Leading(ops, D, e, ty, ev)
  <2>1. PICK f \in BOOLEAN : f <=> type \in EdgeTypes
    BY Zenon
  <2>2. SetTypeOps(ops, p \in enabled, ty, type, f)
    BY <1>3, <1>6, <2>1, SetTypeShape
  <2>3. SetTypeOps(ops, e, ty, type, f)
    BY <1>3, <2>2 DEF SetTypeOps
  <2> QED BY <1>2, <2>3, SetTypeLeads
<1> QED BY <1>2, <1>4, <1>5, <1>6 DEF Leading

\* Starting an operation: the invariant of the locks and pins.
LEMMA BeginCall ==
    ASSUME case \in Cases, IrqInv, probe = "ready", NEW a \in Actor, NEW p \in case.pins, NEW ops,
           ops = irq_enable(p) \/ ops = irq_disable(p) \/ (\E type : ops = irq_set_type(p, type)),
           ith[a].ops = <<>>, Begin(a, p, ops), UNCHANGED <<case, probe, det, events, enabled, irq_type>>
    PROVE  /\ irq_lock' \in [Bank -> Actor \cup {"none"}] /\ (ith \in [Actor -> IState])'
           /\ IrqLocks' /\ \A q \in case.pins : IrqPin(q)'
<1>10. irq_lock[p \div 32] = "none"
  BY DEF Begin
<1>11. /\ ops \in Seq(Op) /\ ops # <<>>
       /\ \E D \in SUBSET Detectors, e \in BOOLEAN, ty \in Types, ev \in BOOLEAN, T \in Types, en \in BOOLEAN :
             PinIs(p, D, e, ty, ev) /\ Leads(ops, D, e, ty, ev, T, en)
  BY <1>10, CallLeads
<1> SUFFICES ASSUME ops \in Seq(Op), ops # <<>>,
                    NEW D \in SUBSET Detectors, NEW e \in BOOLEAN, NEW ty \in Types, NEW ev \in BOOLEAN,
                    NEW T \in Types, NEW en \in BOOLEAN,
                    PinIs(p, D, e, ty, ev), Leads(ops, D, e, ty, ev, T, en)
             PROVE  /\ irq_lock' \in [Bank -> Actor \cup {"none"}] /\ (ith \in [Actor -> IState])'
                    /\ IrqLocks' /\ \A q \in case.pins : IrqPin(q)'
  BY ZenonT(40), <1>11
<1>0. PICK r : r = [NoOps EXCEPT !.pin = p, !.ops = ops]
  OBVIOUS
<1>1. /\ irq_lock \in [Bank -> Actor \cup {"none"}] /\ ith \in [Actor -> IState]
      /\ irq_lock[p \div 32] = "none"
      /\ irq_lock' = [irq_lock EXCEPT ![p \div 32] = a]
      /\ ith' = [ith EXCEPT ![a] = r]
  BY <1>0 DEF IrqInv, IrqTypes, Begin
<1>2. /\ p \in Pin /\ p \div 32 \in Bank /\ "none" \notin Actor
      /\ \A q \in case.pins : q \div 32 \in Bank
  BY IrqFacts
<1>3. irq_lock' \in [Bank -> Actor \cup {"none"}]
  BY <1>1
<1>4. (ith \in [Actor -> IState])'
  <2>1. r \in IState
    BY <1>0, <1>2 DEF NoOps, IState
  <2>2. ith' \in [Actor -> IState] /\ IState' = IState
    BY <1>1, <2>1 DEF IState
  <2> QED BY <2>2
<1>9. r.pin = p /\ r.ops = ops /\ ~ r.reading
  BY <1>0 DEF NoOps
<1>5. /\ ith'[a].pin = p /\ ith'[a].ops = ops /\ ~ ith'[a].reading
      /\ \A x \in Actor : x # a => ith'[x] = ith[x]
      /\ irq_lock'[p \div 32] = a
      /\ \A b \in Bank : b # p \div 32 => irq_lock'[b] = irq_lock[b]
  BY <1>1, <1>2, <1>9
<1>6. \A b \in Bank : irq_lock[b] # a
  BY <1>2 DEF IrqInv, IrqLocks
<1>7. IrqLocks'
  <2>1. ASSUME NEW x \in Actor, ith'[x].ops # <<>> PROVE ith'[x].pin \in case'.pins /\ irq_lock'[ith'[x].pin \div 32] = x
    <3>1. CASE x = a
      BY <1>5, <3>1
    <3>2. CASE x # a
      <4>1. ith'[x] = ith[x]
        BY <1>5, <3>2
      <4>2. ith[x].pin \in case.pins /\ irq_lock[ith[x].pin \div 32] = x
        BY <2>1, <4>1 DEF IrqInv, IrqLocks
      <4>3. ith[x].pin \div 32 # p \div 32
        BY <1>1, <1>2, <4>2
      <4> QED BY <1>2, <1>5, <4>1, <4>2, <4>3
    <3> QED BY <3>1, <3>2
  <2>2. ASSUME NEW b \in Bank, irq_lock'[b] # "none"
        PROVE  ith'[irq_lock'[b]].ops # <<>> /\ ith'[irq_lock'[b]].pin \div 32 = b
    <3>1. CASE b = p \div 32
      BY <1>5, <3>1
    <3>2. CASE b # p \div 32
      <4>1. irq_lock'[b] = irq_lock[b] /\ irq_lock[b] \in Actor /\ irq_lock[b] # a
        BY <1>1, <1>5, <1>6, <2>2, <3>2
      <4>2. ith[irq_lock[b]].ops # <<>> /\ ith[irq_lock[b]].pin \div 32 = b
        BY <2>2, <4>1 DEF IrqInv, IrqLocks
      <4> QED BY <1>5, <4>1, <4>2
    <3> QED BY <3>1, <3>2
  <2>3. ASSUME NEW x \in Actor, ith'[x].reading
        PROVE  (/\ ith[x].ops # <<>> /\ ith[x].ops[1][1] = "config"
                /\ ith[x].tmp = det[ith[x].ops[1][2]] \cap GPIO_REG(ith[x].pin))'
    <3>1. x # a /\ ith'[x] = ith[x]
      BY <1>5, <2>3
    <3>2. ith[x].reading
      BY <2>3, <3>1
    <3>3. /\ ith[x].ops # <<>> /\ ith[x].ops[1][1] = "config"
          /\ ith[x].tmp = det[ith[x].ops[1][2]] \cap GPIO_REG(ith[x].pin)
      BY <3>2 DEF IrqInv, IrqLocks
    <3> QED BY <3>1, <3>3 DEF GPIO_REG
  <2> QED BY <2>1, <2>2, <2>3 DEF IrqLocks
<1>8. ASSUME NEW q \in case.pins PROVE IrqPin(q)'
  <2>1. IrqPin(q) /\ q \div 32 \in Bank
    BY <1>2 DEF IrqInv
  <2>2. Detecting(q)' = Detecting(q)
    BY DEF Detecting
  <2>3. CASE q = p
    <3>1. Rest(p)' = ops
      BY <1>2, <1>5 DEF Rest
    <3>2. PinIs(p, D, e, ty, ev)'
      BY <2>2, <2>3 DEF PinIs
    <3> QED BY <2>3, <3>1, <3>2 DEF IrqPin
  <2>4. CASE q # p
    <3>1. Rest(q)' = Rest(q)
      <4>1. CASE q \div 32 = p \div 32
        BY <1>1, <1>5, <2>4, <4>1 DEF Rest
      <4>2. CASE q \div 32 # p \div 32
        <5>1. irq_lock'[q \div 32] = irq_lock[q \div 32] /\ irq_lock[q \div 32] # a
          BY <1>5, <1>6, <2>1, <4>2
        <5>2. irq_lock[q \div 32] # "none" => ith'[irq_lock[q \div 32]] = ith[irq_lock[q \div 32]]
          BY <1>1, <1>5, <2>1, <5>1
        <5> QED BY <5>1, <5>2 DEF Rest
      <4> QED BY <4>1, <4>2
    <3> QED BY <2>1, <2>2, <3>1, PinFrame
  <2> QED BY <2>3, <2>4
<1> QED BY <1>3, <1>4, <1>7, <1>8

\* Putting the parts together when the probe has finished.
LEMMA IrqParts ==
    ASSUME case' = case, probe' = "ready",
           (det \in [Detectors -> SUBSET case.pins])', (events \subseteq case.pins)',
           (enabled \subseteq case.pins)', (irq_type \in [case.pins -> Types])',
           (irq_lock \in [Bank -> Actor \cup {"none"}])', (ith \in [Actor -> IState])', (hnd \in [Group -> HState])',
           IrqLocks', IrqHandlers', \A q \in case.pins : IrqPin(q)'
    PROVE  IrqInv'
<1>1. IrqTypes'
  BY DEF IrqTypes
<1>2. IrqProbe'
  BY DEF IrqProbe
<1> QED BY <1>1, <1>2 DEF IrqInv

LEMMA IrqCallStep ==
    ASSUME case \in Cases, case' = case, IrqInv, NEW t \in Thread, NEW p \in case.pins, IrqCall(t, p)
    PROVE  IrqInv'
<1>1. /\ probe = "ready" /\ ith[t].ops = <<>> /\ UNCHANGED <<probe, det, events, enabled, irq_type, hnd>>
      /\ t \in Actor /\ t \notin Group
  BY IrqAssumption DEF IrqCall, Actor
<1>2. PICK ops : /\ Begin(t, p, ops)
                 /\ ops = irq_enable(p) \/ ops = irq_disable(p) \/ (\E type : ops = irq_set_type(p, type))
  BY DEF IrqCall
<1>3. /\ irq_lock' \in [Bank -> Actor \cup {"none"}] /\ (ith \in [Actor -> IState])'
      /\ IrqLocks' /\ \A q \in case.pins : IrqPin(q)'
  BY <1>1, <1>2, BeginCall
<1>4. IrqHandlers'
  <2>1. \A g \in Group : ith'[g] = ith[g]
    BY <1>1, <1>2 DEF Begin, IrqInv, IrqTypes, Actor
  <2> QED BY <1>1, <2>1 DEF IrqHandlers, IrqInv
<1>5. /\ (det \in [Detectors -> SUBSET case.pins])' /\ (events \subseteq case.pins)'
      /\ (enabled \subseteq case.pins)' /\ (irq_type \in [case.pins -> Types])' /\ (hnd \in [Group -> HState])'
  BY <1>1 DEF IrqInv, IrqTypes, HState
<1> QED BY <1>1, <1>3, <1>4, <1>5, IrqParts

\* An actor that has something to do holds the lock of its pin.
LEMMA Holder ==
    ASSUME case \in Cases, IrqInv, NEW a \in Actor, ith[a].ops # <<>>
    PROVE  /\ ith[a].pin \in case.pins /\ irq_lock[ith[a].pin \div 32] = a /\ probe = "ready"
           /\ Rest(ith[a].pin) = ith[a].ops /\ IrqPin(ith[a].pin) /\ ith[a].pin \div 32 \in Bank
           /\ ith[a].ops \in Seq(Op)
<1>1. ith[a].pin \in case.pins /\ irq_lock[ith[a].pin \div 32] = a
  BY DEF IrqInv, IrqLocks
<1>2. a # "none" /\ ith[a].pin \div 32 \in Bank
  BY <1>1, IrqFacts
<1>3. probe = "ready"
  BY <1>1, <1>2 DEF IrqInv, IrqProbe
<1>4. ith[a].ops \in Seq(Op)
  BY DEF IrqInv, IrqTypes, IState
<1> QED BY <1>1, <1>2, <1>3, <1>4 DEF IrqInv, Rest

LEMMA ReadStep ==
    ASSUME case \in Cases, case' = case, IrqInv, NEW a \in Actor, Read(a)
    PROVE  IrqInv'
<1>1. /\ ith[a].ops # <<>> /\ Head(ith[a].ops)[1] = "config"
      /\ UNCHANGED <<probe, det, events, enabled, irq_type, irq_lock, hnd>>
      /\ ith' = [ith EXCEPT ![a].reading = TRUE,
                            ![a].tmp = det[Head(ith[a].ops)[2]] \cap GPIO_REG(ith[a].pin)]
  BY DEF Read
<1>2. probe = "ready" /\ ith \in [Actor -> IState] /\ ith[a] \in IState /\ ith[a].ops \in Seq(Op)
  BY <1>1, Holder DEF IrqInv, IrqTypes
<1>3. Head(ith[a].ops) = ith[a].ops[1]
  BY <1>1, <1>2
<1>4. /\ ith'[a].pin = ith[a].pin /\ ith'[a].ops = ith[a].ops
      /\ ith'[a].tmp = det[ith[a].ops[1][2]] \cap GPIO_REG(ith[a].pin)
      /\ \A x \in Actor : x # a => ith'[x] = ith[x]
  BY <1>1, <1>2, <1>3 DEF IState
<1>5. (ith \in [Actor -> IState])'
  <2>1. det[Head(ith[a].ops)[2]] \cap GPIO_REG(ith[a].pin) \in SUBSET case.pins
    BY DEF GPIO_REG
  <2>2. IState' = IState
    BY DEF IState
  <2>3. ith' \in [Actor -> IState]
    BY <1>1, <1>2, <2>1 DEF IState
  <2> QED BY <2>2, <2>3
<1>6. \A x \in Actor : ith'[x].ops = ith[x].ops /\ ith'[x].pin = ith[x].pin
  BY <1>4
<1>7. IrqLocks'
  <2>1. ASSUME NEW x \in Actor, ith'[x].ops # <<>> PROVE ith'[x].pin \in case'.pins /\ irq_lock'[ith'[x].pin \div 32] = x
    BY <1>1, <1>6, <2>1 DEF IrqInv, IrqLocks
  <2>2. ASSUME NEW b \in Bank, irq_lock'[b] # "none"
        PROVE  ith'[irq_lock'[b]].ops # <<>> /\ ith'[irq_lock'[b]].pin \div 32 = b
    <3>1. irq_lock[b] \in Actor /\ irq_lock'[b] = irq_lock[b]
      BY <1>1, <2>2 DEF IrqInv, IrqTypes
    <3>2. ith[irq_lock[b]].ops # <<>> /\ ith[irq_lock[b]].pin \div 32 = b
      BY <2>2, <3>1 DEF IrqInv, IrqLocks
    <3> QED BY <1>6, <3>1, <3>2
  <2>3. ASSUME NEW x \in Actor, ith'[x].reading
        PROVE  (/\ ith[x].ops # <<>> /\ ith[x].ops[1][1] = "config"
                /\ ith[x].tmp = det[ith[x].ops[1][2]] \cap GPIO_REG(ith[x].pin))'
    <3>1. CASE x = a
      <4>1. ith[a].ops # <<>> /\ ith[a].ops[1][1] = "config" /\ det' = det
        BY <1>1, <1>3
      <4>2. ith'[a].ops # <<>> /\ ith'[a].ops[1][1] = "config"
        BY <1>4, <4>1
      <4>3. GPIO_REG(ith[a].pin)' = GPIO_REG(ith[a].pin)
        BY <1>4 DEF GPIO_REG
      <4>4. (ith[a].tmp = det[ith[a].ops[1][2]] \cap GPIO_REG(ith[a].pin))'
        BY SMTT(30), <1>4, <4>1, <4>3
      <4> QED BY <3>1, <4>2, <4>4
    <3>2. CASE x # a
      <4>1. ith'[x] = ith[x]
        BY <1>4, <3>2
      <4>2. /\ ith[x].ops # <<>> /\ ith[x].ops[1][1] = "config"
            /\ ith[x].tmp = det[ith[x].ops[1][2]] \cap GPIO_REG(ith[x].pin)
        BY <2>3, <4>1 DEF IrqInv, IrqLocks
      <4> QED BY <1>1, <4>1, <4>2 DEF GPIO_REG
    <3> QED BY <3>1, <3>2
  <2> QED BY <2>1, <2>2, <2>3 DEF IrqLocks
<1>8. IrqHandlers'
  BY <1>1, <1>6, IrqFacts DEF IrqInv, IrqHandlers
<1>9. ASSUME NEW q \in case.pins PROVE IrqPin(q)'
  <2>1. IrqPin(q) /\ q \div 32 \in Bank
    BY IrqFacts DEF IrqInv
  <2>2. irq_lock[q \div 32] # "none" => irq_lock[q \div 32] \in Actor
    BY <2>1 DEF IrqInv, IrqTypes
  <2>3. Rest(q)' = Rest(q)
    BY <1>1, <1>6, <2>2 DEF Rest
  <2>4. Detecting(q)' = Detecting(q)
    BY <1>1 DEF Detecting
  <2> QED BY <1>1, <2>1, <2>3, <2>4, PinFrame
<1>10. /\ (det \in [Detectors -> SUBSET case.pins])' /\ (events \subseteq case.pins)'
       /\ (enabled \subseteq case.pins)' /\ (irq_type \in [case.pins -> Types])' /\ (hnd \in [Group -> HState])'
       /\ (irq_lock \in [Bank -> Actor \cup {"none"}])'
  BY <1>1 DEF IrqInv, IrqTypes, HState
<1> QED BY <1>1, <1>2, <1>5, <1>7, <1>8, <1>9, <1>10, IrqParts

\* The detectors after an operation: those of other pins are what they were,
\* for what is written is what was read of them.
LEMMA DoDetect ==
    ASSUME case \in Cases, IrqInv, NEW a \in Actor, NEW p, p = ith[a].pin, ith[a].ops # <<>>,
           NEW o, o = ith[a].ops[1],
           o[1] = "config" => ith[a].reading,
           det' = IF o[1] = "config"
                  THEN [det EXCEPT ![o[2]] = (@ \ GPIO_REG(p)) \cup (IF o[3] THEN ith[a].tmp \cup {p} ELSE ith[a].tmp \ {p})]
                  ELSE det
    PROVE  /\ det' \in [Detectors -> SUBSET case.pins]
           /\ \A q \in case.pins, r \in Detectors : q # p => (q \in det'[r] <=> q \in det[r])
           /\ \A r \in Detectors : o[1] # "config" \/ r # o[2] => (p \in det'[r] <=> p \in det[r])
           /\ o[1] = "config" => o[2] \in Detectors /\ (p \in det'[o[2]] <=> o[3])
<1>1. p \in case.pins /\ ith[a].ops \in Seq(Op) /\ det \in [Detectors -> SUBSET case.pins]
  BY Holder DEF IrqInv, IrqTypes
<1>2. o \in Op
  <2>1. 1 \in 1 .. Len(ith[a].ops)
    BY <1>1
  <2> QED BY <1>1, <2>1, ElementOfSeq
<1>3. CASE o[1] # "config"
  <2>1. det' = det
    BY <1>3
  <2> QED BY <1>1, <1>3, <2>1
<1>4. CASE o[1] = "config"
  <2>1. o[2] \in Detectors /\ o[3] \in BOOLEAN
    BY <1>2, <1>4, OpParts
  <2>2. ith[a].reading
    BY <1>4
  <2>3. ith[a].tmp = det[o[2]] \cap GPIO_REG(p)
    BY <2>2 DEF IrqInv, IrqLocks
  <2>4. PICK W : W = (det[o[2]] \ GPIO_REG(p)) \cup (IF o[3] THEN ith[a].tmp \cup {p} ELSE ith[a].tmp \ {p})
    OBVIOUS
  <2>5. det' = [det EXCEPT ![o[2]] = W]
    BY <1>4, <2>4
  <2>6. GPIO_REG(p) \subseteq case.pins /\ p \in GPIO_REG(p)
    BY <1>1 DEF GPIO_REG
  <2>7. W \subseteq case.pins
    BY <1>1, <2>1, <2>3, <2>4, <2>6
  <2>8. \A q \in case.pins : q # p => (q \in W <=> q \in det[o[2]])
    BY <2>3, <2>4
  <2>9. p \in W <=> o[3]
    BY <2>4, <2>6
  <2>10. det' \in [Detectors -> SUBSET case.pins] /\ det'[o[2]] = W /\ \A r \in Detectors : r # o[2] => det'[r] = det[r]
    BY SMTT(30), <1>1, <2>1, <2>5, <2>7
  <2> QED BY <1>4, <2>1, <2>8, <2>9, <2>10
<1> QED BY <1>3, <1>4

LEMMA DoFacts ==
    ASSUME case \in Cases, IrqInv, NEW a \in Actor, Do(a)
    PROVE  \E p \in case.pins, s \in Seq(Op), o \in Op :
             /\ p = ith[a].pin /\ s = ith[a].ops /\ s # <<>> /\ o = s[1]
             /\ o[1] = "config" => ith[a].reading
             /\ det' = IF o[1] = "config"
                       THEN [det EXCEPT ![o[2]] = (@ \ GPIO_REG(p)) \cup (IF o[3] THEN ith[a].tmp \cup {p} ELSE ith[a].tmp \ {p})]
                       ELSE det
             /\ enabled' = IF o[1] = "map" THEN (IF o[3] THEN enabled \cup {p} ELSE enabled \ {p}) ELSE enabled
             /\ events' = IF o[1] = "clear" THEN events \ {p} ELSE events
             /\ irq_type' = IF o[1] = "type" THEN [irq_type EXCEPT ![p] = o[2]] ELSE irq_type
             /\ ith' = [ith EXCEPT ![a] = IF Tail(s) = <<>> THEN NoOps
                                          ELSE [NoOps EXCEPT !.pin = p, !.ops = Tail(s)]]
             /\ irq_lock' = IF Tail(s) = <<>> THEN [irq_lock EXCEPT ![p \div 32] = "none"] ELSE irq_lock
             /\ UNCHANGED <<probe, hnd>>
<1>1. ith[a].ops # <<>>
  BY DEF Do
<1>2. ith[a].pin \in case.pins /\ ith[a].ops \in Seq(Op)
  BY <1>1, Holder
<1>3. Head(ith[a].ops) = ith[a].ops[1] /\ 1 \in 1 .. Len(ith[a].ops)
  BY <1>1, <1>2
<1>4. ith[a].ops[1] \in Op
  BY <1>2, <1>3, ElementOfSeq
<1>5. PICK p \in case.pins, s \in Seq(Op), o \in Op : p = ith[a].pin /\ s = ith[a].ops /\ o = s[1] /\ o = Head(ith[a].ops)
  BY <1>2, <1>3, <1>4
<1>6. o[1] = "config" => ith[a].reading
  BY <1>5 DEF Do
<1>7. det' = IF o[1] = "config"
             THEN [det EXCEPT ![o[2]] = (@ \ GPIO_REG(p)) \cup (IF o[3] THEN ith[a].tmp \cup {p} ELSE ith[a].tmp \ {p})]
             ELSE det
  BY <1>5 DEF Do
<1>8. /\ enabled' = IF o[1] = "map" THEN (IF o[3] THEN enabled \cup {p} ELSE enabled \ {p}) ELSE enabled
      /\ events' = IF o[1] = "clear" THEN events \ {p} ELSE events
      /\ irq_type' = IF o[1] = "type" THEN [irq_type EXCEPT ![p] = o[2]] ELSE irq_type
      /\ UNCHANGED <<probe, hnd>>
  BY <1>5 DEF Do
<1>9. /\ ith' = [ith EXCEPT ![a] = IF Tail(s) = <<>> THEN NoOps
                                   ELSE [NoOps EXCEPT !.pin = p, !.ops = Tail(s)]]
      /\ irq_lock' = IF Tail(s) = <<>> THEN [irq_lock EXCEPT ![p \div 32] = "none"] ELSE irq_lock
  BY <1>5 DEF Do
<1> QED BY <1>1, <1>5, <1>6, <1>7, <1>8, <1>9

LEMMA DoStep ==
    ASSUME case \in Cases, case' = case, IrqInv, NEW a \in Actor, Do(a)
    PROVE  IrqInv'
<1>1. PICK p \in case.pins, s \in Seq(Op), o \in Op :
          /\ p = ith[a].pin /\ s = ith[a].ops /\ s # <<>> /\ o = s[1]
          /\ o[1] = "config" => ith[a].reading
          /\ det' = IF o[1] = "config"
                    THEN [det EXCEPT ![o[2]] = (@ \ GPIO_REG(p)) \cup (IF o[3] THEN ith[a].tmp \cup {p} ELSE ith[a].tmp \ {p})]
                    ELSE det
          /\ enabled' = IF o[1] = "map" THEN (IF o[3] THEN enabled \cup {p} ELSE enabled \ {p}) ELSE enabled
          /\ events' = IF o[1] = "clear" THEN events \ {p} ELSE events
          /\ irq_type' = IF o[1] = "type" THEN [irq_type EXCEPT ![p] = o[2]] ELSE irq_type
          /\ ith' = [ith EXCEPT ![a] = IF Tail(s) = <<>> THEN NoOps
                                       ELSE [NoOps EXCEPT !.pin = p, !.ops = Tail(s)]]
          /\ irq_lock' = IF Tail(s) = <<>> THEN [irq_lock EXCEPT ![p \div 32] = "none"] ELSE irq_lock
          /\ UNCHANGED <<probe, hnd>>
  BY DoFacts
<1>2. /\ irq_lock[p \div 32] = a /\ probe = "ready" /\ Rest(p) = s /\ IrqPin(p) /\ p \div 32 \in Bank /\ p \in Pin
      /\ "none" \notin Actor /\ \A q \in case.pins : q \div 32 \in Bank
  BY <1>1, Holder, IrqFacts
<1>3. PICK k \in Seq(Op) : k = Tail(s)
  BY <1>1, HeadTailProperties
<1>4. /\ det' \in [Detectors -> SUBSET case.pins]
      /\ \A q \in case.pins, r \in Detectors : q # p => (q \in det'[r] <=> q \in det[r])
      /\ \A r \in Detectors : o[1] # "config" \/ r # o[2] => (p \in det'[r] <=> p \in det[r])
      /\ o[1] = "config" => o[2] \in Detectors /\ (p \in det'[o[2]] <=> o[3])
  BY <1>1, DoDetect, SMTT(30)
<1>5. PICK n : n = IF k = <<>> THEN NoOps ELSE [NoOps EXCEPT !.pin = p, !.ops = k]
  OBVIOUS
<1>6. n \in IState /\ n.ops = k /\ ~ n.reading /\ (k # <<>> => n.pin = p)
  <2>1. CASE k = <<>>
    <3>1. n = NoOps /\ 0 \in Pin
      BY <1>5, <2>1, IrqFacts
    <3> QED BY <2>1, <3>1 DEF NoOps, IState
  <2>2. CASE k # <<>>
    <3>1. n = [NoOps EXCEPT !.pin = p, !.ops = k]
      BY <1>5, <2>2
    <3>2. n \in IState
      BY <1>2, <3>1 DEF NoOps, IState
    <3>3. n.ops = k /\ n.pin = p /\ ~ n.reading
      BY <3>1 DEF NoOps
    <3> QED BY <3>2, <3>3
  <2> QED BY <2>1, <2>2
<1>7. ith \in [Actor -> IState] /\ irq_lock \in [Bank -> Actor \cup {"none"}]
  BY DEF IrqInv, IrqTypes
<1>8. ith' = [ith EXCEPT ![a] = n] /\ irq_lock' = IF k = <<>> THEN [irq_lock EXCEPT ![p \div 32] = "none"] ELSE irq_lock
  BY <1>1, <1>3, <1>5
<1>9. /\ ith'[a] = n /\ \A x \in Actor : x # a => ith'[x] = ith[x]
      /\ irq_lock'[p \div 32] = IF k = <<>> THEN "none" ELSE a
      /\ \A b \in Bank : b # p \div 32 => irq_lock'[b] = irq_lock[b] /\ irq_lock[b] # a
  <2>1. ASSUME NEW b \in Bank, b # p \div 32 PROVE irq_lock[b] # a
    BY <1>1, <1>2, <2>1 DEF IrqInv, IrqLocks
  <2> QED BY <1>2, <1>7, <1>8, <2>1
<1>10. (ith \in [Actor -> IState])' /\ irq_lock' \in [Bank -> Actor \cup {"none"}]
  <2>1. IState' = IState
    BY DEF IState
  <2>2. ith' \in [Actor -> IState]
    BY <1>6, <1>7, <1>8
  <2>3. irq_lock' \in [Bank -> Actor \cup {"none"}]
    BY <1>7, <1>8
  <2> QED BY <2>1, <2>2, <2>3
<1>11. IrqLocks'
  <2>1. ASSUME NEW x \in Actor, ith'[x].ops # <<>> PROVE ith'[x].pin \in case'.pins /\ irq_lock'[ith'[x].pin \div 32] = x
    <3>1. CASE x = a
      BY <1>6, <1>9, <2>1, <3>1
    <3>2. CASE x # a
      <4>1. ith'[x] = ith[x]
        BY <1>9, <3>2
      <4>2. ith[x].pin \in case.pins /\ irq_lock[ith[x].pin \div 32] = x
        BY <2>1, <4>1 DEF IrqInv, IrqLocks
      <4>3. ith[x].pin \div 32 # p \div 32 /\ ith[x].pin \div 32 \in Bank
        BY <1>2, <3>2, <4>2
      <4> QED BY <1>9, <4>1, <4>2, <4>3
    <3> QED BY <3>1, <3>2
  <2>2. ASSUME NEW b \in Bank, irq_lock'[b] # "none"
        PROVE  ith'[irq_lock'[b]].ops # <<>> /\ ith'[irq_lock'[b]].pin \div 32 = b
    <3>1. CASE b = p \div 32
      BY <1>6, <1>9, <2>2, <3>1
    <3>2. CASE b # p \div 32
      <4>1. irq_lock'[b] = irq_lock[b] /\ irq_lock[b] \in Actor /\ irq_lock[b] # a
        BY <1>7, <1>9, <2>2, <3>2
      <4>2. ith[irq_lock[b]].ops # <<>> /\ ith[irq_lock[b]].pin \div 32 = b
        BY <2>2, <4>1 DEF IrqInv, IrqLocks
      <4> QED BY <1>9, <4>1, <4>2
    <3> QED BY <3>1, <3>2
  <2>3. ASSUME NEW x \in Actor, ith'[x].reading
        PROVE  (/\ ith[x].ops # <<>> /\ ith[x].ops[1][1] = "config"
                /\ ith[x].tmp = det[ith[x].ops[1][2]] \cap GPIO_REG(ith[x].pin))'
    <3>1. x # a /\ ith'[x] = ith[x]
      BY <1>6, <1>9, <2>3
    <3>2. /\ ith[x].ops # <<>> /\ ith[x].ops[1][1] = "config"
          /\ ith[x].tmp = det[ith[x].ops[1][2]] \cap GPIO_REG(ith[x].pin)
      BY <2>3, <3>1 DEF IrqInv, IrqLocks
    <3>3. PICK y, r : y = ith[x].pin /\ r = ith[x].ops[1][2]
      OBVIOUS
    <3>4. y \in case.pins /\ irq_lock[y \div 32] = x
      BY <3>2, <3>3 DEF IrqInv, IrqLocks
    <3>5. y \div 32 # p \div 32
      BY <1>2, <3>1, <3>4
    <3>6. r \in Detectors
      <4>1. ith[x].ops \in Seq(Op)
        BY <3>2, Holder
      <4>2. 1 \in 1 .. Len(ith[x].ops)
        BY <3>2, <4>1
      <4>3. ith[x].ops[1] \in Op
        BY <4>1, <4>2, ElementOfSeq
      <4> QED BY <3>2, <3>3, <4>3, OpParts
    <3>7. det'[r] \cap GPIO_REG(y) = det[r] \cap GPIO_REG(y)
      BY <1>4, <3>5, <3>6 DEF GPIO_REG
    <3>8. GPIO_REG(y)' = GPIO_REG(y)
      BY DEF GPIO_REG
    <3>9. ith[x].tmp = det'[r] \cap GPIO_REG(y)'
      BY <3>2, <3>3, <3>7, <3>8
    <3>10. (GPIO_REG(ith[x].pin))' = GPIO_REG(y)'
      BY <3>1, <3>3 DEF GPIO_REG
    <3> QED BY <3>1, <3>2, <3>3, <3>9, <3>10
  <2> QED BY <2>1, <2>2, <2>3 DEF IrqLocks
<1>12. IrqHandlers'
  <2>1. ASSUME NEW g \in Group, ith[g].ops = <<>> PROVE ith'[g].ops = <<>>
    BY <1>1, <1>9, <2>1, IrqFacts
  <2> QED BY <1>1, <2>1 DEF IrqInv, IrqHandlers
<1>13. /\ enabled' \subseteq case.pins /\ events' \subseteq case.pins /\ irq_type' \in [case.pins -> Types]
  <2>1. o[1] = "type" => o[2] \in Types
    BY OpParts
  <2>2. enabled \subseteq case.pins /\ events \subseteq case.pins /\ irq_type \in [case.pins -> Types]
    BY DEF IrqInv, IrqTypes
  <2>3. enabled' \subseteq case.pins /\ events' \subseteq case.pins
    BY <1>1, <2>2
  <2>4. irq_type' = IF o[1] = "type" THEN [irq_type EXCEPT ![p] = o[2]] ELSE irq_type
    BY <1>1
  <2>5. irq_type' \in [case.pins -> Types]
    BY <2>1, <2>2, <2>4
  <2> QED BY <2>3, <2>5
<1>14. IrqPin(p)'
  <2>1. PICK D \in SUBSET Detectors, e \in BOOLEAN, ty \in Types, ev \in BOOLEAN, T \in Types, en \in BOOLEAN :
            PinIs(p, D, e, ty, ev) /\ Leads(Rest(p), D, e, ty, ev, T, en)
    BY <1>2 DEF IrqPin
  <2>2. Leads(s, D, e, ty, ev, T, en)
    BY <1>2, <2>1
  <2>3. PICK D2 \in SUBSET Detectors : D2 = Detecting(p)'
    BY DEF Detecting
  <2>4. PICK e2 \in BOOLEAN, ev2 \in BOOLEAN : (e2 <=> p \in enabled') /\ (ev2 <=> p \in events')
    BY Zenon
  <2>5. PICK ty2 \in Types : ty2 = irq_type'[p]
    BY <1>13
  <2>6. D2 = IF s[1][1] = "config" THEN IF s[1][3] THEN D \cup {s[1][2]} ELSE D \ {s[1][2]} ELSE D
    <3>1. \A r \in Detectors : r \in D <=> p \in det[r]
      BY <2>1 DEF PinIs, Detecting
    <3>2. \A r \in Detectors : r \in D2 <=> p \in det'[r]
      BY <2>3 DEF Detecting
    <3>3. CASE o[1] # "config"
      <4>1. D2 = D
        BY <1>4, <3>1, <3>2, <3>3
      <4> QED BY <1>1, <3>3, <4>1
    <3>4. CASE o[1] = "config" /\ o[3]
      <4>1. D2 = D \cup {o[2]}
        BY <1>4, <3>1, <3>2, <3>4
      <4> QED BY <1>1, <3>4, <4>1
    <3>5. CASE o[1] = "config" /\ ~ o[3]
      <4>1. D2 = D \ {o[2]}
        BY <1>4, <3>1, <3>2, <3>5
      <4> QED BY <1>1, <3>5, <4>1
    <3> QED BY <3>3, <3>4, <3>5
  <2>7. e2 <=> IF s[1][1] = "map" THEN s[1][3] ELSE e
    BY <1>1, <2>1, <2>4 DEF PinIs
  <2>8. ev2 <=> IF s[1][1] = "clear" THEN FALSE ELSE ev
    BY <1>1, <2>1, <2>4 DEF PinIs
  <2>9. ty2 = IF s[1][1] = "type" THEN s[1][2] ELSE ty
    <3>1. irq_type \in [case.pins -> Types]
      BY DEF IrqInv, IrqTypes
    <3>2. irq_type' = IF o[1] = "type" THEN [irq_type EXCEPT ![p] = o[2]] ELSE irq_type
      BY <1>1
    <3>3. irq_type'[p] = IF o[1] = "type" THEN o[2] ELSE ty
      BY <2>1, <3>1, <3>2 DEF PinIs
    <3> QED BY <1>1, <2>5, <3>3
  <2>10. Leads(Tail(s), D2, e2, ty2, ev2, T, en)
    <3>1. s # <<>>
      BY <1>1
    <3>2. After(s[1], D, e, ty, ev, D2, e2, ty2, ev2)
      BY <2>6, <2>7, <2>8, <2>9 DEF After
    <3> QED BY <2>2, <3>1, <3>2, LeadsTail
  <2>11. Rest(p)' = k
    <3>1. CASE k = <<>>
      <4>1. irq_lock'[p \div 32] = "none"
        BY <1>9, <3>1
      <4> QED BY <3>1, <4>1 DEF Rest
    <3>2. CASE k # <<>>
      <4>1. irq_lock'[p \div 32] = a /\ a # "none" /\ ith'[a].pin = p /\ ith'[a].ops = k
        BY <1>2, <1>6, <1>9, <3>2
      <4> QED BY <4>1 DEF Rest
    <3> QED BY <3>1, <3>2
  <2>12. PinIs(p, D2, e2, ty2, ev2)'
    BY <2>3, <2>4, <2>5 DEF PinIs
  <2>13. Leads(Rest(p)', D2, e2, ty2, ev2, T, en)
    BY <1>3, <2>10, <2>11
  <2> QED BY <2>12, <2>13 DEF IrqPin
<1>15. ASSUME NEW q \in case.pins, q # p PROVE IrqPin(q)'
  <2>1. Rest(q)' = Rest(q)
    <3>1. CASE q \div 32 = p \div 32
      <4>1. Rest(q) = <<>>
        BY <1>1, <1>2, <1>15, <3>1 DEF Rest
      <4>2. irq_lock'[q \div 32] # "none" => irq_lock'[q \div 32] = a /\ ith'[a].pin = p
        BY <1>6, <1>9, <3>1
      <4>3. Rest(q)' = <<>>
        BY <1>15, <4>2 DEF Rest
      <4> QED BY <4>1, <4>3
    <3>2. CASE q \div 32 # p \div 32
      <4>1. irq_lock'[q \div 32] = irq_lock[q \div 32] /\ irq_lock[q \div 32] # a
        BY <1>2, <1>9, <3>2
      <4>2. irq_lock[q \div 32] # "none" => ith'[irq_lock[q \div 32]] = ith[irq_lock[q \div 32]]
        BY <1>2, <1>7, <1>9, <4>1
      <4> QED BY <4>1, <4>2 DEF Rest
    <3> QED BY <3>1, <3>2
  <2>2. Detecting(q)' = Detecting(q)
    BY <1>4, <1>15 DEF Detecting
  <2>3. (q \in enabled' <=> q \in enabled) /\ (q \in events' => q \in events)
    BY <1>1, <1>15
  <2>4. irq_type'[q] = irq_type[q]
    <3>1. irq_type \in [case.pins -> Types]
      BY DEF IrqInv, IrqTypes
    <3>2. irq_type' = IF o[1] = "type" THEN [irq_type EXCEPT ![p] = o[2]] ELSE irq_type
      BY <1>1
    <3> QED BY <1>15, <3>1, <3>2
  <2>5. IrqPin(q) /\ probe' = probe
    BY SMTT(30), <1>1 DEF IrqInv
  <2> QED BY <2>1, <2>2, <2>3, <2>4, <2>5, PinFrame
<1>16. /\ probe' = "ready" /\ (det \in [Detectors -> SUBSET case.pins])' /\ (events \subseteq case.pins)'
       /\ (enabled \subseteq case.pins)' /\ (irq_type \in [case.pins -> Types])'
  BY <1>1, <1>2, <1>4, <1>13
<1>17. (hnd \in [Group -> HState])'
  BY <1>1 DEF IrqInv, IrqTypes, HState
<1>18. \A q \in case.pins : IrqPin(q)'
  BY <1>14, <1>15
<1> QED BY <1>10, <1>11, <1>12, <1>16, <1>17, <1>18, IrqParts, SMTT(30)

\* Steps that leave the operations alone: events come and go, handlers go on.
LEMMA QuietStep ==
    ASSUME case \in Cases, case' = case, IrqInv,
           UNCHANGED <<probe, det, enabled, irq_type, irq_lock, ith>>,
           events' \subseteq case.pins,
           \A p \in case.pins : p \in events' => p \in events \/ Detecting(p) # {},
           hnd' \in [Group -> HState], IrqHandlers', probe # "ready" => hnd' = hnd
    PROVE  IrqInv'
<1>1. IState' = IState /\ HState' = HState
  BY DEF IState, HState
<1>2. IrqTypes'
  BY <1>1 DEF IrqInv, IrqTypes
<1>3. IrqLocks'
  BY DEF IrqInv, IrqLocks, GPIO_REG
<1>4. IrqProbe'
  BY DEF IrqInv, IrqProbe
<1>5. ASSUME NEW p \in case.pins PROVE IrqPin(p)'
  <2>1. Rest(p)' = Rest(p) /\ Detecting(p)' = Detecting(p)
    BY DEF Rest, Detecting
  <2>2. IrqPin(p)
    BY DEF IrqInv
  <2> QED BY <2>1, <2>2, PinFrame
<1> QED BY <1>2, <1>3, <1>4, <1>5 DEF IrqInv

LEMMA SameHandlers ==
    ASSUME IrqInv, case' = case, UNCHANGED <<ith, hnd>> PROVE hnd' \in [Group -> HState] /\ IrqHandlers'
  BY DEF IrqInv, IrqTypes, IrqHandlers

LEMMA ToggleStep ==
    ASSUME case \in Cases, case' = case, IrqInv, NEW p \in case.pins, Toggle(p) \/ Latch(p) PROVE IrqInv'
<1>1. UNCHANGED <<probe, det, enabled, irq_type, irq_lock, ith, hnd>>
  BY DEF Toggle, Latch
<1>2. PICK r1 \in Detectors, r2 \in Detectors :
          \/ events' = events \cup ({p} \cap (det[r1] \cup det[r2]))
          \/ p \in det[r1] /\ events' = events \cup {p}
  BY DEF Toggle, Latch, Detectors
<1>3. events \subseteq case.pins
  BY DEF IrqInv, IrqTypes
<1>4. events' \subseteq case.pins
  BY <1>2, <1>3
<1>5. \A q \in case.pins : q \in events' => q \in events \/ Detecting(q) # {}
  BY <1>2 DEF Detecting
<1> QED BY <1>1, <1>4, <1>5, SameHandlers, QuietStep

LEMMA ProbeStep ==
    ASSUME case \in Cases, case' = case, IrqInv, ProbeDetect \/ ProbeEvents PROVE IrqInv'
<1>1. UNCHANGED <<enabled, irq_type, irq_lock, ith, hnd>> /\ probe # "ready"
  BY DEF ProbeDetect, ProbeEvents
<1>2. /\ enabled = {} /\ (\A b \in Bank : irq_lock[b] = "none") /\ (\A g \in Group : hnd[g].pc = "idle")
      /\ probe = "off" => \A r \in Detectors : det[r] = {}
  BY <1>1 DEF IrqInv, IrqProbe
<1>3. \A a \in Actor : ith[a].ops = <<>> /\ ~ ith[a].reading
  BY <1>1, Holder DEF IrqInv, IrqLocks
<1>4. IrqLocks'
  BY <1>1, <1>2, <1>3 DEF IrqLocks
<1>5. hnd' \in [Group -> HState] /\ IrqHandlers'
  BY <1>1, SameHandlers
<1>6. det' \in [Detectors -> SUBSET case.pins] /\ events' \subseteq case.pins /\ probe' \in {"start", "off", "ready"}
  BY DEF ProbeDetect, ProbeEvents, IrqInv, IrqTypes
<1>7. IrqTypes'
  <2>1. IState' = IState /\ HState' = HState
    BY DEF IState, HState
  <2> QED BY <1>1, <1>5, <1>6, <2>1 DEF IrqInv, IrqTypes
<1>8. CASE ProbeDetect
  <2>1. probe' = "off" /\ det' = [r \in Detectors |-> {}]
    BY <1>8 DEF ProbeDetect
  <2>2. IrqProbe'
    BY <1>1, <1>2, <2>1 DEF IrqProbe
  <2>3. \A p \in case.pins : IrqPin(p)'
    BY <2>1 DEF IrqPin
  <2> QED BY <1>4, <1>5, <1>7, <2>2, <2>3 DEF IrqInv
<1>9. CASE ProbeEvents
  <2>1. probe = "off" /\ probe' = "ready" /\ events' = {} /\ det' = det
    BY <1>9 DEF ProbeEvents
  <2>2. IrqProbe'
    BY <2>1 DEF IrqProbe
  <2>3. ASSUME NEW p \in case.pins PROVE IrqPin(p)'
    <3>1. PICK D \in SUBSET Detectors, ty \in Types : D = {} /\ ty = irq_type[p]
      BY DEF IrqInv, IrqTypes
    <3>2. PICK e \in BOOLEAN : ~ e
      OBVIOUS
    <3>3. PinIs(p, D, e, ty, e)'
      BY <1>1, <1>2, <2>1, <3>1, <3>2 DEF PinIs, Detecting
    <3>4. Rest(p)' = <<>>
      <4>1. p \div 32 \in Bank
        BY IrqFacts
      <4> QED BY <1>1, <1>2, <4>1 DEF Rest
    <3>5. Leads(<<>>, D, e, ty, e, ty, e)
      BY <3>1, <3>2, LeadsEmpty
    <3>6. Leads(Rest(p)', D, e, ty, e, ty, e)
      BY <3>4, <3>5
    <3> QED BY <3>3, <3>6 DEF IrqPin
  <2> QED BY <1>4, <1>5, <1>7, <2>2, <2>3 DEF IrqInv
<1> QED BY <1>8, <1>9

LEMMA MinIn == ASSUME NEW S \in SUBSET Nat, S # {} PROVE Min(S) \in S
<1> DEFINE R == OpToRel(<, Nat)
<1>1. IsWellFoundedOn(R, Nat)
  BY NatLessThanWellFounded
<1>2. \A x, y \in Nat : <<x, y>> \in R <=> x < y
  BY DEF OpToRel
<1> HIDE DEF R
<1>3. PICK n \in S : \A y \in S : ~ (<<y, n>> \in R)
  BY <1>1, WFMin
<1>4. ASSUME NEW m \in S PROVE n <= m
  <2>1. m \in Nat /\ n \in Nat /\ ~ (<<m, n>> \in R)
    BY <1>3
  <2>2. ~ (m < n)
    BY <1>2, <2>1, Zenon
  <2> QED BY <2>1, <2>2
<1> QED BY <1>4 DEF Min

LEMMA HandlerEnterStep ==
    ASSUME case \in Cases, case' = case, IrqInv, NEW g \in Group, HandlerEnter(g) PROVE IrqInv'
<1>1. /\ UNCHANGED <<probe, det, events, enabled, irq_type, irq_lock, ith>> /\ hnd[g].pc = "idle" /\ probe = "ready"
      /\ hnd' = [hnd EXCEPT ![g] = [HIdle EXCEPT !.pc = "bank", !.parts = groups[g]]]
  BY DEF HandlerEnter
<1>2. PICK h : h = [HIdle EXCEPT !.pc = "bank", !.parts = groups[g]]
  OBVIOUS
<1>3. groups[g] \in Seq(SUBSET Pin)
  <2>1. 0 .. 27 \in SUBSET Pin /\ 28 .. 31 \in SUBSET Pin /\ 32 .. 45 \in SUBSET Pin /\ 46 .. 53 \in SUBSET Pin
    BY DEF Pin, BCM2835_NUM_GPIOS
  <2>2. \A x, y \in SUBSET Pin : <<x>> \in Seq(SUBSET Pin) /\ <<x, y>> \in Seq(SUBSET Pin)
    OBVIOUS
  <2>3. groups[g] = <<0 .. 27>> \/ groups[g] = <<28 .. 31, 32 .. 45>> \/ groups[g] = <<46 .. 53>>
    BY DEF groups, Group
  <2> QED BY <2>1, <2>2, <2>3
<1>4. 0 \in Pin
  BY IrqFacts
<1>5. h \in HState /\ h.pc = "bank"
  BY <1>2, <1>3, <1>4 DEF HIdle, HState
<1>6. hnd \in [Group -> HState] /\ events \subseteq case.pins
  BY DEF IrqInv, IrqTypes
<1>7. hnd' \in [Group -> HState] /\ hnd'[g].pc = "bank" /\ \A x \in Group : x # g => hnd'[x] = hnd[x]
  BY <1>1, <1>2, <1>5, <1>6
<1>8. IrqHandlers'
  BY <1>1, <1>7 DEF IrqInv, IrqHandlers
<1> QED BY <1>1, <1>6, <1>7, <1>8, QuietStep

LEMMA HandleBankStep ==
    ASSUME case \in Cases, case' = case, IrqInv, NEW g \in Group, HandleBank(g) PROVE IrqInv'
<1>1. UNCHANGED <<probe, det, events, enabled, irq_type, irq_lock, ith>> /\ hnd[g].pc = "bank"
  BY DEF HandleBank
<1>2. hnd \in [Group -> HState] /\ events \subseteq case.pins /\ hnd[g] \in HState
  BY DEF IrqInv, IrqTypes
<1>6. /\ hnd' \in [Group -> HState] /\ hnd'[g].pc \in {"idle", "pin"}
      /\ \A x \in Group : x # g => hnd'[x] = hnd[x]
  <2>1. CASE hnd[g].parts = <<>>
    <3>1. HIdle \in HState /\ HIdle.pc = "idle"
      <4>1. 0 \in Pin /\ << >> \in Seq(SUBSET Pin)
        BY IrqFacts
      <4> QED BY <4>1 DEF HIdle, HState
    <3>2. hnd' = [hnd EXCEPT ![g] = HIdle]
      BY <2>1 DEF HandleBank
    <3> QED BY <1>2, <3>1, <3>2
  <2>2. CASE hnd[g].parts # <<>>
    <3>1. hnd[g].parts \in Seq(SUBSET Pin)
      BY <1>2 DEF HState
    <3>2. PICK tl : tl = Tail(hnd[g].parts) /\ tl \in Seq(SUBSET Pin)
      BY <2>2, <3>1, HeadTailProperties
    <3>3. PICK ev : ev = events \cap enabled \cap Head(hnd[g].parts) /\ ev \in SUBSET case.pins
      BY <1>2
    <3>4. hnd' = [hnd EXCEPT ![g].pc = "pin", ![g].parts = tl, ![g].ev = ev]
      BY <2>2, <3>2, <3>3 DEF HandleBank
    <3> QED BY <1>2, <3>2, <3>3, <3>4 DEF HState
  <2> QED BY <2>1, <2>2
<1>7. IrqHandlers'
  BY <1>1, <1>6 DEF IrqInv, IrqHandlers
<1>8. probe = "ready"
  BY <1>1 DEF IrqInv, IrqProbe
<1> QED BY <1>1, <1>2, <1>6, <1>7, <1>8, QuietStep

LEMMA HandleAckStep ==
    ASSUME case \in Cases, case' = case, IrqInv, NEW g \in Group, HandleAck(g) PROVE IrqInv'
<1>1. /\ UNCHANGED <<probe, det, enabled, irq_type, irq_lock, ith>> /\ hnd[g].pc = "ack" /\ ith[g].ops = <<>>
      /\ events' = events \ {hnd[g].pin} /\ hnd' = [hnd EXCEPT ![g].pc = "action"]
  BY DEF HandleAck
<1>2. hnd \in [Group -> HState] /\ events \subseteq case.pins
  BY DEF IrqInv, IrqTypes
<1>3. /\ hnd' \in [Group -> HState] /\ hnd'[g].pc = "action" /\ hnd'[g].pin = hnd[g].pin
      /\ \A x \in Group : x # g => hnd'[x] = hnd[x]
  BY <1>1, <1>2 DEF HState
<1>4. IrqHandlers'
  BY <1>1, <1>3 DEF IrqInv, IrqHandlers
<1>5. probe = "ready"
  BY <1>1 DEF IrqInv, IrqProbe
<1>6. events' \subseteq case.pins /\ \A p \in case.pins : p \in events' => p \in events
  BY <1>1, <1>2
<1> QED BY <1>1, <1>3, <1>4, <1>5, <1>6, QuietStep

\* A handler masks or unmasks a pin, or goes on.
LEMMA HandlerCall ==
    ASSUME case \in Cases, case' = case, IrqInv, NEW g \in Group, probe = "ready", ith[g].ops = <<>>,
           UNCHANGED <<probe, det, events, enabled, irq_type>>,
           hnd' \in [Group -> HState], hnd'[g].pc \in {"pin", "bank", "ack"},
           hnd'[g].pc = "ack" => hnd'[g].pin \in case.pins,
           \A x \in Group : x # g => hnd'[x] = hnd[x],
           \/ UNCHANGED <<irq_lock, ith>> /\ hnd'[g].pc \in {"pin", "bank", "ack"}
           \/ /\ hnd'[g].pc # "bank"
              /\ \E p \in case.pins : \E ops : Begin(g, p, ops) /\ (ops = irq_enable(p) \/ ops = irq_disable(p))
    PROVE  IrqInv'
<1>1. g \in Actor
  BY IrqFacts
<1>2. ASSUME NEW x \in Group, x # g PROVE ith'[x] = ith[x] /\ hnd'[x] = hnd[x]
  <2>1. ith \in [Actor -> IState] /\ x \in Actor
    BY IrqFacts DEF IrqInv, IrqTypes
  <2> QED BY <1>2, <2>1 DEF Begin
<1>3. IrqHandlers'
  <2>1. hnd'[g].pc \in {"idle", "bank", "action"} => ith'[g].ops = <<>>
    OBVIOUS
  <2> QED BY <1>2, <2>1 DEF IrqInv, IrqHandlers
<1>4. CASE UNCHANGED <<irq_lock, ith>>
  <2>1. events' \subseteq case.pins
    BY DEF IrqInv, IrqTypes
  <2> QED BY <1>3, <1>4, <2>1, QuietStep
<1>5. ASSUME NEW p \in case.pins, NEW ops, Begin(g, p, ops), ops = irq_enable(p) \/ ops = irq_disable(p) PROVE IrqInv'
  <2>1. /\ irq_lock' \in [Bank -> Actor \cup {"none"}] /\ (ith \in [Actor -> IState])'
        /\ IrqLocks' /\ \A q \in case.pins : IrqPin(q)'
    BY <1>1, <1>5, BeginCall
  <2>2. /\ (det \in [Detectors -> SUBSET case.pins])' /\ (events \subseteq case.pins)'
        /\ (enabled \subseteq case.pins)' /\ (irq_type \in [case.pins -> Types])' /\ (hnd \in [Group -> HState])'
    BY DEF IrqInv, IrqTypes, HState
  <2> QED BY <1>3, <2>1, <2>2, IrqParts
<1> QED BY <1>4, <1>5

LEMMA HandlePinStep ==
    ASSUME case \in Cases, case' = case, IrqInv, NEW g \in Group, HandlePin(g) PROVE IrqInv'
<1>1. /\ UNCHANGED <<probe, det, events, enabled, irq_type>> /\ hnd[g].pc = "pin" /\ ith[g].ops = <<>>
  BY DEF HandlePin
<1>2. hnd \in [Group -> HState] /\ hnd[g] \in HState /\ probe = "ready"
  BY <1>1 DEF IrqInv, IrqTypes, IrqProbe
<1>3. CASE hnd[g].ev = {}
  <2>1. hnd' = [hnd EXCEPT ![g].pc = "bank"] /\ UNCHANGED <<irq_lock, ith>>
    BY <1>3 DEF HandlePin
  <2>2. hnd' \in [Group -> HState] /\ hnd'[g].pc = "bank" /\ \A x \in Group : x # g => hnd'[x] = hnd[x]
    BY <1>2, <2>1 DEF HState
  <2> QED BY <1>1, <1>2, <2>1, <2>2, HandlerCall
<1>4. CASE hnd[g].ev # {}
  <2>1. PICK p : p = Min(hnd[g].ev)
    OBVIOUS
  <2>2. p \in case.pins /\ p \in Pin
    <3>1. hnd[g].ev \subseteq case.pins
      BY <1>2 DEF HState
    <3>2. hnd[g].ev \in SUBSET Nat
      BY <3>1, IrqFacts
    <3>3. p \in hnd[g].ev
      BY <1>4, <2>1, <3>2, MinIn
    <3> QED BY <3>1, <3>3, IrqFacts
  <2>3. PICK l \in BOOLEAN : l <=> flow[p] = "level"
    BY Zenon
  <2>4. l = (flow[p] = "level")
    BY <2>3
  <2>5. hnd' = [hnd EXCEPT ![g].pc = "ack", ![g].ev = @ \ {p}, ![g].pin = p, ![g].level = l]
    BY <1>4, <2>1, <2>4 DEF HandlePin
  <2>6. /\ hnd' \in [Group -> HState] /\ hnd'[g].pc = "ack" /\ hnd'[g].pin = p
        /\ \A x \in Group : x # g => hnd'[x] = hnd[x]
    BY <1>2, <2>2, <2>5 DEF HState
  <2>7. \/ UNCHANGED <<irq_lock, ith>>
        \/ \E ops : Begin(g, p, ops) /\ (ops = irq_enable(p) \/ ops = irq_disable(p))
    BY <1>4, <2>1 DEF HandlePin
  <2> QED BY <1>1, <1>2, <2>2, <2>6, <2>7, HandlerCall
<1> QED BY <1>3, <1>4

LEMMA HandleActionStep ==
    ASSUME case \in Cases, case' = case, IrqInv, NEW g \in Group, HandleAction(g) PROVE IrqInv'
<1>1. /\ UNCHANGED <<probe, det, events, enabled, irq_type>> /\ hnd[g].pc = "action"
      /\ hnd' = [hnd EXCEPT ![g].pc = "pin"]
      /\ \/ UNCHANGED <<irq_lock, ith>>
         \/ \E ops : Begin(g, hnd[g].pin, ops) /\ ops = irq_enable(hnd[g].pin)
  BY DEF HandleAction
<1>2. hnd \in [Group -> HState] /\ probe = "ready" /\ ith[g].ops = <<>> /\ hnd[g].pin \in case.pins
  BY <1>1 DEF IrqInv, IrqTypes, IrqProbe, IrqHandlers
<1>3. hnd' \in [Group -> HState] /\ hnd'[g].pc = "pin" /\ \A x \in Group : x # g => hnd'[x] = hnd[x]
  BY <1>1, <1>2 DEF HState
<1> QED BY <1>1, <1>2, <1>3, HandlerCall

LEMMA IrqStep ==
    ASSUME case \in Cases, case' = case, IrqInv, IrqNext \/ UNCHANGED irqVars PROVE IrqInv'
<1>1. CASE IrqNext
  BY <1>1, ProbeStep, IrqCallStep, ReadStep, DoStep, ToggleStep, HandlerEnterStep, HandleBankStep, HandlePinStep,
     HandleAckStep, HandleActionStep DEF IrqNext, Handle
<1>2. CASE UNCHANGED irqVars
  <2>1. UNCHANGED <<probe, det, events, enabled, irq_type, irq_lock, ith, hnd>>
    BY <1>2 DEF irqVars
  <2>2. events' \subseteq case.pins
    BY <2>1 DEF IrqInv, IrqTypes
  <2> QED BY <2>1, <2>2, SameHandlers, QuietStep
<1> QED BY <1>1, <1>2

\* What the invariant says of the properties the run checks.
LEMMA IrqKept == ASSUME case \in Cases, IrqInv PROVE IrqTypeOK /\ DetectsByType /\ NoEventLeft
<1>1. IrqTypeOK
  <2>1. ASSUME NEW a \in Actor, ith[a].ops # <<>> PROVE \E b \in Bank : irq_lock[b] = a
    BY <2>1, Holder
  <2>2. ASSUME NEW a \in Actor, NEW b \in Bank, irq_lock[b] = a PROVE ith[a].ops # <<>>
    BY <2>2, IrqFacts DEF IrqInv, IrqLocks
  <2> QED BY <2>1, <2>2 DEF IrqInv, IrqTypes, IrqTypeOK
<1>2. ASSUME NEW p \in case.pins, Steady(p)
      PROVE  /\ \A r \in Detectors : p \in det[r] <=> p \in enabled /\ r \in Range(Regs[irq_type[p]])
             /\ p \in events => p \in enabled
  <2>1. probe = "ready" /\ IrqPin(p) /\ p \div 32 \in Bank
    BY <1>2, IrqFacts DEF Steady, IrqInv
  <2>2. Rest(p) = <<>>
    <3>1. CASE irq_lock[p \div 32] = "none"
      BY <3>1 DEF Rest
    <3>2. CASE irq_lock[p \div 32] # "none"
      <4>1. irq_lock[p \div 32] \in Actor /\ ith[irq_lock[p \div 32]].ops # <<>>
        BY <2>1, <3>2 DEF IrqInv, IrqTypes, IrqLocks
      <4>2. ith[irq_lock[p \div 32]].pin # p
        BY <1>2, <4>1 DEF Steady
      <4> QED BY <4>2 DEF Rest
    <3> QED BY <3>1, <3>2
  <2>3. PICK D \in SUBSET Detectors, e \in BOOLEAN, ty \in Types, ev \in BOOLEAN :
            /\ PinIs(p, D, e, ty, ev) /\ (ev \/ D # {} => e)
            /\ \A r \in Detectors : r \in D <=> r \in Range(Regs[ty]) /\ e
    BY <2>1, <2>2, PinIdle
  <2> QED BY <2>3 DEF PinIs, Detecting
<1>3. DetectsByType
  <2> SUFFICES ASSUME NEW p \in case.pins, Steady(p)
               PROVE  {r \in Detectors : p \in det[r]} = IF p \in enabled THEN Range(Regs[irq_type[p]]) ELSE {}
    BY DEF DetectsByType
  <2>1. \A r \in Detectors : p \in det[r] <=> p \in enabled /\ r \in Range(Regs[irq_type[p]])
    BY <1>2
  <2>2. Range(Regs[irq_type[p]]) \subseteq Detectors
    <3>1. irq_type[p] \in Types
      BY DEF IrqInv, IrqTypes
    <3> QED BY <3>1, RegsOf DEF Types, Detectors
  <2> QED BY <2>1, <2>2
<1>4. NoEventLeft
  BY <1>2 DEF NoEventLeft
<1> QED BY <1>1, <1>3, <1>4

------------------------------------------------------------------------------
(* The maps of device tree nodes (Bcm2835Map).                               *)

MapEntry == {"mux", "pull"} \X Nat \X Nat
FuncEntry(i) == <<"mux", node.pins.cells[i], Cell(node.funcs.cells, i)>>
PullEntry(i) == <<"pull", node.pins.cells[i], Cell(node.pulls.cells, i)>>
Pulls(m) == {k \in 1 .. Len(m) : m[k][1] = "pull"}

\* What NodeToMap has checked.
NodeChecked == num_funcs \in {0, 1, num_pins} /\ num_pulls \in {0, 1, num_pins}

\* The map after the first n pins: as long as they say, an entry for each of
\* their functions and pulls, and no other entry.
Filled(m, n) ==
    /\ m \in Seq(MapEntry) /\ Len(m) = n * maps_per_pin
    /\ \A k \in 1 .. Len(m) :
          \E i \in 1 .. n : (num_funcs > 0 /\ m[k] = FuncEntry(i)) \/ (num_pulls > 0 /\ m[k] = PullEntry(i))
    /\ num_funcs > 0 => \A i \in 1 .. n : \E k \in 1 .. Len(m) : m[k] = FuncEntry(i)
    /\ num_pulls > 0 => \A i \in 1 .. n : \E k \in 1 .. Len(m) : m[k] = PullEntry(i)

\* The first n pins, functions and pulls exist.
Valid(n) ==
    \A i \in 1 .. n :
        /\ node.pins.cells[i] < BCM2835_NUM_GPIOS
        /\ num_funcs > 0 => Cell(node.funcs.cells, i) \in fsel_values
        /\ num_pulls > 0 => Cell(node.pulls.cells, i) <= 2

MapInv ==
    /\ node \in [pins : Property, funcs : Property, pulls : Property]
    /\ dt \in {"idle", "pins", "ok", "error"}
    /\ ~ misfreed
    /\ dt = "idle" => map = <<>> /\ next = 1
    /\ dt \in {"idle", "error"} => configs = {}
    /\ dt \in {"pins", "ok"} =>
          /\ NodeChecked
          /\ next \in 1 .. num_pins + 1
          /\ Filled(map, next - 1) /\ Valid(next - 1) /\ configs = Pulls(map)
    /\ dt = "ok" => next = num_pins + 1

LEMMA MapNumbers ==
    ASSUME node \in [pins : Property, funcs : Property, pulls : Property]
    PROVE  /\ num_pins \in Nat /\ num_funcs \in Nat /\ num_pulls \in Nat
           /\ maps_per_pin = (IF num_funcs > 0 THEN 1 ELSE 0) + (IF num_pulls > 0 THEN 1 ELSE 0)
           /\ maps_per_pin \in {0, 1, 2}
           /\ node.pins.cells \in Seq(Nat) /\ node.funcs.cells \in Seq(Nat) /\ node.pulls.cells \in Seq(Nat)
<1>1. node.pins.cells \in Seq(Nat) /\ node.funcs.cells \in Seq(Nat) /\ node.pulls.cells \in Seq(Nat)
  BY DEF Property
<1>2. num_pins \in Nat /\ num_funcs \in Nat /\ num_pulls \in Nat
  BY <1>1, LenProperties DEF num_pins, num_funcs, num_pulls
<1> QED BY <1>1, <1>2 DEF maps_per_pin, One

LEMMA CellIn ==
    ASSUME NEW s \in Seq(Nat), NEW n \in Nat, NEW i \in 1 .. n, Len(s) = 1 \/ Len(s) = n
    PROVE  Cell(s, i) \in Nat
<1>1. PICK m \in Nat : m = Len(s) /\ (m = 1 \/ m = n) /\ \A k \in 1 .. m : s[k] \in Nat
  BY LenProperties, ElementOfSeq
<1>2. CASE m > 1
  <2>1. Cell(s, i) = s[i] /\ m = n
    BY <1>1, <1>2 DEF Cell
  <2> QED BY <1>1, <2>1
<1>3. CASE m <= 1
  <2>1. Cell(s, i) = s[1] /\ 1 \in 1 .. m
    BY <1>1, <1>3 DEF Cell
  <2> QED BY <1>1, <2>1
<1> QED BY <1>1, <1>2, <1>3

LEMMA EntryTypes ==
    ASSUME node \in [pins : Property, funcs : Property, pulls : Property], NodeChecked,
           NEW i \in 1 .. num_pins
    PROVE  /\ node.pins.cells[i] \in Nat
           /\ num_funcs > 0 => Cell(node.funcs.cells, i) \in Nat
           /\ num_pulls > 0 => Cell(node.pulls.cells, i) \in Nat
<1>1. /\ node.pins.cells \in Seq(Nat) /\ node.funcs.cells \in Seq(Nat) /\ node.pulls.cells \in Seq(Nat)
      /\ num_pins \in Nat /\ num_funcs \in Nat /\ num_pulls \in Nat
  BY MapNumbers
<1>2. \A s \in Seq(Nat), n \in Nat : n = Len(s) => \A k \in 1 .. n : s[k] \in Nat
  OBVIOUS
<1>3. node.pins.cells[i] \in Nat
  BY <1>1, <1>2 DEF num_pins
<1>5. /\ num_funcs > 0 => num_funcs = 1 \/ num_funcs = num_pins
      /\ num_pulls > 0 => num_pulls = 1 \/ num_pulls = num_pins
  BY <1>1 DEF NodeChecked
<1> QED BY <1>1, <1>3, <1>5, CellIn DEF num_funcs, num_pulls

LEMMA MapLength ==
    ASSUME node \in [pins : Property, funcs : Property, pulls : Property], NEW n \in Nat, n <= num_pins
    PROVE  /\ n * maps_per_pin \in Nat /\ n * maps_per_pin <= num_pins * maps_per_pin
           /\ (n + 1) * maps_per_pin = n * maps_per_pin + maps_per_pin
<1>1. num_pins \in Nat /\ maps_per_pin \in {0, 1, 2}
  BY MapNumbers
<1>2. CASE maps_per_pin = 0
  BY <1>1, <1>2
<1>3. CASE maps_per_pin = 1
  BY <1>1, <1>3
<1>4. CASE maps_per_pin = 2
  BY <1>1, <1>4
<1> QED BY <1>1, <1>2, <1>3, <1>4

\* The configurations that are allocated, all of them and no others, are freed.
LEMMA FreeAll ==
    ASSUME MapInv, dt \in {"pins", "ok"}, Free
    PROVE  configs' = {} /\ ~ misfreed'
<1>1. /\ node \in [pins : Property, funcs : Property, pulls : Property]
      /\ next \in 1 .. num_pins + 1 /\ Filled(map, next - 1) /\ configs = Pulls(map)
  BY DEF MapInv
<1>2. num_pins \in Nat
  BY <1>1, MapNumbers
<1>3. PICK n \in Nat : n = next - 1 /\ n <= num_pins
  BY <1>1, <1>2
<1>4. PICK l \in Nat : l = num_pins * maps_per_pin /\ Len(map) <= l /\ Len(map) \in Nat
  <2>1. Len(map) = n * maps_per_pin
    BY <1>1, <1>3 DEF Filled
  <2>2. num_pins * maps_per_pin \in Nat
    BY <1>1, <1>2, MapLength
  <2> QED BY <1>1, <1>3, <2>1, <2>2, MapLength
<1>5. Pulls(map) = {i \in 1 .. l : i <= Len(map) /\ map[i][1] = "pull"}
  BY <1>4 DEF Pulls
<1>6. dt_free_map = configs
  BY <1>1, <1>4, <1>5 DEF dt_free_map
<1>7. ~ misfreed
  BY DEF MapInv
<1> QED BY <1>6, <1>7 DEF Free

\* What adding a pin's entries makes of the array.
Opt(a, e) == IF a > 0 THEN <<e>> ELSE <<>>

Longer(S, m, F, P, a, b, m2) ==
    /\ m2 \in Seq(S)
    /\ Len(m2) = Len(m) + One(a) + One(b)
    /\ \A k \in 1 .. Len(m) : m2[k] = m[k]
    /\ a > 0 => m2[Len(m) + 1] = F
    /\ b > 0 => m2[Len(m2)] = P

LEMMA TwoMore ==
    ASSUME NEW S, NEW m \in Seq(S), NEW F \in S, NEW P \in S, NEW a \in Nat, NEW b \in Nat, NEW m1, NEW m2,
           m1 = m \o Opt(a, F), m2 = m1 \o Opt(b, P)
    PROVE  Longer(S, m, F, P, a, b, m2)
<1>1. ASSUME NEW s \in Seq(S), NEW e \in S
      PROVE  /\ s \o <<e>> \in Seq(S) /\ Len(s \o <<e>>) = Len(s) + 1
             /\ (s \o <<e>>)[Len(s) + 1] = e /\ \A k \in 1 .. Len(s) : (s \o <<e>>)[k] = s[k]
  OBVIOUS
<1>2. ASSUME NEW s \in Seq(S) PROVE s \o <<>> = s
  BY ConcatEmptySeq
<1>3. /\ m1 \in Seq(S) /\ Len(m1) = Len(m) + (IF a > 0 THEN 1 ELSE 0)
      /\ \A k \in 1 .. Len(m) : m1[k] = m[k]
      /\ a > 0 => m1[Len(m) + 1] = F
  <2>1. CASE a > 0
    BY <1>1, <2>1 DEF Opt
  <2>2. CASE ~ (a > 0)
    BY <1>2, <2>2 DEF Opt
  <2> QED BY <2>1, <2>2
<1>4. /\ m2 \in Seq(S) /\ Len(m2) = Len(m1) + (IF b > 0 THEN 1 ELSE 0)
      /\ \A k \in 1 .. Len(m1) : m2[k] = m1[k]
      /\ b > 0 => m2[Len(m2)] = P
  <2>1. CASE b > 0
    BY <1>1, <1>3, <2>1 DEF Opt
  <2>2. CASE ~ (b > 0)
    BY <1>2, <1>3, <2>2 DEF Opt
  <2> QED BY <2>1, <2>2
<1>5. Len(m) \in Nat /\ Len(m1) \in Nat /\ Len(m1) >= Len(m) /\ (a > 0 => Len(m1) = Len(m) + 1)
  BY <1>3, LenProperties
<1>6. \A k \in 1 .. Len(m) : k \in 1 .. Len(m1)
  BY <1>5
<1>7. a > 0 => Len(m) + 1 \in 1 .. Len(m1)
  BY <1>5
<1> QED BY <1>3, <1>4, <1>5, <1>6, <1>7 DEF One, Longer

LEMMA MoreIndexes ==
    ASSUME NEW a \in Nat, NEW b \in Nat, NEW n \in Nat, NEW l \in Nat, NEW l2 \in Nat, NEW d \in Nat,
           l2 = l + d, d = (IF a > 0 THEN 1 ELSE 0) + (IF b > 0 THEN 1 ELSE 0)
    PROVE  /\ \A k \in 1 .. l2 : k \in 1 .. l \/ (a > 0 /\ k = l + 1) \/ (b > 0 /\ k = l2)
           /\ \A k \in 1 .. l : k \in 1 .. l2
           /\ a > 0 => l + 1 \in 1 .. l2
           /\ b > 0 => l2 \in 1 .. l2
           /\ \A i \in 1 .. n + 1 : i \in 1 .. n \/ i = n + 1
           /\ n + 1 \in 1 .. n + 1 /\ \A i \in 1 .. n : i \in 1 .. n + 1
  OBVIOUS

\* m2 is m with the entries of pin n + 1.
OnePinMore(m, n, m2) ==
    /\ m2 \in Seq(MapEntry) /\ Len(m2) = Len(m) + maps_per_pin
    /\ \A k \in 1 .. Len(m) : m2[k] = m[k]
    /\ num_funcs > 0 => m2[Len(m) + 1] = FuncEntry(n + 1)
    /\ num_pulls > 0 => m2[Len(m2)] = PullEntry(n + 1)

LEMMA FillMore ==
    ASSUME node \in [pins : Property, funcs : Property, pulls : Property],
           NEW n \in Nat, n < num_pins, NEW m, Filled(m, n), NEW m2, OnePinMore(m, n, m2)
    PROVE  /\ Filled(m2, n + 1)
           /\ Pulls(m2) = IF num_pulls > 0 THEN Pulls(m) \cup {Len(m2)} ELSE Pulls(m)
<1>1. /\ num_pins \in Nat /\ num_funcs \in Nat /\ num_pulls \in Nat
      /\ maps_per_pin = (IF num_funcs > 0 THEN 1 ELSE 0) + (IF num_pulls > 0 THEN 1 ELSE 0)
  BY MapNumbers
<1>2. PICK a \in Nat, b \in Nat : a = num_funcs /\ b = num_pulls
  BY <1>1
<1>3. PICK l \in Nat : l = Len(m) /\ l = n * maps_per_pin /\ m \in Seq(MapEntry)
  BY LenProperties DEF Filled
<1>4. PICK d \in Nat : d = maps_per_pin /\ d = (IF a > 0 THEN 1 ELSE 0) + (IF b > 0 THEN 1 ELSE 0)
  BY <1>1, <1>2
<1>5. PICK F, P : F = FuncEntry(n + 1) /\ P = PullEntry(n + 1)
  OBVIOUS
<1>9. /\ Len(m2) = l + d /\ m2 \in Seq(MapEntry)
      /\ \A k \in 1 .. l : m2[k] = m[k]
      /\ a > 0 => m2[l + 1] = F
      /\ b > 0 => m2[Len(m2)] = P
  BY <1>2, <1>3, <1>4, <1>5 DEF OnePinMore
<1>10. PICK l2 \in Nat : l2 = Len(m2) /\ l2 = l + d
  <2>1. Len(m2) = l + d
    BY <1>9
  <2>2. l + d \in Nat
    OBVIOUS
  <2> QED BY <2>1, <2>2
<1>11. l2 = (n + 1) * maps_per_pin
  <2>1. (n + 1) * maps_per_pin = n * maps_per_pin + maps_per_pin
    BY <1>1, MapLength
  <2> QED BY <1>3, <1>4, <1>10, <2>1
<1>12. \A k \in 1 .. l2 : k \in 1 .. l \/ (a > 0 /\ k = l + 1) \/ (b > 0 /\ k = l2)
  BY <1>4, <1>10, MoreIndexes
<1>13. \A k \in 1 .. l2 : k \in 1 .. l \/ (a > 0 /\ m2[k] = F) \/ (b > 0 /\ m2[k] = P)
  BY <1>9, <1>10, <1>12
<1>14. /\ \A k \in 1 .. l : k \in 1 .. l2
       /\ a > 0 => l + 1 \in 1 .. l2
       /\ b > 0 => l2 \in 1 .. l2
       /\ \A i \in 1 .. n + 1 : i \in 1 .. n \/ i = n + 1
       /\ n + 1 \in 1 .. n + 1 /\ \A i \in 1 .. n : i \in 1 .. n + 1
  BY <1>4, <1>10, MoreIndexes
<1>15. Filled(m2, n + 1)
  <2>1. \A k \in 1 .. l2 : \E i \in 1 .. n + 1 : (a > 0 /\ m2[k] = FuncEntry(i)) \/ (b > 0 /\ m2[k] = PullEntry(i))
    <3> SUFFICES ASSUME NEW k \in 1 .. l2
                 PROVE  \E i \in 1 .. n + 1 : (a > 0 /\ m2[k] = FuncEntry(i)) \/ (b > 0 /\ m2[k] = PullEntry(i))
      OBVIOUS
    <3>1. CASE k \in 1 .. l
      <4>1. PICK i \in 1 .. n : (a > 0 /\ m[k] = FuncEntry(i)) \/ (b > 0 /\ m[k] = PullEntry(i))
        BY <1>2, <1>3, <3>1 DEF Filled
      <4>2. m2[k] = m[k] /\ i \in 1 .. n + 1
        BY <1>9, <1>14, <3>1
      <4> QED BY <4>1, <4>2
    <3>2. CASE a > 0 /\ m2[k] = F
      BY <1>5, <1>14, <3>2
    <3>3. CASE b > 0 /\ m2[k] = P
      BY <1>5, <1>14, <3>3
    <3> QED BY <1>13, <3>1, <3>2, <3>3
  <2>2. ASSUME a > 0, NEW i \in 1 .. n + 1 PROVE \E k \in 1 .. l2 : m2[k] = FuncEntry(i)
    <3>1. CASE i \in 1 .. n
      <4>1. PICK k \in 1 .. l : m[k] = FuncEntry(i)
        BY <1>2, <1>3, <2>2, <3>1 DEF Filled
      <4> QED BY <1>9, <1>14, <4>1
    <3>2. CASE i = n + 1
      BY <1>5, <1>9, <1>14, <2>2, <3>2
    <3> QED BY <1>14, <3>1, <3>2
  <2>3. ASSUME b > 0, NEW i \in 1 .. n + 1 PROVE \E k \in 1 .. l2 : m2[k] = PullEntry(i)
    <3>1. CASE i \in 1 .. n
      <4>1. PICK k \in 1 .. l : m[k] = PullEntry(i)
        BY <1>2, <1>3, <2>3, <3>1 DEF Filled
      <4> QED BY <1>9, <1>14, <4>1
    <3>2. CASE i = n + 1
      BY <1>5, <1>9, <1>10, <1>14, <2>3, <3>2
    <3> QED BY <1>14, <3>1, <3>2
  <2> QED BY <1>2, <1>9, <1>10, <1>11, <2>1, <2>2, <2>3 DEF Filled
<1>16. F[1] = "mux" /\ P[1] = "pull"
  BY <1>5 DEF FuncEntry, PullEntry
<1>17. \A k \in 1 .. l2 : m2[k][1] = "pull" <=> (k \in 1 .. l /\ m[k][1] = "pull") \/ (b > 0 /\ k = l2)
  <2> SUFFICES ASSUME NEW k \in 1 .. l2
               PROVE  m2[k][1] = "pull" <=> (k \in 1 .. l /\ m[k][1] = "pull") \/ (b > 0 /\ k = l2)
    OBVIOUS
  <2>1. CASE k \in 1 .. l
    <3>1. m2[k] = m[k] /\ ~ (b > 0 /\ k = l2)
      BY <1>4, <1>9, <1>10, <2>1
    <3> QED BY <2>1, <3>1
  <2>2. CASE b > 0 /\ k = l2
    <3>1. m2[k] = P
      BY <1>9, <1>10, <2>2
    <3> QED BY <1>16, <2>2, <3>1
  <2>3. CASE k \notin 1 .. l /\ ~ (b > 0 /\ k = l2)
    <3>1. a > 0 /\ m2[k] = F
      BY <1>9, <1>12, <2>3
    <3> QED BY <1>16, <2>3, <3>1
  <2> QED BY <2>1, <2>2, <2>3
<1>18. Pulls(m2) = {k \in 1 .. l2 : m2[k][1] = "pull"} /\ Pulls(m) = {k \in 1 .. l : m[k][1] = "pull"}
  BY <1>3, <1>10 DEF Pulls
<1>19. CASE b > 0
  <2>1. Pulls(m2) = Pulls(m) \cup {l2}
    BY <1>14, <1>17, <1>18, <1>19
  <2> QED BY <1>2, <1>10, <1>15, <1>19, <2>1
<1>20. CASE ~ (b > 0)
  <2>1. Pulls(m2) = Pulls(m)
    BY <1>14, <1>17, <1>18, <1>20
  <2> QED BY <1>2, <1>15, <1>20, <2>1
<1> QED BY <1>19, <1>20

FuncPart(i) == IF num_funcs > 0 THEN <<FuncEntry(i)>> ELSE <<>>
PullPart(i) == IF num_pulls > 0 THEN <<PullEntry(i)>> ELSE <<>>
WithPin(m, i) == (m \o FuncPart(i)) \o PullPart(i)

LEMMA EntriesIn ==
    ASSUME node \in [pins : Property, funcs : Property, pulls : Property], NodeChecked,
           NEW i \in 1 .. num_pins
    PROVE  /\ num_funcs > 0 => FuncEntry(i) \in MapEntry
           /\ num_pulls > 0 => PullEntry(i) \in MapEntry
<1>1. \A p, v \in Nat : <<"mux", p, v>> \in MapEntry /\ <<"pull", p, v>> \in MapEntry
  BY DEF MapEntry
<1> QED BY <1>1, EntryTypes DEF FuncEntry, PullEntry

LEMMA FillPin ==
    ASSUME node \in [pins : Property, funcs : Property, pulls : Property], NodeChecked,
           NEW n \in Nat, n < num_pins, NEW m \in Seq(MapEntry), NEW m2,
           m2 = WithPin(m, n + 1)
    PROVE  OnePinMore(m, n, m2)
<1>1. /\ num_pins \in Nat /\ num_funcs \in Nat /\ num_pulls \in Nat
      /\ maps_per_pin = One(num_funcs) + One(num_pulls) /\ One(num_funcs) \in Nat /\ One(num_pulls) \in Nat
  BY MapNumbers DEF maps_per_pin, One
<1>2. PICK i \in 1 .. num_pins : i = n + 1
  BY <1>1
<1>3. PICK f, p : f = FuncEntry(i) /\ p = PullEntry(i)
  OBVIOUS
<1>4. (num_funcs > 0 => f \in MapEntry) /\ (num_pulls > 0 => p \in MapEntry)
  BY <1>3, EntriesIn
<1>5. PICK F \in MapEntry : num_funcs > 0 => F = f
  <2>1. <<"mux", 0, 0>> \in MapEntry
    BY DEF MapEntry
  <2> QED BY <1>4, <2>1
<1>6. PICK P \in MapEntry : num_pulls > 0 => P = p
  BY <1>4, <1>5
<1>7. FuncPart(i) = Opt(num_funcs, F) /\ PullPart(i) = Opt(num_pulls, P)
  BY <1>3, <1>5, <1>6 DEF FuncPart, PullPart, Opt
<1>8. PICK m1 : m1 = m \o FuncPart(i)
  OBVIOUS
<1>9. m1 = m \o Opt(num_funcs, F) /\ m2 = m1 \o Opt(num_pulls, P)
  BY <1>2, <1>7, <1>8 DEF WithPin
<1>10. /\ m2 \in Seq(MapEntry)
       /\ Len(m2) = Len(m) + One(num_funcs) + One(num_pulls)
       /\ \A k \in 1 .. Len(m) : m2[k] = m[k]
       /\ num_funcs > 0 => m2[Len(m) + 1] = F
       /\ num_pulls > 0 => m2[Len(m2)] = P
  <2>1. Longer(MapEntry, m, F, P, num_funcs, num_pulls, m2)
    BY <1>1, <1>9, TwoMore, Zenon
  <2> QED BY <2>1 DEF Longer
<1>11. Len(m2) = Len(m) + maps_per_pin
  BY SMTT(30), <1>1, <1>10, LenProperties
<1> QED BY <1>2, <1>3, <1>5, <1>6, <1>10, <1>11 DEF OnePinMore

LEMMA MapPinStep == ASSUME MapInv, MapPin PROVE MapInv'
<1>1. /\ node \in [pins : Property, funcs : Property, pulls : Property] /\ UNCHANGED node
      /\ dt = "pins" /\ next <= num_pins /\ next' = next + 1
  BY DEF MapInv, MapPin
<1>2. /\ NodeChecked /\ next \in 1 .. num_pins + 1
      /\ Filled(map, next - 1) /\ Valid(next - 1) /\ configs = Pulls(map)
  BY <1>1 DEF MapInv
<1>3. num_pins \in Nat /\ num_pins' = num_pins /\ num_funcs' = num_funcs /\ num_pulls' = num_pulls
  BY <1>1, MapNumbers DEF num_pins, num_funcs, num_pulls
<1>4. PICK n \in Nat : n = next - 1 /\ n < num_pins /\ next = n + 1 /\ next' = n + 2
  BY <1>1, <1>2, <1>3
<1>5. \/ dt' = "error" /\ Free
      \/ /\ map' = WithPin(map, n + 1) /\ dt' = "pins" /\ misfreed' = misfreed
         /\ configs' = IF num_pulls > 0 THEN configs \cup {Len(map')} ELSE configs
         /\ node.pins.cells[n + 1] < BCM2835_NUM_GPIOS
         /\ num_funcs > 0 => Cell(node.funcs.cells, n + 1) \in fsel_values
         /\ num_pulls > 0 => Cell(node.pulls.cells, n + 1) <= 2
  BY <1>1, <1>4 DEF MapPin, WithPin, FuncPart, PullPart, FuncEntry, PullEntry
<1>6. CASE dt' = "error" /\ Free
  <2>1. configs' = {} /\ ~ misfreed'
    BY <1>1, <1>6, FreeAll
  <2> QED BY <1>1, <1>6, <2>1 DEF MapInv
<1>7. CASE dt' # "error"
  <2>1. map \in Seq(MapEntry)
    BY <1>2 DEF Filled
  <2>2. OnePinMore(map, n, map')
    BY <1>1, <1>2, <1>4, <1>5, <1>7, <2>1, FillPin
  <2>3. Filled(map', n + 1) /\ Pulls(map') = IF num_pulls > 0 THEN Pulls(map) \cup {Len(map')} ELSE Pulls(map)
    BY <1>1, <1>2, <1>4, <2>2, FillMore
  <2>4. Filled(map, n + 1)' /\ configs' = Pulls(map)'
    <3>1. configs' = Pulls(map')
      BY <1>2, <1>5, <1>7, <2>3
    <3> QED BY <1>1, <2>3, <3>1 DEF Filled, Pulls, maps_per_pin, num_funcs, num_pulls, FuncEntry, PullEntry
  <2>5. Valid(n + 1)
    <3>1. Valid(n) /\ \A i \in 1 .. n + 1 : i \in 1 .. n \/ i = n + 1
      BY <1>2, <1>4
    <3> QED BY <1>5, <1>7, <3>1 DEF Valid
  <2>6. Valid(n + 1)' /\ NodeChecked'
    BY <1>1, <1>2, <2>5 DEF Valid, NodeChecked, num_funcs, num_pulls, num_pins
  <2>7. next' \in 1 .. num_pins' + 1 /\ next' - 1 = n + 1
    BY <1>3, <1>4
  <2>8. dt' = "pins" /\ ~ misfreed'
    BY <1>5, <1>7 DEF MapInv
  <2> QED BY <1>1, <2>4, <2>6, <2>7, <2>8 DEF MapInv
<1> QED BY <1>5, <1>6, <1>7

LEMMA MapInitInv == ASSUME MapInit PROVE MapInv
<1>1. NoCells \in Property
  <2>1. << >> \in Seq(Nat)
    OBVIOUS
  <2> QED BY <2>1 DEF NoCells, Property
<1>2. dt = "idle" /\ map = <<>> /\ configs = {} /\ ~ misfreed /\ next = 1
  BY DEF MapInit
<1>3. node \in [pins : Property, funcs : Property, pulls : Property]
  BY <1>1 DEF MapInit
<1> QED BY <1>2, <1>3 DEF MapInv

LEMMA NodeToMapStep == ASSUME MapInv, NodeToMap PROVE MapInv'
<1>1. /\ dt = "idle" /\ UNCHANGED <<map, configs, misfreed, next>> /\ dt' \in {"pins", "error"}
      /\ node' \in [pins : Property, funcs : Property, pulls : Property]
  BY MapAssumption DEF NodeToMap
<1>2. map = <<>> /\ next = 1 /\ configs = {} /\ ~ misfreed
  BY <1>1 DEF MapInv
<1>3. CASE dt' = "error"
  BY <1>1, <1>2, <1>3 DEF MapInv
<1>4. CASE dt' = "pins"
  <2>1. NodeChecked'
    BY <1>4 DEF NodeToMap, NodeChecked, num_funcs, num_pulls, num_pins
  <2>2. num_pins' \in Nat
    BY <1>1, LenProperties DEF num_pins, Property
  <2>3. maps_per_pin' \in {0, 1, 2}
    BY DEF maps_per_pin, One
  <2>4. map' = <<>> /\ next' = 1 /\ configs' = {}
    BY <1>1, <1>2
  <2>5. 0 * maps_per_pin' = 0
    <3>1. \A d \in {0, 1, 2} : 0 * d = 0
      OBVIOUS
    <3> QED BY <2>3, <3>1
  <2>6. Filled(map, 0)'
    BY <2>4, <2>5 DEF Filled
  <2>7. Valid(0)'
    BY DEF Valid
  <2>8. configs' = Pulls(map)'
    BY <2>4 DEF Pulls
  <2>9. next' \in 1 .. num_pins' + 1 /\ next' - 1 = 0
    <3>1. \A k \in Nat : 1 \in 1 .. k + 1
      OBVIOUS
    <3>2. next' = 1
      BY <2>4
    <3>3. 1 \in 1 .. num_pins' + 1
      BY <2>2, <3>1
    <3>4. 1 - 1 = 0
      OBVIOUS
    <3> QED BY <3>2, <3>3, <3>4
  <2> QED BY <1>1, <1>2, <1>4, <2>1, <2>6, <2>7, <2>8, <2>9 DEF MapInv
<1> QED BY <1>1, <1>3, <1>4

LEMMA MapStep == ASSUME MapInv, MapNext \/ UNCHANGED mapVars PROVE MapInv'
<1>1. CASE NodeToMap
  BY <1>1, NodeToMapStep
<1>2. CASE MapPin
  BY <1>2, MapPinStep
<1>3. CASE MapDone
  <2>1. dt = "pins" /\ dt' = "ok" /\ next > num_pins /\ UNCHANGED <<node, map, configs, misfreed, next>>
    BY <1>3 DEF MapDone
  <2>2. NodeChecked' = NodeChecked /\ num_pins' = num_pins
    BY <2>1 DEF NodeChecked, num_pins, num_funcs, num_pulls
  <2>3. Filled(map, next - 1)' = Filled(map, next - 1) /\ Valid(next - 1)' = Valid(next - 1) /\ Pulls(map)' = Pulls(map)
    BY <2>1 DEF Filled, Valid, Pulls, FuncEntry, PullEntry, maps_per_pin, num_funcs, num_pulls
  <2>4. next \in 1 .. num_pins + 1 /\ num_pins \in Nat
    BY <2>1, MapNumbers DEF MapInv
  <2>5. next = num_pins + 1
    BY <2>1, <2>4
  <2> QED BY <2>1, <2>2, <2>3, <2>5 DEF MapInv
<1>4. CASE Forget
  <2>1. dt \in {"ok", "error"} /\ map' = <<>> /\ dt' = "idle" /\ next' = 1 /\ UNCHANGED node
    BY <1>4 DEF Forget
  <2>2. configs' = {} /\ ~ misfreed'
    <3>1. CASE dt = "ok"
      BY <1>4, <3>1, FreeAll DEF Forget
    <3>2. CASE dt = "error"
      BY <1>4, <3>2 DEF Forget, MapInv
    <3> QED BY <2>1, <3>1, <3>2
  <2> QED BY <2>1, <2>2 DEF MapInv
<1>5. CASE UNCHANGED mapVars
  BY ZenonT(40), <1>5 DEF mapVars, MapInv, NodeChecked, Filled, Valid, Pulls, FuncEntry, PullEntry, maps_per_pin,
              num_pins, num_funcs, num_pulls
<1> QED BY <1>1, <1>2, <1>3, <1>4, <1>5 DEF MapNext

\* The value of a pin is its own, or the one all share.
LEMMA CellValue ==
    ASSUME NEW s \in Seq(Nat), Len(s) > 0, NEW i
    PROVE  Cell(s, i) = IF Len(s) = 1 THEN s[1] ELSE s[i]
<1>1. PICK n \in Nat : n = Len(s) /\ n > 0
  BY LenProperties
<1>2. CASE n = 1
  BY <1>1, <1>2 DEF Cell
<1>3. CASE n # 1
  <2>1. n > 1
    BY <1>1, <1>3
  <2> QED BY <1>1, <1>3, <2>1 DEF Cell
<1> QED BY <1>2, <1>3

LEMMA MapKept == ASSUME MapInv PROVE MapsRight
<1>1. node \in [pins : Property, funcs : Property, pulls : Property]
  BY DEF MapInv
<1>2. /\ num_pins \in Nat /\ num_funcs \in Nat /\ num_pulls \in Nat
      /\ node.pins.cells \in Seq(Nat) /\ node.funcs.cells \in Seq(Nat) /\ node.pulls.cells \in Seq(Nat)
  BY <1>1, MapNumbers
<1>3. DOMAIN node.pins.cells = 1 .. num_pins
  BY <1>2, LenProperties DEF num_pins
<1> DEFINE value(cells, i) == IF Len(cells) = 1 THEN cells[1] ELSE cells[i]
           funcs == {<<"mux", node.pins.cells[i], value(node.funcs.cells, i)>> : i \in DOMAIN node.pins.cells}
           pulls == {<<"pull", node.pins.cells[i], value(node.pulls.cells, i)>> : i \in DOMAIN node.pins.cells}
<1>4. num_funcs > 0 => \A i : Cell(node.funcs.cells, i) = value(node.funcs.cells, i)
  BY <1>2, CellValue DEF num_funcs
<1>5. num_pulls > 0 => \A i : Cell(node.pulls.cells, i) = value(node.pulls.cells, i)
  BY <1>2, CellValue DEF num_pulls
<1>6. num_funcs > 0 => funcs = {FuncEntry(i) : i \in 1 .. num_pins}
  BY <1>3, <1>4 DEF FuncEntry
<1>7. num_pulls > 0 => pulls = {PullEntry(i) : i \in 1 .. num_pins}
  BY <1>3, <1>5 DEF PullEntry
<1> HIDE DEF value, funcs, pulls
<1>8. ASSUME dt = "ok"
      PROVE  /\ Range(map) = (IF num_funcs = 0 THEN {} ELSE funcs) \cup (IF num_pulls = 0 THEN {} ELSE pulls)
             /\ Range(node.pins.cells) \subseteq Pin
             /\ num_funcs > 0 => \A i \in DOMAIN node.pins.cells : value(node.funcs.cells, i) \in 0 .. 7
             /\ num_pulls > 0 => \A i \in DOMAIN node.pins.cells : value(node.pulls.cells, i) \in 0 .. 2
             /\ configs = {i \in DOMAIN map : map[i][1] = "pull"}
  <2>1. next - 1 = num_pins /\ NodeChecked /\ Filled(map, num_pins) /\ Valid(num_pins) /\ configs = Pulls(map)
    <3>1. next = num_pins + 1
      BY <1>8 DEF MapInv
    <3>2. next - 1 = num_pins
      BY <1>2, <3>1
    <3> QED BY <1>8, <3>2 DEF MapInv
  <2>2. map \in Seq(MapEntry) /\ DOMAIN map = 1 .. Len(map)
    BY <2>1, LenProperties DEF Filled
  <2>3. Range(map) = (IF num_funcs = 0 THEN {} ELSE funcs) \cup (IF num_pulls = 0 THEN {} ELSE pulls)
    <3>1. Range(map) = {map[k] : k \in 1 .. Len(map)}
      BY <2>2 DEF Range
    <3>2. ASSUME NEW k \in 1 .. Len(map)
          PROVE  (num_funcs > 0 /\ map[k] \in funcs) \/ (num_pulls > 0 /\ map[k] \in pulls)
      <4>1. PICK i \in 1 .. num_pins :
                (num_funcs > 0 /\ map[k] = FuncEntry(i)) \/ (num_pulls > 0 /\ map[k] = PullEntry(i))
        BY <2>1 DEF Filled
      <4> QED BY <1>6, <1>7, <4>1
    <3>3. ASSUME num_funcs > 0, NEW x \in funcs PROVE x \in Range(map)
      <4>1. PICK i \in 1 .. num_pins : x = FuncEntry(i)
        BY <1>6, <3>3
      <4>2. PICK k \in 1 .. Len(map) : map[k] = FuncEntry(i)
        BY <2>1, <3>3 DEF Filled
      <4> QED BY <3>1, <4>1, <4>2
    <3>4. ASSUME num_pulls > 0, NEW x \in pulls PROVE x \in Range(map)
      <4>1. PICK i \in 1 .. num_pins : x = PullEntry(i)
        BY <1>7, <3>4
      <4>2. PICK k \in 1 .. Len(map) : map[k] = PullEntry(i)
        BY <2>1, <3>4 DEF Filled
      <4> QED BY <3>1, <4>1, <4>2
    <3>5. (num_funcs = 0 <=> ~ (num_funcs > 0)) /\ (num_pulls = 0 <=> ~ (num_pulls > 0))
      BY <1>2
    <3>6. \A x \in Range(map) : (num_funcs > 0 /\ x \in funcs) \/ (num_pulls > 0 /\ x \in pulls)
      BY <3>1, <3>2
    <3> QED BY <3>3, <3>4, <3>5, <3>6
  <2>4. \A i \in 1 .. num_pins : node.pins.cells[i] \in Pin
    <3>1. \A i \in 1 .. num_pins : node.pins.cells[i] \in Nat /\ node.pins.cells[i] < BCM2835_NUM_GPIOS
      BY <1>1, <2>1, EntryTypes DEF Valid
    <3>2. \A p \in Nat : p < BCM2835_NUM_GPIOS => p \in Pin
      BY DEF Pin, BCM2835_NUM_GPIOS
    <3> QED BY <3>1, <3>2
  <2>5. Range(node.pins.cells) \subseteq Pin
    BY <1>3, <2>4 DEF Range
  <2>6. ASSUME num_funcs > 0, NEW i \in 1 .. num_pins PROVE value(node.funcs.cells, i) \in 0 .. 7
    <3>1. Cell(node.funcs.cells, i) \in fsel_values
      BY <2>1, <2>6 DEF Valid
    <3> QED BY <1>4, <2>6, <3>1 DEF fsel_values
  <2>7. ASSUME num_pulls > 0, NEW i \in 1 .. num_pins PROVE value(node.pulls.cells, i) \in 0 .. 2
    <3>1. Cell(node.pulls.cells, i) \in Nat /\ Cell(node.pulls.cells, i) <= 2
      BY <1>1, <2>1, <2>7, EntryTypes DEF Valid
    <3> QED BY <1>5, <2>7, <3>1
  <2>8. configs = {i \in DOMAIN map : map[i][1] = "pull"}
    BY <2>1, <2>2 DEF Pulls
  <2> QED BY <1>3, <2>3, <2>5, <2>6, <2>7, <2>8
<1>9. (dt \in {"idle", "error"} => configs = {}) /\ ~ misfreed
  BY DEF MapInv
<1> QED BY <1>8, <1>9 DEF MapsRight, value, funcs, pulls

------------------------------------------------------------------------------
(* The driver: the three parts, each with its own variables.                 *)

Bcm2835Inv == case \in Cases /\ MuxInv /\ IrqInv /\ MapInv

LEMMA Bcm2835Init == Init => Bcm2835Inv
BY MuxInitInv, IrqInitInv, MapInitInv DEF Init, Bcm2835Inv

LEMMA Bcm2835Parts ==
    ASSUME [Next]_vars
    PROVE  /\ case' = case
           /\ MuxNext \/ UNCHANGED muxVars
           /\ IrqNext \/ UNCHANGED irqVars
           /\ MapNext \/ UNCHANGED mapVars
BY DEF Next, vars

LEMMA Bcm2835Step == Bcm2835Inv /\ [Next]_vars => Bcm2835Inv'
<1> SUFFICES ASSUME Bcm2835Inv, [Next]_vars PROVE Bcm2835Inv'
  OBVIOUS
<1>1. /\ case \in Cases /\ MuxInv /\ IrqInv /\ MapInv /\ case' = case
      /\ MuxNext \/ UNCHANGED muxVars
      /\ IrqNext \/ UNCHANGED irqVars
      /\ MapNext \/ UNCHANGED mapVars
  BY Bcm2835Parts DEF Bcm2835Inv
<1>2. MuxInv'
  BY <1>1, MuxStep
<1>3. IrqInv'
  BY <1>1, IrqStep
<1>4. MapInv'
  BY <1>1, MapStep
<1> QED BY <1>1, <1>2, <1>3, <1>4 DEF Bcm2835Inv

LEMMA Bcm2835Always == Spec => []Bcm2835Inv
BY Bcm2835Init, Bcm2835Step, PTL DEF Spec

\* The registers keep their types; the core's mutex is held only by calls of
\* GPIO users (gpio_direction_input() and gpio_direction_output()), and
\* irq_lock[] by an actor exactly while it has detector operations left to do.
THEOREM Bcm2835TypeOK == Spec => []TypeOK
<1>1. Bcm2835Inv => TypeOK
  BY MuxKept, IrqKept DEF Bcm2835Inv, TypeOK
<1> QED BY <1>1, Bcm2835Always, PTL

\* A pin that no call works on has the function, the level and the pull last
\* asked for by bcm2835_pmx_set(), bcm2835_gpio_set() and
\* bcm2835_pinconf_set(), except a pin whose register another call was
\* rewriting at the same time: the driver has no lock there.
THEOREM Bcm2835SettingsKept == Spec => []MuxSettingsKept
<1>1. Bcm2835Inv => MuxSettingsKept
  BY MuxKept DEF Bcm2835Inv
<1> QED BY <1>1, Bcm2835Always, PTL

\* bcm2835_pinctrl_fsel_set() takes a pin from one function to another through
\* GPIO_IN, and a pin becomes an output only at the level asked for, unless
\* calls for pins of one register overlapped.
THEOREM Bcm2835CleanTransitions == Spec => CleanTransitions
<1>1. Bcm2835Inv /\ [Next]_vars => [CleanStep]_muxVars
  BY Bcm2835Parts, MuxClean DEF Bcm2835Inv
<1> QED BY <1>1, Bcm2835Always, PTL DEF Spec, CleanTransitions, CleanStep

\* While no operation on a pin is under way, the detectors set for it are those
\* of the type bcm2835_gpio_irq_set_type() recorded if the pin is enabled, and
\* none if it is not, whichever calls and handlers came before.
THEOREM Bcm2835DetectsByType == Spec => []DetectsByType
<1>1. Bcm2835Inv => DetectsByType
  BY IrqKept DEF Bcm2835Inv
<1> QED BY <1>1, Bcm2835Always, PTL

\* While no operation on a pin is under way, its event status is set only if
\* the pin is enabled: bcm2835_gpio_irq_disable() clears the event after the
\* detectors.
THEOREM Bcm2835NoEventLeft == Spec => []NoEventLeft
<1>1. Bcm2835Inv => NoEventLeft
  BY IrqKept DEF Bcm2835Inv
<1> QED BY <1>1, Bcm2835Always, PTL

\* bcm2835_pctl_dt_node_to_map() succeeds only with an entry for every pin's
\* function and pull and no other, all of them valid; and when it fails, or
\* bcm2835_pctl_dt_free_map() is done, every configuration was freed, once.
THEOREM Bcm2835MapsRight == Spec => []MapsRight
<1>1. Bcm2835Inv => MapsRight
  BY MapKept DEF Bcm2835Inv
<1> QED BY <1>1, Bcm2835Always, PTL
===============================================================================
