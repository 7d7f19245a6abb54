---------------------------- MODULE GpioMmioProofs ----------------------------
(***************************************************************************)
(* The generic memory-mapped GPIO driver keeps the promise of GpioLines    *)
(* for any number of lines, threads and kinds of chips.                    *)
(***************************************************************************)
EXTENDS GpioMmio, TLAPS

\* Levels for some of the lines.
Vals == UNION {[L -> BOOLEAN] : L \in SUBSET Line}

ThreadState ==
    [pc : {"idle", "data", "clear", "data locked", "dir", "dir locked"},
     vals : Vals, dir : {"none", "in", "out"}, tmp : Reg]

Types ==
    /\ chip \in Chips /\ ready \in BOOLEAN
    /\ lat \in Reg /\ dirreg \in Reg /\ data \in Reg /\ dir \in Reg
    /\ want \in [Line -> {"in", "low", "high"}]
    /\ th \in [Thread -> ThreadState]

\* bgpio_lock is held from reading a shadow to writing it.
LockInv ==
    /\ lock \in Thread \cup {NoThread}
    /\ \A t \in Thread : lock = t <=> th[t].pc \in {"data locked", "dir locked"}

HasDir == direction \in {"dir_out", "dir_out_inv"}
Shadowed == io \in {"set", "set_set"}

\* The shadow of the directions is the register, and the shadow of the levels
\* is right about every line that drives its pin.
Shadows ==
    /\ ~ ready => dir = Zero /\ ("UNREADABLE_REG_DIR" \in chip.flags => dirreg = Zero)
    /\ ready /\ HasDir => dir = dirreg
    /\ ready /\ ~ HasDir => dir = Zero
    /\ ready /\ Shadowed => \A l \in Line : drives(pin2mask(l)) => data[pin2mask(l)] = lat[pin2mask(l)]

\* How far the call of a thread is: which calls take which steps, ...
Phase(t) ==
    /\ \A l \in DOMAIN th[t].vals : Owner[l] = t
    /\ th[t].pc = "idle" => DOMAIN th[t].vals = {}
    /\ th[t].pc # "idle" => ready
    /\ th[t].pc = "clear" => io = "set_with_clear"
    /\ th[t].pc = "data locked" => Shadowed
    /\ th[t].pc \in {"dir", "dir locked"} => th[t].dir # "none"
    /\ th[t].dir = "in" => th[t].pc \in {"dir", "dir locked"}
    /\ th[t].dir # "none" => HasDir

\* ... what it is about to write, ...
Copies(t) ==
    \A l \in Line :
        /\ th[t].pc = "data locked" => th[t].tmp[pin2mask(l)] =
              IF l \in DOMAIN th[t].vals THEN th[t].vals[l] ELSE data[pin2mask(l)]
        /\ th[t].pc = "dir locked" => th[t].tmp[pin2mask(l)] =
              IF l \in DOMAIN th[t].vals THEN (th[t].dir = "out") # inverted ELSE dir[pin2mask(l)]

\* ... what it has written, ...
Written(t) ==
    \A l \in DOMAIN th[t].vals :
        /\ th[t].pc = "clear" /\ th[t].vals[l] => lat[pin2mask(l)]
        /\ th[t].pc \in {"dir", "dir locked"} /\ th[t].dir = "out" =>
              /\ lat[pin2mask(l)] = th[t].vals[l]
              /\ Shadowed => data[pin2mask(l)] = lat[pin2mask(l)]

\* ... and what it was asked for.
Asked(t) ==
    \A l \in DOMAIN th[t].vals :
        /\ th[t].dir = "in" => want[l] = "in"
        /\ th[t].dir = "out" => want[l] = Level(th[t].vals[l])
        /\ th[t].dir = "none" => want[l] = IF drives(pin2mask(l)) THEN Level(th[t].vals[l]) ELSE "in"

CallInv(t) == Phase(t) /\ Copies(t) /\ Written(t) /\ Asked(t)

MmioInv == Types /\ LockInv /\ Shadows /\ \A t \in Thread : CallInv(t)

-------------------------------------------------------------------------------
LEMMA ValsFacts ==
    ASSUME NEW v \in Vals
    PROVE  DOMAIN v \subseteq Line /\ \A l \in DOMAIN v : v[l] \in BOOLEAN
  BY DEF Vals

\* Each line has a bit of its own.
LEMMA PinBits ==
    /\ \A l \in Line : pin2mask(l) \in Line
    /\ \A k, l \in Line : pin2mask(k) = pin2mask(l) => k = l
  BY MmioAssumption DEF Line, pin2mask

LEMMA MasksAt ==
    ASSUME NEW v \in Vals, NEW l \in Line, NEW w \in BOOLEAN
    PROVE  pin2mask(l) \in Masks(v, w) <=> l \in DOMAIN v /\ v[l] = w
<1>1. ASSUME pin2mask(l) \in Masks(v, w) PROVE l \in DOMAIN v /\ v[l] = w
  <2>1. PICK k \in DOMAIN v : v[k] = w /\ pin2mask(l) = pin2mask(k)
    BY <1>1 DEF Masks
  <2>2. k = l
    BY <2>1, ValsFacts, PinBits
  <2> QED BY <2>1, <2>2
<1>2. ASSUME l \in DOMAIN v, v[l] = w PROVE pin2mask(l) \in Masks(v, w)
  BY <1>2 DEF Masks
<1> QED BY <1>1, <1>2

\* The new contents of a register of levels, line by line.
LEMMA ApplyAt ==
    ASSUME NEW reg \in Reg, NEW v \in Vals
    PROVE  /\ Apply(reg, v) \in Reg
           /\ \A l \in Line : Apply(reg, v)[pin2mask(l)] = IF l \in DOMAIN v THEN v[l] ELSE reg[pin2mask(l)]
<1>1. Apply(reg, v) \in Reg
  BY DEF Apply, Reg
<1>2. ASSUME NEW l \in Line
      PROVE  Apply(reg, v)[pin2mask(l)] = IF l \in DOMAIN v THEN v[l] ELSE reg[pin2mask(l)]
  <2> DEFINE b == pin2mask(l)
  <2>1. /\ b \in Line /\ reg[b] \in BOOLEAN
        /\ Apply(reg, v)[b] = (b \in Masks(v, TRUE) \/ (reg[b] /\ b \notin Masks(v, FALSE)))
    BY PinBits DEF Apply, Reg
  <2>2. /\ b \in Masks(v, TRUE) <=> l \in DOMAIN v /\ v[l] = TRUE
        /\ b \in Masks(v, FALSE) <=> l \in DOMAIN v /\ v[l] = FALSE
    BY MasksAt
  <2>3. l \in DOMAIN v => v[l] \in BOOLEAN
    BY ValsFacts
  <2>4. CASE l \notin DOMAIN v
    BY <2>1, <2>2, <2>4, Zenon
  <2>5. CASE l \in DOMAIN v /\ v[l] = TRUE
    BY <2>1, <2>2, <2>5, Zenon
  <2>6. CASE l \in DOMAIN v /\ v[l] = FALSE
    BY <2>1, <2>2, <2>6, Zenon
  <2> QED BY <2>3, <2>4, <2>5, <2>6
<1> QED BY <1>1, <1>2

\* The new directions.
NewDir(t) ==
    [b \in Line |-> IF b \in Masks(th[t].vals, TRUE) \cup Masks(th[t].vals, FALSE)
                    THEN (th[t].dir = "out") # inverted ELSE dir[b]]

LEMMA NewDirAt ==
    ASSUME Types, NEW t \in Thread
    PROVE  /\ NewDir(t) \in Reg
           /\ \A l \in Line : NewDir(t)[pin2mask(l)] =
                  IF l \in DOMAIN th[t].vals THEN (th[t].dir = "out") # inverted ELSE dir[pin2mask(l)]
<1>1. th[t].vals \in Vals /\ dir \in Reg
  BY DEF Types, ThreadState
<1>2. NewDir(t) \in Reg
  BY <1>1 DEF NewDir, Reg
<1>3. ASSUME NEW l \in Line
      PROVE  NewDir(t)[pin2mask(l)] =
                  IF l \in DOMAIN th[t].vals THEN (th[t].dir = "out") # inverted ELSE dir[pin2mask(l)]
  <2>1. pin2mask(l) \in Line
    BY PinBits
  <2>2. pin2mask(l) \in Masks(th[t].vals, TRUE) \cup Masks(th[t].vals, FALSE) <=> l \in DOMAIN th[t].vals
    BY <1>1, MasksAt, ValsFacts
  <2> QED BY <2>1, <2>2 DEF NewDir
<1> QED BY <1>2, <1>3

-------------------------------------------------------------------------------
\* What is decided by the chip stays, and a line drives its pin as long as its
\* direction bit stays.
LEMMA SameChip ==
    ASSUME chip' = chip
    PROVE  /\ io' = io /\ direction' = direction /\ (inverted' <=> inverted)
           /\ (HasDir' <=> HasDir) /\ (Shadowed' <=> Shadowed)
           /\ \A l : pin2mask(l)' = pin2mask(l)
           /\ \A b : dirreg'[b] = dirreg[b] => (drives(b)' <=> drives(b))
  BY DEF io, direction, inverted, HasDir, Shadowed, pin2mask, drives

LEMMA IdleTyped == Idle \in ThreadState /\ Idle.pc = "idle" /\ DOMAIN Idle.vals = {}
<1>1. << >> \in [{} -> BOOLEAN]
  OBVIOUS
<1>2. << >> \in Vals
  BY <1>1 DEF Vals
<1>3. Zero \in Reg
  BY DEF Zero, Reg
<1> QED BY <1>2, <1>3 DEF Idle, ThreadState

LEMMA GotoFacts ==
    ASSUME Types, NEW t \in Thread, NEW tmp \in Reg,
           NEW pc \in {"data", "clear", "data locked", "dir", "dir locked"}, Goto(t, pc, tmp)
    PROVE  /\ th' \in [Thread -> ThreadState]
           /\ th'[t].pc = pc /\ th'[t].tmp = tmp
           /\ th'[t].vals = th[t].vals /\ th'[t].dir = th[t].dir
           /\ \A u \in Thread : u # t => th'[u] = th[u]
  BY DEF Types, ThreadState, Goto

LEMMA ReturnFacts ==
    ASSUME Types, NEW t \in Thread, Return(t)
    PROVE  /\ th' \in [Thread -> ThreadState]
           /\ th'[t] = Idle
           /\ \A u \in Thread : u # t => th'[u] = th[u]
  BY IdleTyped DEF Types, Return

LEMMA StTyped ==
    ASSUME lat \in Reg
    PROVE  st \in [Line -> {"in", "low", "high"}]
  BY DEF st, Level

\* A call no step of its own was taken for, and whose lines were left alone.
LEMMA OtherCall ==
    ASSUME NEW u \in Thread, CallInv(u), Types, Types',
           chip' = chip, th'[u] = th[u], ready => ready',
           th[u].pc = "data locked" => data' = data,
           th[u].pc = "dir locked" => dir' = dir,
           \A l \in DOMAIN th[u].vals :
              want'[l] = want[l] /\ dirreg'[pin2mask(l)] = dirreg[pin2mask(l)]
    PROVE  Phase(u)' /\ Copies(u)' /\ Asked(u)'
<1>1. th[u].vals \in Vals /\ DOMAIN th[u].vals \subseteq Line
  BY ValsFacts DEF Types, ThreadState
<1>2. Phase(u)'
  BY SameChip DEF CallInv, Phase
<1>3. Copies(u)'
  <2> SUFFICES ASSUME NEW l \in Line
               PROVE  /\ th'[u].pc = "data locked" => th'[u].tmp[pin2mask(l)'] =
                            IF l \in DOMAIN th'[u].vals THEN th'[u].vals[l] ELSE data'[pin2mask(l)']
                      /\ th'[u].pc = "dir locked" => th'[u].tmp[pin2mask(l)'] =
                            IF l \in DOMAIN th'[u].vals THEN (th'[u].dir = "out") # inverted' ELSE dir'[pin2mask(l)']
    BY DEF Copies
  <2>1. pin2mask(l)' = pin2mask(l) /\ (inverted' <=> inverted)
    BY SameChip
  <2>2. /\ th[u].pc = "data locked" => th[u].tmp[pin2mask(l)] =
                IF l \in DOMAIN th[u].vals THEN th[u].vals[l] ELSE data[pin2mask(l)]
        /\ th[u].pc = "dir locked" => th[u].tmp[pin2mask(l)] =
                IF l \in DOMAIN th[u].vals THEN (th[u].dir = "out") # inverted ELSE dir[pin2mask(l)]
    BY DEF CallInv, Copies
  <2> QED BY <2>1, <2>2
<1>4. Asked(u)'
  <2> SUFFICES ASSUME NEW l \in DOMAIN th[u].vals
               PROVE  /\ th[u].dir = "in" => want'[l] = "in"
                      /\ th[u].dir = "out" => want'[l] = Level(th[u].vals[l])
                      /\ th[u].dir = "none" =>
                            want'[l] = IF drives(pin2mask(l))' THEN Level(th[u].vals[l]) ELSE "in"
    BY DEF Asked, Level
  <2>1. drives(pin2mask(l))' <=> drives(pin2mask(l))
    BY SameChip DEF drives
  <2> QED BY <2>1 DEF CallInv, Asked
<1> QED BY <1>2, <1>3, <1>4

\* What a call has written stays while its lines are left alone.
LEMMA OtherWritten ==
    ASSUME NEW u \in Thread, CallInv(u), chip' = chip, th'[u] = th[u],
           \A l \in DOMAIN th[u].vals :
              /\ lat'[pin2mask(l)] = lat[pin2mask(l)]
              /\ Shadowed /\ data[pin2mask(l)] = lat[pin2mask(l)] => data'[pin2mask(l)] = lat[pin2mask(l)]
    PROVE  Written(u)'
<1> SUFFICES ASSUME NEW l \in DOMAIN th[u].vals
             PROVE  /\ th[u].pc = "clear" /\ th[u].vals[l] => lat'[pin2mask(l)']
                    /\ th[u].pc \in {"dir", "dir locked"} /\ th[u].dir = "out" =>
                          /\ lat'[pin2mask(l)'] = th[u].vals[l]
                          /\ Shadowed' => data'[pin2mask(l)'] = lat'[pin2mask(l)']
  BY DEF Written
<1>1. pin2mask(l)' = pin2mask(l) /\ (Shadowed' <=> Shadowed)
  BY SameChip
<1>2. /\ th[u].pc = "clear" /\ th[u].vals[l] => lat[pin2mask(l)]
      /\ th[u].pc \in {"dir", "dir locked"} /\ th[u].dir = "out" =>
            /\ lat[pin2mask(l)] = th[u].vals[l]
            /\ Shadowed => data[pin2mask(l)] = lat[pin2mask(l)]
  BY DEF CallInv, Written
<1> QED BY <1>1, <1>2

\* Two threads work on different lines.
LEMMA OwnLines ==
    ASSUME NEW t \in Thread, NEW u \in Thread, Phase(t), Phase(u), u # t, NEW l \in DOMAIN th[u].vals
    PROVE  l \notin DOMAIN th[t].vals
  BY DEF Phase

\* The lock excludes the other threads.
LEMMA OthersWait ==
    ASSUME LockInv, NEW t \in Thread, NEW u \in Thread, u # t, lock \in {t, NoThread}
    PROVE  th[u].pc \notin {"data locked", "dir locked"}
  BY MmioAssumption DEF LockInv, NoThread

LEMMA SameShadows ==
    ASSUME Shadows, UNCHANGED <<chip, ready, lat, dirreg, data, dir>>
    PROVE  Shadows'
  BY SameChip DEF Shadows

-------------------------------------------------------------------------------
LEMMA MmioInit == Init => MmioInv
<1> SUFFICES ASSUME Init PROVE MmioInv
  OBVIOUS
<1>1. \A t \in Thread : th[t].pc = "idle" /\ th[t].dir = "none" /\ DOMAIN th[t].vals = {}
  BY IdleTyped DEF Init, Idle
<1>2. Zero \in Reg
  BY DEF Zero, Reg
<1>3. lat \in Reg /\ dirreg \in Reg
  BY <1>2 DEF Init
<1>4. Types
  BY <1>2, <1>3, IdleTyped, StTyped DEF Init, Types
<1>5. LockInv
  BY <1>1, MmioAssumption DEF Init, LockInv, NoThread
<1>6. Shadows
  BY DEF Init, Shadows
<1>7. ASSUME NEW t \in Thread PROVE CallInv(t)
  BY <1>1 DEF CallInv, Phase, Copies, Written, Asked
<1> QED BY <1>4, <1>5, <1>6, <1>7 DEF MmioInv

\* bgpio_init() makes the shadows right.
LEMMA InitStep == ASSUME MmioInv, bgpio_init PROVE MmioInv'
<1> USE DEF MmioInv
<1>1. /\ ~ ready /\ ready' = TRUE /\ UNCHANGED <<chip, lat, dirreg, lock, th, want>>
  BY DEF bgpio_init
<1>2. \A t \in Thread : th[t].pc = "idle" /\ DOMAIN th[t].vals = {}
  BY <1>1 DEF CallInv, Phase
<1>3. read_dat \in Reg
  BY MmioAssumption DEF read_dat, Reg, Types, Line
<1>4. Types'
  BY <1>1, <1>3 DEF bgpio_init, Types
<1>5. LockInv'
  BY <1>1 DEF LockInv
<1>6. /\ HasDir => dir' = dirreg
      /\ ~ HasDir => dir' = Zero
  BY <1>1 DEF bgpio_init, Shadows, HasDir
<1>7. ASSUME Shadowed, NEW l \in Line, drives(pin2mask(l))
      PROVE  data'[pin2mask(l)] = lat[pin2mask(l)]
  <2>1. CASE io = "set_set" /\ "UNREADABLE_REG_SET" \notin chip.flags
    BY <2>1 DEF bgpio_init
  <2>2. CASE ~ (io = "set_set" /\ "UNREADABLE_REG_SET" \notin chip.flags)
    <3>1. "READ_OUTPUT_REG_SET" \notin chip.flags
      <4>1. chip \in Chips
        BY DEF Types
      <4> QED BY <1>7, <2>2, <4>1, MmioAssumption DEF Shadowed, io, setup_io
    <3>2. data' = read_dat /\ pin2mask(l) \in Line
      BY <2>2, PinBits DEF bgpio_init
    <3> QED BY <1>7, <3>1, <3>2 DEF read_dat
  <2> QED BY <2>1, <2>2
<1>8. Shadows'
  BY <1>1, <1>6, <1>7, SameChip DEF Shadows
<1>9. ASSUME NEW u \in Thread PROVE CallInv(u)'
  <2>1. Phase(u)' /\ Copies(u)' /\ Asked(u)'
    BY <1>1, <1>2, <1>4, OtherCall
  <2>2. Written(u)'
    BY <1>1, <1>2, OtherWritten
  <2> QED BY <2>1, <2>2 DEF CallInv
<1> QED BY <1>4, <1>5, <1>8, <1>9

\* A call starts.
LEMMA CallStep ==
    ASSUME MmioInv, NEW t \in Thread, NEW pc \in {"data", "dir"}, NEW v \in Vals,
           NEW d \in {"none", "in", "out"}, NEW w \in [DOMAIN v -> {"in", "low", "high"}],
           Call(t, pc, v, d, w),
           d = "in" <=> pc = "dir", d # "none" => HasDir,
           \A l \in DOMAIN v :
              /\ d = "in" => w[l] = "in"
              /\ d = "out" => w[l] = Level(v[l])
              /\ d = "none" => w[l] = IF drives(pin2mask(l)) THEN Level(v[l]) ELSE "in"
    PROVE  MmioInv'
<1> USE DEF MmioInv
<1>1. /\ ready /\ th[t].pc = "idle"
      /\ \A l \in DOMAIN v : Owner[l] = t
      /\ UNCHANGED <<chip, ready, lat, dirreg, data, dir, lock>>
  BY DEF Call
<1>2. /\ th' \in [Thread -> ThreadState]
      /\ th'[t].pc = pc /\ th'[t].vals = v /\ th'[t].dir = d
      /\ \A u \in Thread : u # t => th'[u] = th[u]
  <2>1. Zero \in Reg
    BY DEF Zero, Reg
  <2> QED BY <2>1 DEF Call, Types, ThreadState
<1>3. /\ want' \in [Line -> {"in", "low", "high"}]
      /\ \A l \in Line : want'[l] = IF l \in DOMAIN v THEN w[l] ELSE want[l]
  <2>1. DOMAIN v \subseteq Line
    BY ValsFacts
  <2> QED BY <2>1 DEF Call, Types
<1>4. Types'
  BY <1>1, <1>2, <1>3 DEF Types
<1>5. LockInv'
  BY <1>1, <1>2 DEF LockInv
<1>6. Shadows'
  BY <1>1, SameShadows
<1>7. ASSUME NEW u \in Thread, u # t PROVE CallInv(u)'
  <2>1. th'[u] = th[u] /\ CallInv(u)
    BY <1>2, <1>7
  <2>2. \A l \in DOMAIN th[u].vals : want'[l] = want[l]
    <3>1. \A l \in DOMAIN th[u].vals : l \in Line /\ Owner[l] = u
      BY ValsFacts DEF Types, ThreadState, CallInv, Phase
    <3> QED BY <1>1, <1>3, <1>7, <3>1
  <2>3. Phase(u)' /\ Copies(u)' /\ Asked(u)'
    BY <1>1, <1>4, <2>1, <2>2, OtherCall
  <2>4. Written(u)'
    BY <1>1, <2>1, OtherWritten
  <2> QED BY <2>3, <2>4 DEF CallInv
<1>8. CallInv(t)'
  <2>1. Phase(t)'
    BY <1>1, <1>2, SameChip DEF Phase
  <2>2. Copies(t)' /\ Written(t)'
    BY <1>2 DEF Copies, Written
  <2>3. Asked(t)'
    <3> SUFFICES ASSUME NEW l \in DOMAIN v
                 PROVE  /\ d = "in" => want'[l] = "in"
                        /\ d = "out" => want'[l] = Level(v[l])
                        /\ d = "none" => want'[l] = IF drives(pin2mask(l))' THEN Level(v[l]) ELSE "in"
      BY <1>2 DEF Asked, Level
    <3>1. drives(pin2mask(l))' <=> drives(pin2mask(l))
      BY <1>1, SameChip DEF drives
    <3>2. want'[l] = w[l]
      BY <1>3, ValsFacts
    <3> QED BY <3>1, <3>2
  <2> QED BY <2>1, <2>2, <2>3 DEF CallInv
<1> QED BY <1>4, <1>5, <1>6, <1>7, <1>8

\* The call has set the levels: it returns, or goes on with the direction.
LEMMA AfterDataFacts ==
    ASSUME Types, NEW t \in Thread, AfterData(t)
    PROVE  /\ th' \in [Thread -> ThreadState]
           /\ \A u \in Thread : u # t => th'[u] = th[u]
           /\ \/ th[t].dir = "none" /\ th'[t] = Idle
              \/ /\ th[t].dir # "none" /\ th'[t].pc = "dir"
                 /\ th'[t].vals = th[t].vals /\ th'[t].dir = th[t].dir
<1>1. Zero \in Reg
  BY DEF Zero, Reg
<1>2. CASE th[t].dir = "none"
  BY <1>2, ReturnFacts DEF AfterData
<1>3. CASE th[t].dir # "none"
  BY <1>1, <1>3, GotoFacts DEF AfterData
<1> QED BY <1>2, <1>3

LEMMA IdleCall == ASSUME NEW t \in Thread, th'[t] = Idle PROVE CallInv(t)'
<1>1. th'[t].pc = "idle" /\ th'[t].dir = "none" /\ DOMAIN th'[t].vals = {}
  BY IdleTyped DEF Idle
<1> QED BY <1>1 DEF CallInv, Phase, Copies, Written, Asked

LEMMA SameAsked ==
    ASSUME NEW t \in Thread, CallInv(t), UNCHANGED <<chip, dirreg, want>>,
           th'[t].vals = th[t].vals, th'[t].dir = th[t].dir
    PROVE  Asked(t)'
<1> SUFFICES ASSUME NEW l \in DOMAIN th[t].vals
             PROVE  /\ th[t].dir = "in" => want[l] = "in"
                    /\ th[t].dir = "out" => want[l] = Level(th[t].vals[l])
                    /\ th[t].dir = "none" => want[l] = IF drives(pin2mask(l))' THEN Level(th[t].vals[l]) ELSE "in"
  BY DEF Asked, Level
<1>1. drives(pin2mask(l))' <=> drives(pin2mask(l))
  BY SameChip DEF drives
<1> QED BY <1>1 DEF CallInv, Asked

\* The write to the set register: only levels of the call's lines change.
LEMMA SetAt ==
    ASSUME Types, NEW t \in Thread, NEW w \in BOOLEAN, NEW l \in Line
    PROVE  pin2mask(l) \in Masks(th[t].vals, w) <=> l \in DOMAIN th[t].vals /\ th[t].vals[l] = w
  BY MasksAt DEF Types, ThreadState

LEMMA WriteSetStep == ASSUME MmioInv, NEW t \in Thread, WriteSet(t) PROVE MmioInv'
<1> USE DEF MmioInv
<1>1. /\ th[t].pc = "data" /\ io = "set_with_clear" /\ Goto(t, "clear", Zero)
      /\ UNCHANGED <<chip, ready, dirreg, data, dir, lock, want>>
  BY DEF WriteSet
<1>2. /\ th' \in [Thread -> ThreadState] /\ th'[t].pc = "clear"
      /\ th'[t].vals = th[t].vals /\ th'[t].dir = th[t].dir
      /\ \A u \in Thread : u # t => th'[u] = th[u]
  <2>1. Zero \in Reg
    BY DEF Zero, Reg
  <2> QED BY <1>1, <2>1, GotoFacts
<1>3. lat' \in Reg
  BY DEF WriteSet, Reg, Types
<1>4. Types'
  BY <1>1, <1>2, <1>3 DEF Types
<1>5. LockInv'
  BY <1>1, <1>2 DEF LockInv
<1>6. Shadows'
  <2>1. ~ Shadowed
    BY <1>1 DEF Shadowed
  <2> QED BY <1>1, <2>1, SameChip DEF Shadows
<1>7. ASSUME NEW l \in Line
      PROVE  lat'[pin2mask(l)] = (lat[pin2mask(l)] \/ (l \in DOMAIN th[t].vals /\ th[t].vals[l] = TRUE))
  <2>1. lat'[pin2mask(l)] = (lat[pin2mask(l)] \/ pin2mask(l) \in Masks(th[t].vals, TRUE))
    BY PinBits DEF WriteSet
  <2> QED BY <2>1, SetAt
<1>8. ASSUME NEW u \in Thread, u # t PROVE CallInv(u)'
  <2>1. th'[u] = th[u] /\ CallInv(u) /\ CallInv(t)
    BY <1>2, <1>8
  <2>2. Phase(u)' /\ Copies(u)' /\ Asked(u)'
    BY <1>1, <1>4, <2>1, OtherCall
  <2>3. ASSUME NEW l \in DOMAIN th[u].vals PROVE lat'[pin2mask(l)] = lat[pin2mask(l)]
    <3>1. l \in Line /\ pin2mask(l) \in Line
      BY ValsFacts, PinBits DEF Types, ThreadState
    <3>2. l \notin DOMAIN th[t].vals
      BY <1>8, <2>1, OwnLines DEF CallInv
    <3>3. lat[pin2mask(l)] \in BOOLEAN
      BY <3>1 DEF Types, Reg
    <3> QED BY <1>7, <3>1, <3>2, <3>3
  <2>4. Written(u)'
    BY <1>1, <2>1, <2>3, OtherWritten
  <2> QED BY <2>2, <2>4 DEF CallInv
<1>9. CallInv(t)'
  <2>1. CallInv(t)
    OBVIOUS
  <2>2. Phase(t)'
    BY <1>1, <1>2, <2>1, SameChip DEF CallInv, Phase
  <2>3. Copies(t)'
    BY <1>2 DEF Copies
  <2>4. Written(t)'
    <3> SUFFICES ASSUME NEW l \in DOMAIN th[t].vals, th[t].vals[l] = TRUE PROVE lat'[pin2mask(l)']
      BY <1>2, ValsFacts DEF Written, Types, ThreadState
    <3>1. l \in Line /\ pin2mask(l)' = pin2mask(l)
      BY <1>1, SameChip, ValsFacts DEF Types, ThreadState
    <3> QED BY <1>7, <3>1
  <2>5. Asked(t)'
    BY <1>1, <1>2, <2>1, SameAsked
  <2> QED BY <2>2, <2>3, <2>4, <2>5 DEF CallInv
<1> QED BY <1>4, <1>5, <1>6, <1>8, <1>9
\* The write to the clear register finishes the levels.
LEMMA WriteClearStep == ASSUME MmioInv, NEW t \in Thread, WriteClear(t) PROVE MmioInv'
<1> USE DEF MmioInv
<1>1. /\ th[t].pc = "clear" /\ AfterData(t)
      /\ UNCHANGED <<chip, ready, dirreg, data, dir, lock, want>>
  BY DEF WriteClear
<1>2. CallInv(t) /\ io = "set_with_clear" /\ ~ Shadowed
  BY <1>1 DEF CallInv, Phase, Shadowed
<1>3. /\ th' \in [Thread -> ThreadState]
      /\ \A u \in Thread : u # t => th'[u] = th[u]
      /\ \/ th[t].dir = "none" /\ th'[t] = Idle
         \/ /\ th[t].dir # "none" /\ th'[t].pc = "dir"
            /\ th'[t].vals = th[t].vals /\ th'[t].dir = th[t].dir
  BY <1>1, AfterDataFacts
<1>4. lat' \in Reg
  BY DEF WriteClear, Reg, Types
<1>5. Types'
  BY <1>1, <1>3, <1>4 DEF Types
<1>6. LockInv'
  <2>1. th'[t].pc \in {"idle", "dir"}
    BY <1>3 DEF Idle
  <2> QED BY <1>1, <1>3, <2>1 DEF LockInv
<1>7. Shadows'
  BY <1>1, <1>2, SameChip DEF Shadows
<1>8. ASSUME NEW l \in Line
      PROVE  lat'[pin2mask(l)] = (lat[pin2mask(l)] /\ ~ (l \in DOMAIN th[t].vals /\ th[t].vals[l] = FALSE))
  <2>1. lat'[pin2mask(l)] = (lat[pin2mask(l)] /\ pin2mask(l) \notin Masks(th[t].vals, FALSE))
    BY PinBits DEF WriteClear
  <2> QED BY <2>1, SetAt
<1>9. ASSUME NEW u \in Thread, u # t PROVE CallInv(u)'
  <2>1. th'[u] = th[u] /\ CallInv(u)
    BY <1>3, <1>9
  <2>2. Phase(u)' /\ Copies(u)' /\ Asked(u)'
    BY <1>1, <1>5, <2>1, OtherCall
  <2>3. ASSUME NEW l \in DOMAIN th[u].vals PROVE lat'[pin2mask(l)] = lat[pin2mask(l)]
    <3>1. l \in Line /\ pin2mask(l) \in Line
      BY ValsFacts, PinBits DEF Types, ThreadState
    <3>2. l \notin DOMAIN th[t].vals
      BY <1>2, <1>9, <2>1, OwnLines DEF CallInv
    <3>3. lat[pin2mask(l)] \in BOOLEAN
      BY <3>1 DEF Types, Reg
    <3> QED BY <1>8, <3>1, <3>2, <3>3
  <2>4. Written(u)'
    BY <1>1, <2>1, <2>3, OtherWritten
  <2> QED BY <2>2, <2>4 DEF CallInv
<1>10. CallInv(t)'
  <2>1. CASE th'[t] = Idle
    BY <2>1, IdleCall
  <2>2. CASE th[t].dir # "none" /\ th'[t].pc = "dir" /\ th'[t].vals = th[t].vals /\ th'[t].dir = th[t].dir
    <3>1. Phase(t)'
      BY <1>1, <1>2, <2>2, SameChip DEF CallInv, Phase
    <3>2. Copies(t)'
      BY <2>2 DEF Copies
    <3>3. Written(t)'
      <4> SUFFICES ASSUME NEW l \in DOMAIN th[t].vals PROVE lat'[pin2mask(l)'] = th[t].vals[l]
        BY <1>1, <1>2, <2>2, SameChip DEF Written
      <4>1. l \in Line /\ pin2mask(l)' = pin2mask(l) /\ th[t].vals[l] \in BOOLEAN
        BY <1>1, SameChip, ValsFacts DEF Types, ThreadState
      <4>2. th[t].vals[l] => lat[pin2mask(l)]
        BY <1>1, <1>2 DEF CallInv, Written
      <4> QED BY <1>8, <4>1, <4>2
    <3>4. Asked(t)'
      BY <1>1, <1>2, <2>2, SameAsked
    <3> QED BY <3>1, <3>2, <3>3, <3>4 DEF CallInv
  <2> QED BY <1>3, <2>1, <2>2
<1> QED BY <1>5, <1>6, <1>7, <1>9, <1>10

\* A thread takes the lock and copies a shadow.
LEMMA LockStep ==
    ASSUME MmioInv, NEW t \in Thread, LockData(t) \/ LockDir(t)
    PROVE  MmioInv'
<1> USE DEF MmioInv
<1>1. lock = NoThread /\ lock' = t /\ UNCHANGED <<chip, ready, lat, dirreg, data, dir, want>>
  BY DEF LockData, LockDir
<1>2. CallInv(t) /\ th[t].vals \in Vals
  BY DEF Types, ThreadState
<1>3. PICK tmp \in Reg, pc \in {"data locked", "dir locked"} :
        /\ th' \in [Thread -> ThreadState]
        /\ th'[t].pc = pc /\ th'[t].tmp = tmp
        /\ th'[t].vals = th[t].vals /\ th'[t].dir = th[t].dir
        /\ \A u \in Thread : u # t => th'[u] = th[u]
        /\ pc = "data locked" => Shadowed /\ th[t].pc = "data" /\ tmp = Apply(data, th[t].vals)
        /\ pc = "dir locked" => th[t].pc = "dir" /\ tmp = NewDir(t)
  <2>1. CASE LockData(t)
    <3>1. Apply(data, th[t].vals) \in Reg
      BY <1>2, ApplyAt DEF Types
    <3>2. Goto(t, "data locked", Apply(data, th[t].vals)) /\ th[t].pc = "data" /\ Shadowed
      BY <2>1 DEF LockData, Shadowed
    <3> QED BY <3>1, <3>2, GotoFacts
  <2>2. CASE LockDir(t)
    <3>1. NewDir(t) \in Reg
      BY NewDirAt
    <3>2. Goto(t, "dir locked", NewDir(t)) /\ th[t].pc = "dir"
      BY <2>2 DEF LockDir, NewDir
    <3> QED BY <3>1, <3>2, GotoFacts
  <2> QED BY <2>1, <2>2
<1>4. Types'
  BY <1>1, <1>3 DEF Types
<1>5. LockInv'
  BY <1>1, <1>3, MmioAssumption DEF LockInv, NoThread
<1>6. Shadows'
  BY <1>1, SameShadows
<1>7. ASSUME NEW u \in Thread, u # t PROVE CallInv(u)'
  <2>1. th'[u] = th[u] /\ CallInv(u)
    BY <1>3, <1>7
  <2>2. Phase(u)' /\ Copies(u)' /\ Asked(u)'
    BY <1>1, <1>4, <2>1, OtherCall
  <2>3. Written(u)'
    BY <1>1, <2>1, OtherWritten
  <2> QED BY <2>2, <2>3 DEF CallInv
<1>8. CallInv(t)'
  <2>1. Phase(t)'
    BY <1>1, <1>2, <1>3, SameChip DEF CallInv, Phase
  <2>2. Copies(t)'
    <3> SUFFICES ASSUME NEW l \in Line
                 PROVE  /\ pc = "data locked" => tmp[pin2mask(l)'] =
                              IF l \in DOMAIN th[t].vals THEN th[t].vals[l] ELSE data[pin2mask(l)']
                        /\ pc = "dir locked" => tmp[pin2mask(l)'] =
                              IF l \in DOMAIN th[t].vals THEN (th[t].dir = "out") # inverted' ELSE dir[pin2mask(l)']
      BY <1>1, <1>3 DEF Copies
    <3>1. pin2mask(l)' = pin2mask(l) /\ (inverted' <=> inverted)
      BY <1>1, SameChip
    <3>2. pc = "data locked" => tmp[pin2mask(l)] =
              IF l \in DOMAIN th[t].vals THEN th[t].vals[l] ELSE data[pin2mask(l)]
      <4>1. data \in Reg
        BY DEF Types
      <4>2. \A k \in Line : Apply(data, th[t].vals)[pin2mask(k)] =
               IF k \in DOMAIN th[t].vals THEN th[t].vals[k] ELSE data[pin2mask(k)]
        BY <1>2, <4>1, ApplyAt
      <4> QED BY <1>3, <4>2
    <3>3. pc = "dir locked" => tmp[pin2mask(l)] =
              IF l \in DOMAIN th[t].vals THEN (th[t].dir = "out") # inverted ELSE dir[pin2mask(l)]
      BY <1>3, NewDirAt
    <3> QED BY <3>1, <3>2, <3>3
  <2>3. Written(t)'
    <3> SUFFICES ASSUME NEW l \in DOMAIN th[t].vals, pc = "dir locked", th[t].dir = "out"
                 PROVE  /\ lat[pin2mask(l)'] = th[t].vals[l]
                        /\ Shadowed' => data[pin2mask(l)'] = lat[pin2mask(l)']
      BY <1>1, <1>3 DEF Written
    <3>1. pin2mask(l)' = pin2mask(l) /\ (Shadowed' <=> Shadowed)
      BY <1>1, SameChip
    <3> QED BY <1>2, <1>3, <3>1 DEF CallInv, Written
  <2>4. Asked(t)'
    BY <1>1, <1>2, <1>3, SameAsked
  <2> QED BY <2>1, <2>2, <2>3, <2>4 DEF CallInv
<1> QED BY <1>4, <1>5, <1>6, <1>7, <1>8
\* The levels are stored and written: the register changes for the call's lines,
\* and else only where it does not drive a pin.
LEMMA WriteDataStep == ASSUME MmioInv, NEW t \in Thread, WriteData(t) PROVE MmioInv'
<1> USE DEF MmioInv
<1>1. /\ th[t].pc = "data locked" /\ data' = th[t].tmp /\ lat' = th[t].tmp
      /\ lock' = NoThread /\ AfterData(t)
      /\ UNCHANGED <<chip, ready, dirreg, dir, want>>
  BY DEF WriteData
<1>2. CallInv(t) /\ Shadowed /\ ready /\ lock = t /\ th[t].tmp \in Reg
  BY <1>1 DEF CallInv, Phase, LockInv, Types, ThreadState
<1>3. /\ th' \in [Thread -> ThreadState]
      /\ \A u \in Thread : u # t => th'[u] = th[u]
      /\ \/ th[t].dir = "none" /\ th'[t] = Idle
         \/ /\ th[t].dir # "none" /\ th'[t].pc = "dir"
            /\ th'[t].vals = th[t].vals /\ th'[t].dir = th[t].dir
  BY <1>1, AfterDataFacts
<1>4. Types'
  BY <1>1, <1>2, <1>3 DEF Types
<1>5. LockInv'
  <2>1. th'[t].pc \in {"idle", "dir"}
    BY <1>3 DEF Idle
  <2> QED BY <1>1, <1>2, <1>3, <2>1, MmioAssumption DEF LockInv, NoThread
<1>6. Shadows'
  BY <1>1, SameChip DEF Shadows
<1>7. ASSUME NEW l \in Line
      PROVE  lat'[pin2mask(l)] = IF l \in DOMAIN th[t].vals THEN th[t].vals[l] ELSE data[pin2mask(l)]
  BY <1>1, <1>2 DEF CallInv, Copies
<1>8. ASSUME NEW u \in Thread, u # t PROVE CallInv(u)'
  <2>1. th'[u] = th[u] /\ CallInv(u) /\ th[u].pc \notin {"data locked", "dir locked", "clear"}
    <3>1. th[u].pc \notin {"data locked", "dir locked"}
      BY <1>2, <1>8, OthersWait
    <3>2. th[u].pc # "clear"
      BY <1>2 DEF CallInv, Phase, Shadowed
    <3> QED BY <1>3, <1>8, <3>1, <3>2
  <2>2. Phase(u)' /\ Copies(u)' /\ Asked(u)'
    BY <1>1, <1>4, <2>1, OtherCall
  <2>3. Written(u)'
    <3> SUFFICES ASSUME NEW l \in DOMAIN th[u].vals, th[u].pc = "dir", th[u].dir = "out"
                 PROVE  lat'[pin2mask(l)'] = th[u].vals[l]
      BY <1>1, <2>1 DEF Written
    <3>1. l \in Line /\ pin2mask(l)' = pin2mask(l)
      BY <1>1, SameChip, ValsFacts DEF Types, ThreadState
    <3>2. l \notin DOMAIN th[t].vals
      BY <1>2, <1>8, <2>1, OwnLines DEF CallInv
    <3>3. lat[pin2mask(l)] = th[u].vals[l] /\ data[pin2mask(l)] = lat[pin2mask(l)]
      BY <1>2, <2>1 DEF CallInv, Written
    <3> QED BY <1>7, <3>1, <3>2, <3>3
  <2> QED BY <2>2, <2>3 DEF CallInv
<1>9. CallInv(t)'
  <2>1. CASE th'[t] = Idle
    BY <2>1, IdleCall
  <2>2. CASE th[t].dir # "none" /\ th'[t].pc = "dir" /\ th'[t].vals = th[t].vals /\ th'[t].dir = th[t].dir
    <3>1. Phase(t)'
      BY <1>1, <1>2, <2>2, SameChip DEF CallInv, Phase
    <3>2. Copies(t)'
      BY <2>2 DEF Copies
    <3>3. Written(t)'
      <4> SUFFICES ASSUME NEW l \in DOMAIN th[t].vals PROVE lat'[pin2mask(l)'] = th[t].vals[l]
        BY <1>1, <2>2 DEF Written
      <4>1. l \in Line /\ pin2mask(l)' = pin2mask(l)
        BY <1>1, SameChip, ValsFacts DEF Types, ThreadState
      <4> QED BY <1>7, <4>1
    <3>4. Asked(t)'
      BY <1>1, <1>2, <2>2, SameAsked
    <3> QED BY <3>1, <3>2, <3>3, <3>4 DEF CallInv
  <2> QED BY <1>3, <2>1, <2>2
<1> QED BY <1>4, <1>5, <1>6, <1>8, <1>9

\* The directions are stored and written, and the call returns.
LEMMA WriteDirStep == ASSUME MmioInv, NEW t \in Thread, WriteDir(t) PROVE MmioInv'
<1> USE DEF MmioInv
<1>1. /\ th[t].pc = "dir locked" /\ dir' = th[t].tmp /\ dirreg' = th[t].tmp
      /\ lock' = NoThread /\ Return(t)
      /\ UNCHANGED <<chip, ready, lat, data, want>>
  BY DEF WriteDir
<1>2. CallInv(t) /\ HasDir /\ ready /\ lock = t /\ th[t].tmp \in Reg
  BY <1>1 DEF CallInv, Phase, LockInv, Types, ThreadState
<1>3. /\ th' \in [Thread -> ThreadState] /\ th'[t] = Idle
      /\ \A u \in Thread : u # t => th'[u] = th[u]
  BY <1>1, ReturnFacts
<1>4. Types'
  BY <1>1, <1>2, <1>3 DEF Types
<1>5. LockInv'
  <2>1. th'[t].pc = "idle"
    BY <1>3 DEF Idle
  <2> QED BY <1>1, <1>2, <1>3, <2>1, MmioAssumption DEF LockInv, NoThread
<1>6. ASSUME NEW l \in Line
      PROVE  dirreg'[pin2mask(l)] = IF l \in DOMAIN th[t].vals THEN (th[t].dir = "out") # inverted
                                    ELSE dirreg[pin2mask(l)]
  BY <1>1, <1>2 DEF CallInv, Copies, Shadows
<1>7. Shadows'
  <2>1. ASSUME Shadowed, NEW l \in Line, drives(pin2mask(l))'
        PROVE  data[pin2mask(l)] = lat[pin2mask(l)]
    <3>1. CASE l \in DOMAIN th[t].vals /\ th[t].dir = "out"
      BY <1>1, <1>2, <2>1, <3>1 DEF CallInv, Written
    <3>2. CASE l \in DOMAIN th[t].vals /\ th[t].dir # "out"
      <4>1. dirreg'[pin2mask(l)] = inverted /\ inverted \in BOOLEAN
        BY <1>6, <3>2 DEF inverted
      <4>2. pin2mask(l)' = pin2mask(l) /\ direction' = direction /\ (inverted' <=> inverted)
        BY <1>1, SameChip
      <4> QED BY <1>2, <2>1, <4>1, <4>2 DEF drives, HasDir
    <3>3. CASE l \notin DOMAIN th[t].vals
      <4>1. dirreg'[pin2mask(l)] = dirreg[pin2mask(l)]
        BY <1>6, <3>3
      <4>2. drives(pin2mask(l))
        BY <1>1, <2>1, <4>1, SameChip DEF drives
      <4> QED BY <1>2, <2>1, <4>2 DEF Shadows
    <3> QED BY <3>1, <3>2, <3>3
  <2> QED BY <1>1, <1>2, <2>1, SameChip DEF Shadows
<1>8. ASSUME NEW u \in Thread, u # t PROVE CallInv(u)'
  <2>1. th'[u] = th[u] /\ CallInv(u) /\ th[u].pc # "dir locked"
    BY <1>2, <1>3, <1>8, OthersWait
  <2>2. ASSUME NEW l \in DOMAIN th[u].vals PROVE dirreg'[pin2mask(l)] = dirreg[pin2mask(l)]
    <3>1. l \in Line
      BY ValsFacts DEF Types, ThreadState
    <3>2. l \notin DOMAIN th[t].vals
      BY <1>2, <1>8, <2>1, OwnLines DEF CallInv
    <3> QED BY <1>6, <3>1, <3>2
  <2>3. Phase(u)' /\ Copies(u)' /\ Asked(u)'
    BY <1>1, <1>4, <2>1, <2>2, OtherCall
  <2>4. Written(u)'
    BY <1>1, <2>1, OtherWritten
  <2> QED BY <2>3, <2>4 DEF CallInv
<1>9. CallInv(t)'
  BY <1>3, IdleCall
<1> QED BY <1>4, <1>5, <1>7, <1>8, <1>9

\* What every call asks for.
CallArgs(t, pc, v, d, w) ==
    /\ v \in Vals /\ w \in [DOMAIN v -> {"in", "low", "high"}]
    /\ pc \in {"data", "dir"} /\ d \in {"none", "in", "out"}
    /\ Call(t, pc, v, d, w)
    /\ d = "in" <=> pc = "dir"
    /\ d # "none" => HasDir
    /\ \A l \in DOMAIN v :
          /\ d = "in" => w[l] = "in"
          /\ d = "out" => w[l] = Level(v[l])
          /\ d = "none" => w[l] = IF drives(pin2mask(l)) THEN Level(v[l]) ELSE "in"

LEMMA OneFacts ==
    ASSUME NEW l \in Line, NEW v \in BOOLEAN, NEW x \in {"in", "low", "high"}
    PROVE  /\ DOMAIN One(l, v) = {l} /\ One(l, v)[l] = v /\ One(l, x)[l] = x
           /\ One(l, v) \in Vals
           /\ One(l, x) \in [DOMAIN One(l, v) -> {"in", "low", "high"}]
<1>1. {l} \in SUBSET Line /\ One(l, v) \in [{l} -> BOOLEAN]
  BY DEF One
<1>2. One(l, v) \in Vals
  BY <1>1 DEF Vals
<1> QED BY <1>2 DEF One

LEMMA CallCases ==
    ASSUME Types, NEW t \in Thread, CallOf(t)
    PROVE  \E pc, v, d, w : CallArgs(t, pc, v, d, w)
<1>1. ASSUME NEW L \in SUBSET Line, NEW v \in [L -> BOOLEAN], set(t, v)
      PROVE  \E pc, u, d, w : CallArgs(t, pc, u, d, w)
  <2> DEFINE w == [l \in DOMAIN v |-> IF st[l] = "in" THEN "in" ELSE Level(v[l])]
  <2>1. v \in Vals /\ DOMAIN v \subseteq Line
    BY DEF Vals
  <2>2. w \in [DOMAIN v -> {"in", "low", "high"}]
    BY DEF Level
  <2>3. Call(t, "data", v, "none", w)
    BY <1>1 DEF set
  <2>4. ASSUME NEW l \in DOMAIN v PROVE w[l] = IF drives(pin2mask(l)) THEN Level(v[l]) ELSE "in"
    BY <2>1 DEF st, Level
  <2> HIDE DEF w
  <2>5. CallArgs(t, "data", v, "none", w)
    BY <2>1, <2>2, <2>3, <2>4 DEF CallArgs
  <2> QED BY <2>5
<1>2. ASSUME NEW l \in Line, direction_input(t, l)
      PROVE  \E pc, u, d, w : CallArgs(t, pc, u, d, w)
  <2>1. HasDir /\ Call(t, "dir", One(l, FALSE), "in", One(l, "in"))
    BY <1>2 DEF direction_input, HasDir
  <2>2. /\ DOMAIN One(l, FALSE) = {l} /\ One(l, FALSE)[l] = FALSE /\ One(l, "in")[l] = "in"
        /\ One(l, FALSE) \in Vals /\ One(l, "in") \in [DOMAIN One(l, FALSE) -> {"in", "low", "high"}]
    BY OneFacts
  <2>3. CallArgs(t, "dir", One(l, FALSE), "in", One(l, "in"))
    BY <2>1, <2>2 DEF CallArgs
  <2> QED BY <2>3
<1>3. ASSUME NEW l \in Line, NEW v \in BOOLEAN, direction_output(t, l, v)
      PROVE  \E pc, u, d, w : CallArgs(t, pc, u, d, w)
  <2>1. Level(v) \in {"in", "low", "high"}
    BY DEF Level
  <2>2. /\ DOMAIN One(l, v) = {l} /\ One(l, v)[l] = v /\ One(l, Level(v))[l] = Level(v)
        /\ One(l, v) \in Vals /\ One(l, Level(v)) \in [DOMAIN One(l, v) -> {"in", "low", "high"}]
    BY <2>1, OneFacts
  <2>3. CASE direction = "simple_dir_out" /\ Call(t, "data", One(l, v), "none", One(l, Level(v)))
    <3>1. drives(pin2mask(l))
      BY <2>3 DEF drives
    <3>2. CallArgs(t, "data", One(l, v), "none", One(l, Level(v)))
      BY <2>2, <2>3, <3>1 DEF CallArgs
    <3> QED BY <3>2
  <2>4. CASE direction \in {"dir_out", "dir_out_inv"} /\ Call(t, "data", One(l, v), "out", One(l, Level(v)))
    <3>1. CallArgs(t, "data", One(l, v), "out", One(l, Level(v)))
      BY <2>2, <2>4 DEF CallArgs, HasDir
    <3> QED BY <3>1
  <2> QED BY <1>3, <2>3, <2>4 DEF direction_output
<1> QED BY <1>1, <1>2, <1>3 DEF CallOf

LEMMA MmioNext == MmioInv /\ [Next]_vars => MmioInv'
<1> SUFFICES ASSUME MmioInv, [Next]_vars PROVE MmioInv'
  OBVIOUS
<1>1. CASE bgpio_init
  BY <1>1, InitStep
<1>2. ASSUME NEW t \in Thread, Step(t) PROVE MmioInv'
  BY <1>2, WriteSetStep, WriteClearStep, LockStep, WriteDataStep, WriteDirStep DEF Step
<1>3. ASSUME NEW t \in Thread, CallOf(t) PROVE MmioInv'
  <2>1. PICK pc, v, d, w : CallArgs(t, pc, v, d, w)
    BY <1>3, CallCases DEF MmioInv
  <2> QED BY <2>1, CallStep DEF CallArgs
<1>4. CASE UNCHANGED vars
  <2>1. UNCHANGED <<chip, ready, lat, dirreg, data, dir, lock, th, want>>
    BY <1>4 DEF vars
  <2>2. Types' /\ LockInv'
    BY <2>1 DEF MmioInv, Types, LockInv
  <2>3. Shadows'
    BY <2>1, SameShadows DEF MmioInv
  <2>4. ASSUME NEW u \in Thread PROVE CallInv(u)'
    <3>1. Phase(u)' /\ Copies(u)' /\ Asked(u)'
      BY <2>1, <2>2, OtherCall DEF MmioInv
    <3>2. Written(u)'
      BY <2>1, OtherWritten DEF MmioInv
    <3> QED BY <3>1, <3>2 DEF CallInv
  <2> QED BY <2>2, <2>3, <2>4 DEF MmioInv
<1> QED BY <1>1, <1>2, <1>3, <1>4 DEF Next

LEMMA MmioAlways == Spec => []MmioInv
<1> QED BY MmioInit, MmioNext, PTL DEF Spec

-------------------------------------------------------------------------------
\* Types, and bgpio_lock is held by exactly the thread that is between reading
\* a shadow (bgpio_data, bgpio_dir) and writing its register.
THEOREM MmioTypeOK == Spec => []TypeOK
<1>1. MmioInv => TypeOK
  BY DEF MmioInv, Types, LockInv, TypeOK, ThreadState
<1> QED BY <1>1, MmioAlways, PTL

\* bgpio_get() and bgpio_get_set() give the level a driven line drives and the
\* level of the pin of an input, for every chip that GetReadsLine does not
\* leave out: the shadow bgpio_dir that bgpio_get_set() consults is then the
\* direction register, or zero on a chip without outputs.
THEOREM MmioGetReadsLine == Spec => []GetReadsLine
<1>1. ASSUME MmioInv PROVE GetReadsLine
  <2> SUFFICES ASSUME ready, "READ_OUTPUT_REG_SET" \in chip.flags => direction \notin {"dir_out_inv", "simple_dir_out"},
                      NEW l \in Line
               PROVE  get(l) = IF drives(pin2mask(l)) THEN lat[pin2mask(l)] ELSE Pins[pin2mask(l)]
    BY DEF GetReadsLine
  <2> DEFINE b == pin2mask(l)
  <2>1. b \in Line /\ dirreg[b] \in BOOLEAN /\ chip \in Chips
    BY <1>1, PinBits DEF MmioInv, Types, Reg
  <2>2. read_dat[b] = IF drives(b) /\ "READ_OUTPUT_REG_SET" \notin chip.flags THEN lat[b] ELSE Pins[b]
    BY <2>1 DEF read_dat
  <2>3. CASE "READ_OUTPUT_REG_SET" \notin chip.flags
    BY <2>2, <2>3 DEF get
  <2>4. CASE "READ_OUTPUT_REG_SET" \in chip.flags
    <3>1. "UNREADABLE_REG_SET" \notin chip.flags
      BY <2>1, <2>4, MmioAssumption
    <3>2. CASE HasDir
      <4>1. direction = "dir_out" /\ ~ inverted /\ dir = dirreg
        BY <1>1, <2>4, <3>2 DEF HasDir, inverted, MmioInv, Shadows
      <4>2. drives(b) = (dirreg[b] # inverted) /\ inverted \in BOOLEAN
        BY <4>1 DEF drives, inverted
      <4>3. drives(b) <=> dir[b]
        BY <2>1, <4>1, <4>2
      <4> QED BY <2>2, <2>4, <3>1, <4>3 DEF get
    <3>3. CASE ~ HasDir
      <4>1. ~ drives(b) /\ ~ dir[b]
        BY <1>1, <2>1, <2>4, <3>3 DEF HasDir, drives, MmioInv, Shadows, Zero
      <4> QED BY <2>2, <2>4, <4>1 DEF get
    <3> QED BY <3>2, <3>3
  <2> QED BY <2>3, <2>4
<1> QED BY <1>1, MmioAlways, PTL

-------------------------------------------------------------------------------
\* The promise of GpioLines, step by step.
LEMMA StAt ==
    ASSUME NEW l \in Line
    PROVE  st[l] = IF drives(pin2mask(l)) THEN Level(lat[pin2mask(l)]) ELSE "in"
  BY DEF st

LEMMA StAtNext ==
    ASSUME chip' = chip, NEW l \in Line
    PROVE  st'[l] = IF drives(pin2mask(l))' THEN Level(lat'[pin2mask(l)]) ELSE "in"
<1>1. pin2mask(l)' = pin2mask(l)
  BY SameChip
<1>2. st'[l] = IF drives(pin2mask(l))' THEN Level(lat'[pin2mask(l)']) ELSE "in"
  BY DEF st, Level
<1> QED BY <1>1, <1>2

LEMMA DrivesStays ==
    ASSUME chip' = chip, NEW l \in Line, dirreg'[pin2mask(l)] = dirreg[pin2mask(l)]
    PROVE  drives(pin2mask(l))' <=> drives(pin2mask(l))
  BY SameChip DEF drives

LEMMA SameSt ==
    ASSUME UNCHANGED <<chip, lat, dirreg>>
    PROVE  st' = st
<1>1. ASSUME NEW l \in Line PROVE st'[l] = st[l]
  BY StAt, StAtNext, DrivesStays
<1> QED BY <1>1 DEF st

LEMMA SameBusy ==
    ASSUME \A t \in Thread : th'[t].vals = th[t].vals
    PROVE  busy' = busy
  BY DEF busy

\* A step of a call in progress.
LEMMA ServeStep ==
    ASSUME MmioInv, MmioInv', NEW t \in Thread, want' = want,
           \A u \in Thread : u # t => th'[u] = th[u],
           th'[t].vals = th[t].vals \/ th'[t] = Idle,
           \A l \in Line : l \notin DOMAIN th[t].vals => st'[l] = st[l],
           \A l \in DOMAIN th[t].vals : st'[l] = st[l] \/ st'[l] = want[l],
           th'[t] = Idle => \A l \in DOMAIN th[t].vals : st'[l] = want[l]
    PROVE  Lines!Serve
<1>1. DOMAIN th[t].vals \subseteq busy
  BY DEF busy
<1>2. busy' \subseteq busy /\ \A l \in busy : l \notin busy' => th'[t] = Idle /\ l \in DOMAIN th[t].vals
  <2>1. CASE th'[t].vals = th[t].vals
    BY <2>1, SameBusy
  <2>2. CASE th'[t] = Idle
    <3>1. DOMAIN th'[t].vals = {}
      BY <2>2, IdleTyped
    <3>2. busy' = UNION {DOMAIN th'[u].vals : u \in Thread}
      BY DEF busy
    <3> QED BY <2>2, <3>1, <3>2 DEF busy
  <2> QED BY <2>1, <2>2
<1>3. st' \in [Line -> {"in", "low", "high"}]
  <2>1. lat' \in Reg
    BY DEF MmioInv, Types
  <2> QED BY <2>1 DEF st, Level
<1> QED BY <1>1, <1>2, <1>3 DEF Lines!Serve, Lines!LineState

\* A write to the level registers.
LEMMA LevelServes ==
    ASSUME MmioInv, MmioInv', NEW t \in Thread, UNCHANGED <<chip, dirreg, want>>, th[t].dir # "in",
           \A u \in Thread : u # t => th'[u] = th[u],
           th'[t].vals = th[t].vals \/ th'[t] = Idle,
           \A l \in Line : l \notin DOMAIN th[t].vals /\ drives(pin2mask(l)) => lat'[pin2mask(l)] = lat[pin2mask(l)],
           \A l \in DOMAIN th[t].vals :
              lat'[pin2mask(l)] = lat[pin2mask(l)] \/ lat'[pin2mask(l)] = th[t].vals[l],
           th'[t] = Idle => th[t].dir = "none"
              /\ \A l \in DOMAIN th[t].vals : lat'[pin2mask(l)] = th[t].vals[l]
    PROVE  Lines!Serve
<1>1. DOMAIN th[t].vals \subseteq Line
  BY ValsFacts DEF MmioInv, Types, ThreadState
<1>2. ASSUME NEW l \in Line
      PROVE  /\ st[l] = IF drives(pin2mask(l)) THEN Level(lat[pin2mask(l)]) ELSE "in"
             /\ st'[l] = IF drives(pin2mask(l)) THEN Level(lat'[pin2mask(l)]) ELSE "in"
  BY StAt, StAtNext, DrivesStays
<1>3. ASSUME NEW l \in DOMAIN th[t].vals
      PROVE  /\ th[t].dir = "out" => want[l] = Level(th[t].vals[l])
             /\ th[t].dir = "none" => want[l] = IF drives(pin2mask(l)) THEN Level(th[t].vals[l]) ELSE "in"
             /\ th[t].dir \in {"none", "out"}
  BY DEF MmioInv, CallInv, Asked, Types, ThreadState
<1>4. \A l \in Line : l \notin DOMAIN th[t].vals => st'[l] = st[l]
  BY <1>2
<1>5. ASSUME NEW l \in DOMAIN th[t].vals PROVE st'[l] = st[l] \/ st'[l] = want[l]
  <2>1. CASE lat'[pin2mask(l)] = lat[pin2mask(l)]
    BY <1>1, <1>2, <2>1
  <2>2. CASE lat'[pin2mask(l)] = th[t].vals[l]
    BY <1>1, <1>2, <1>3, <2>2
  <2> QED BY <2>1, <2>2
<1>6. ASSUME th'[t] = Idle, NEW l \in DOMAIN th[t].vals PROVE st'[l] = want[l]
  BY <1>1, <1>2, <1>3, <1>6
<1> QED BY <1>4, <1>5, <1>6, ServeStep

LEMMA WriteSetServes == ASSUME MmioInv, MmioInv', NEW t \in Thread, WriteSet(t) PROVE Lines!Serve
<1>1. /\ th[t].pc = "data" /\ Goto(t, "clear", Zero) /\ UNCHANGED <<chip, dirreg, want>> /\ Types
  BY DEF WriteSet, MmioInv
<1>2. th'[t].pc = "clear" /\ th'[t].vals = th[t].vals /\ \A u \in Thread : u # t => th'[u] = th[u]
  <2>1. Zero \in Reg
    BY DEF Zero, Reg
  <2> QED BY <1>1, <2>1, GotoFacts
<1>3. th[t].dir # "in" /\ th'[t] # Idle
  BY <1>1, <1>2, IdleTyped DEF MmioInv, CallInv, Phase
<1>4. ASSUME NEW l \in Line
      PROVE  /\ l \notin DOMAIN th[t].vals => lat'[pin2mask(l)] = lat[pin2mask(l)]
             /\ l \in DOMAIN th[t].vals => lat'[pin2mask(l)] = lat[pin2mask(l)] \/ lat'[pin2mask(l)] = th[t].vals[l]
  <2>1. lat'[pin2mask(l)] = (lat[pin2mask(l)] \/ pin2mask(l) \in Masks(th[t].vals, TRUE))
    BY PinBits DEF WriteSet
  <2>2. lat[pin2mask(l)] \in BOOLEAN
    BY <1>1, PinBits DEF Types, Reg
  <2>3. pin2mask(l) \in Masks(th[t].vals, TRUE) <=> l \in DOMAIN th[t].vals /\ th[t].vals[l] = TRUE
    BY <1>1, SetAt
  <2>4. CASE pin2mask(l) \in Masks(th[t].vals, TRUE)
    BY <2>1, <2>3, <2>4, Zenon
  <2>5. CASE pin2mask(l) \notin Masks(th[t].vals, TRUE)
    BY <2>1, <2>2, <2>5
  <2> QED BY <2>4, <2>5
<1>5. DOMAIN th[t].vals \subseteq Line
  BY <1>1, ValsFacts DEF Types, ThreadState
<1> QED BY <1>1, <1>2, <1>3, <1>4, <1>5, LevelServes

LEMMA WriteClearServes == ASSUME MmioInv, MmioInv', NEW t \in Thread, WriteClear(t) PROVE Lines!Serve
<1>1. /\ th[t].pc = "clear" /\ AfterData(t) /\ UNCHANGED <<chip, dirreg, want>> /\ Types
  BY DEF WriteClear, MmioInv
<1>2. /\ \A u \in Thread : u # t => th'[u] = th[u]
      /\ th'[t].vals = th[t].vals \/ th'[t] = Idle
      /\ th'[t] = Idle => th[t].dir = "none"
  BY <1>1, AfterDataFacts, IdleTyped
<1>3. th[t].dir # "in"
  BY <1>1 DEF MmioInv, CallInv, Phase
<1>4. DOMAIN th[t].vals \subseteq Line /\ \A l \in DOMAIN th[t].vals : th[t].vals[l] \in BOOLEAN
  BY <1>1, ValsFacts DEF Types, ThreadState
<1>5. ASSUME NEW l \in Line
      PROVE  /\ lat[pin2mask(l)] \in BOOLEAN
             /\ lat'[pin2mask(l)] = (lat[pin2mask(l)] /\ ~ (l \in DOMAIN th[t].vals /\ th[t].vals[l] = FALSE))
  <2>1. lat'[pin2mask(l)] = (lat[pin2mask(l)] /\ pin2mask(l) \notin Masks(th[t].vals, FALSE))
    BY PinBits DEF WriteClear
  <2>2. lat[pin2mask(l)] \in BOOLEAN
    BY <1>1, PinBits DEF Types, Reg
  <2> QED BY <1>1, <2>1, <2>2, SetAt
<1>6. ASSUME NEW l \in Line, l \notin DOMAIN th[t].vals PROVE lat'[pin2mask(l)] = lat[pin2mask(l)]
  BY <1>5, <1>6
<1>7. ASSUME NEW l \in DOMAIN th[t].vals PROVE lat'[pin2mask(l)] = th[t].vals[l]
  <2>1. th[t].vals[l] => lat[pin2mask(l)]
    BY <1>1 DEF MmioInv, CallInv, Written
  <2> QED BY <1>4, <1>5, <2>1
<1> QED BY <1>1, <1>2, <1>3, <1>6, <1>7, LevelServes

\* The copy under the lock is the register for every line that drives its pin.
LEMMA WriteDataServes == ASSUME MmioInv, MmioInv', NEW t \in Thread, WriteData(t) PROVE Lines!Serve
<1>1. /\ th[t].pc = "data locked" /\ lat' = th[t].tmp /\ AfterData(t)
      /\ UNCHANGED <<chip, dirreg, want>> /\ Types /\ CallInv(t)
  BY DEF WriteData, MmioInv
<1>2. /\ \A u \in Thread : u # t => th'[u] = th[u]
      /\ th'[t].vals = th[t].vals \/ th'[t] = Idle
      /\ th'[t] = Idle => th[t].dir = "none"
  BY <1>1, AfterDataFacts, IdleTyped
<1>3. th[t].dir # "in" /\ ready /\ Shadowed
  BY <1>1 DEF CallInv, Phase
<1>4. DOMAIN th[t].vals \subseteq Line
  BY <1>1, ValsFacts DEF Types, ThreadState
<1>5. ASSUME NEW l \in Line
      PROVE  lat'[pin2mask(l)] = IF l \in DOMAIN th[t].vals THEN th[t].vals[l] ELSE data[pin2mask(l)]
  BY <1>1 DEF CallInv, Copies
<1>6. ASSUME NEW l \in Line, l \notin DOMAIN th[t].vals, drives(pin2mask(l))
      PROVE  lat'[pin2mask(l)] = lat[pin2mask(l)]
  BY <1>3, <1>5, <1>6 DEF MmioInv, Shadows
<1>7. ASSUME NEW l \in DOMAIN th[t].vals PROVE lat'[pin2mask(l)] = th[t].vals[l]
  BY <1>4, <1>5
<1> QED BY <1>1, <1>2, <1>3, <1>6, <1>7, LevelServes

\* A line that becomes an output has its level already.
LEMMA WriteDirServes == ASSUME MmioInv, MmioInv', NEW t \in Thread, WriteDir(t) PROVE Lines!Serve
<1>1. /\ th[t].pc = "dir locked" /\ dirreg' = th[t].tmp /\ Return(t)
      /\ UNCHANGED <<chip, lat, want>> /\ Types /\ CallInv(t)
  BY DEF WriteDir, MmioInv
<1>2. th'[t] = Idle /\ \A u \in Thread : u # t => th'[u] = th[u]
  BY <1>1, ReturnFacts
<1>3. th[t].dir \in {"in", "out"} /\ HasDir /\ ready /\ dir = dirreg
  BY <1>1 DEF CallInv, Phase, Types, ThreadState, MmioInv, Shadows
<1>4. DOMAIN th[t].vals \subseteq Line
  BY <1>1, ValsFacts DEF Types, ThreadState
<1>5. ASSUME NEW l \in Line
      PROVE  dirreg'[pin2mask(l)] = IF l \in DOMAIN th[t].vals THEN (th[t].dir = "out") # inverted
                                    ELSE dirreg[pin2mask(l)]
  BY <1>1, <1>3 DEF CallInv, Copies
<1>6. ASSUME NEW l \in Line, l \notin DOMAIN th[t].vals PROVE st'[l] = st[l]
  BY <1>1, <1>5, <1>6, StAt, StAtNext, DrivesStays
<1>7. ASSUME NEW l \in DOMAIN th[t].vals PROVE st'[l] = want[l]
  <2>1. l \in Line /\ dirreg'[pin2mask(l)] = ((th[t].dir = "out") # inverted)
    BY <1>4, <1>5
  <2>2. drives(pin2mask(l))' <=> th[t].dir = "out"
    <3>1. pin2mask(l)' = pin2mask(l) /\ direction' = direction /\ (inverted' <=> inverted)
      BY <1>1, SameChip
    <3>2. drives(pin2mask(l))' <=> (dirreg'[pin2mask(l)] # inverted)
      BY <1>3, <3>1 DEF drives, HasDir, inverted
    <3> QED BY <2>1, <3>2 DEF inverted
  <2>3. st'[l] = IF th[t].dir = "out" THEN Level(lat[pin2mask(l)]) ELSE "in"
    BY <1>1, <2>1, <2>2, StAtNext
  <2>4. /\ th[t].dir = "out" => lat[pin2mask(l)] = th[t].vals[l] /\ want[l] = Level(th[t].vals[l])
        /\ th[t].dir = "in" => want[l] = "in"
    BY <1>1 DEF CallInv, Written, Asked
  <2> QED BY <1>3, <2>3, <2>4
<1> QED BY <1>1, <1>2, <1>6, <1>7, ServeStep

\* A call begins: its lines were not busy, and nothing moves yet.
LEMMA CallRequests ==
    ASSUME MmioInv, MmioInv', NEW t \in Thread, NEW pc, NEW v, NEW d, NEW w, CallArgs(t, pc, v, d, w)
    PROVE  Lines!Request
<1>1. /\ th[t].pc = "idle" /\ v \in Vals /\ DOMAIN w = DOMAIN v
      /\ \A l \in DOMAIN v : Owner[l] = t
      /\ UNCHANGED <<chip, lat, dirreg>>
      /\ want' = [l \in Line |-> IF l \in DOMAIN v THEN w[l] ELSE want[l]]
      /\ want' \in [Line -> {"in", "low", "high"}]
  BY DEF CallArgs, Call, MmioInv, Types
<1>2. th'[t].vals = v /\ \A u \in Thread : u # t => th'[u] = th[u]
  BY DEF CallArgs, Call, MmioInv, Types
<1>3. DOMAIN th[t].vals = {}
  BY <1>1 DEF MmioInv, CallInv, Phase
<1>4. busy' = UNION {DOMAIN th'[u].vals : u \in Thread}
  BY DEF busy
<1>5. busy \subseteq busy' /\ DOMAIN v \subseteq busy'
  BY <1>2, <1>3, <1>4 DEF busy
<1>6. busy' \subseteq Line
  BY <1>4, ValsFacts DEF MmioInv, Types, ThreadState
<1>7. ASSUME NEW l \in DOMAIN v PROVE l \notin busy
  <2>1. SUFFICES ASSUME NEW u \in Thread, l \in DOMAIN th[u].vals PROVE FALSE
    BY DEF busy
  <2>2. Owner[l] = u
    BY <2>1 DEF MmioInv, CallInv, Phase
  <2> QED BY <1>1, <1>3, <2>1, <2>2
<1>8. st' = st
  BY <1>1, SameSt
<1> QED BY <1>1, <1>5, <1>6, <1>7, <1>8 DEF Lines!Request, Lines!LineState

LEMMA MmioRefines ==
    ASSUME MmioInv, MmioInv', [Next]_vars
    PROVE  [Lines!Request \/ Lines!Serve]_<<st, want, busy>>
<1>1. CASE bgpio_init \/ UNCHANGED vars
  <2>1. UNCHANGED <<chip, lat, dirreg, th, want>>
    BY <1>1 DEF bgpio_init, vars
  <2> QED BY <2>1, SameSt, SameBusy
<1>2. ASSUME NEW t \in Thread, Step(t) PROVE [Lines!Request \/ Lines!Serve]_<<st, want, busy>>
  <2>1. CASE LockData(t) \/ LockDir(t)
    <3>1. UNCHANGED <<chip, lat, dirreg, want>>
      BY <2>1 DEF LockData, LockDir
    <3>2. PICK pc, tmp : Goto(t, pc, tmp)
      BY <2>1 DEF LockData, LockDir
    <3>3. \A u \in Thread : th'[u].vals = th[u].vals
      BY <3>2 DEF Goto, MmioInv, Types, ThreadState
    <3> QED BY <3>1, <3>3, SameSt, SameBusy
  <2> QED BY <1>2, <2>1, WriteSetServes, WriteClearServes, WriteDataServes, WriteDirServes DEF Step
<1>3. ASSUME NEW t \in Thread, CallOf(t) PROVE Lines!Request
  BY <1>3, CallCases, CallRequests DEF MmioInv
<1> QED BY <1>1, <1>2, <1>3 DEF Next

\* Whatever the layout of the chip and whatever the boot loader left in its
\* registers, bgpio_set(), bgpio_set_multiple(), bgpio_dir_in() and
\* bgpio_dir_out() in all their forms move the lines they name and no other,
\* each in one move, and have done so when they return: the shadows and
\* bgpio_lock lose no update, for any number of lines and threads.
THEOREM MmioImplementsGpioLines == Spec => ImplementsGpioLines
<1>1. Init => Lines!Init
  <2> SUFFICES ASSUME Init PROVE Lines!Init
    OBVIOUS
  <2>1. busy = {}
    BY IdleTyped DEF Init, busy
  <2> QED BY <2>1, StTyped DEF Init, Lines!Init, Lines!LineState
<1>2. MmioInv /\ MmioInv' /\ [Next]_vars => [Lines!Request \/ Lines!Serve]_<<st, want, busy>>
  BY MmioRefines
<1> QED BY <1>1, <1>2, MmioAlways, PTL DEF Spec, ImplementsGpioLines, Lines!Spec
===============================================================================
