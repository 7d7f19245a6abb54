------------------------------- MODULE GpioMmio ------------------------------
(***************************************************************************)
(* The generic memory-mapped GPIO driver (gpio-mmio.c).  bgpio_init()      *)
(* looks at which registers a chip has and at its flags, and picks the     *)
(* functions that set levels and directions and find a line's bit.  The    *)
(* registers without a set/clear pair are written from shadow copies,      *)
(* bgpio_data and bgpio_dir, under bgpio_lock; direction_output() first    *)
(* sets the level, then takes the lock again for the direction.            *)
(*                                                                         *)
(* A register is a function from bits to BOOLEAN; how many bytes it has    *)
(* only matters in bgpio_init().  Each thread has requested the lines it   *)
(* works on, so no two threads work on one line.                           *)
(***************************************************************************)
EXTENDS Integers, FiniteSets, Functions

CONSTANTS Bits,         \* bgpio_bits
          BITS_PER_LONG,
          Thread, Owner,\* Owner[l]: the thread that requested line l
          Chips,        \* the chips: [sz, res, flags]
          Pins          \* external: the levels other devices put on the pins

\* BGPIOF_READ_OUTPUT_REG_SET names the register that outputs are read from,
\* and a chip with BGPIOF_NO_OUTPUT has no directions to set.
ASSUME MmioAssumption ==
    /\ Bits \in Nat \ {0}
    /\ Owner \in [0 .. Bits - 1 -> Thread] /\ "none" \notin Thread
    /\ Pins \in [0 .. Bits - 1 -> BOOLEAN]
    /\ \A c \in Chips :
          /\ "READ_OUTPUT_REG_SET" \in c.flags => "set" \in c.res /\ "UNREADABLE_REG_SET" \notin c.flags
          /\ "NO_OUTPUT" \in c.flags => c.res \cap {"dirout", "dirin"} = {}

VARIABLES chip,         \* the device present
          ready,        \* bgpio_init() succeeded and the chip is registered
          lat, dirreg,  \* the registers: output levels, directions
          data, dir,    \* bgpio_data, bgpio_dir
          lock,         \* the holder of bgpio_lock, or NoThread
          th,           \* what each thread is doing
          want          \* history: the state last requested of each line

vars == <<chip, ready, lat, dirreg, data, dir, lock, th, want>>

Line == 0 .. Bits - 1
Reg == [Line -> BOOLEAN]
Zero == [b \in Line |-> FALSE]
NoThread == "none"
Idle == [pc |-> "idle", vals |-> << >>, dir |-> "none", tmp |-> Zero]

------------------------------------------------------------------------------
\* bgpio_setup_io(): how levels are set.
setup_io(c) ==
    IF "dat" \notin c.res THEN "EINVAL"
    ELSE IF {"set", "clr"} \subseteq c.res THEN "set_with_clear"
    ELSE IF "set" \in c.res THEN "set_set"
    ELSE IF "NO_OUTPUT" \in c.flags THEN "set_none"
    ELSE "set"

\* bgpio_setup_accessors(): register widths with access functions.
setup_accessors(c) ==
    IF c.sz \in {1, 2, 4} \/ (c.sz = 8 /\ BITS_PER_LONG >= 64 /\ "BE_BYTE" \notin c.flags)
    THEN "ok" ELSE "EINVAL"

\* bgpio_setup_direction().
setup_direction(c) ==
    IF {"dirout", "dirin"} \subseteq c.res THEN "EINVAL"
    ELSE IF "dirout" \in c.res THEN "dir_out"
    ELSE IF "dirin" \in c.res THEN "dir_out_inv"
    ELSE IF "NO_OUTPUT" \in c.flags THEN "dir_out_err"
    ELSE "simple_dir_out"

io == setup_io(chip)
direction == setup_direction(chip)
inverted == direction = "dir_out_inv"

\* pin2mask: bgpio_pin2mask(), bgpio_pin2mask_be().
pin2mask(l) == IF "BE" \in chip.flags THEN Bits - 1 - l ELSE l

\* External: which bits drive their pins, and what reg_dat reads.
drives(b) == IF direction \in {"dir_out", "dir_out_inv"} THEN dirreg[b] # inverted
             ELSE direction = "simple_dir_out"
read_dat == [b \in Line |-> IF drives(b) /\ "READ_OUTPUT_REG_SET" \notin chip.flags
                            THEN lat[b] ELSE Pins[b]]

Level(v) == IF v THEN "high" ELSE "low"
st == [l \in Line |-> IF drives(pin2mask(l)) THEN Level(lat[pin2mask(l)]) ELSE "in"]

\* A plausible slip: the set register is read whatever the direction.
get_ignores_dir(l) ==
    IF "READ_OUTPUT_REG_SET" \in chip.flags THEN lat[pin2mask(l)] ELSE read_dat[pin2mask(l)]

\* bgpio_get_set() and bgpio_get().
get(l) ==
    LET b == pin2mask(l)
    IN  IF "READ_OUTPUT_REG_SET" \in chip.flags /\ "UNREADABLE_REG_SET" \notin chip.flags
              /\ dir[b]
        THEN lat[b] ELSE read_dat[b]

\* The levels and directions a boot loader left; a direction register that
\* cannot be read holds its reset value, which is also the shadow's.
Init ==
    /\ chip \in Chips
    /\ ready = FALSE
    /\ lat \in Reg
    /\ dirreg \in (IF "UNREADABLE_REG_DIR" \in chip.flags THEN {Zero} ELSE Reg)
    /\ data = Zero /\ dir = Zero
    /\ lock = NoThread
    /\ th = [t \in Thread |-> Idle]
    /\ want = st

\* A plausible slip: the shadow of a set register is read from dat.
init_data_from_dat ==
    /\ ~ ready
    /\ ready' = TRUE
    /\ data' = read_dat
    /\ dir' = IF "dirout" \in chip.res \/ "dirin" \in chip.res THEN dirreg ELSE Zero
    /\ UNCHANGED <<chip, lat, dirreg, lock, th, want>>

\* bgpio_pdev_probe(), bgpio_init(): the shadows are read from the registers.
bgpio_init ==
    /\ ~ ready
    /\ chip.sz \in {1, 2, 4, 8, 16, 32} /\ chip.sz * 8 <= BITS_PER_LONG
    /\ "EINVAL" \notin {io, setup_accessors(chip), direction}
    /\ ready' = TRUE
    /\ data' = IF io = "set_set" /\ "UNREADABLE_REG_SET" \notin chip.flags THEN lat ELSE read_dat
    /\ dir' = IF direction \in {"dir_out", "dir_out_inv"}
                 /\ "UNREADABLE_REG_DIR" \notin chip.flags THEN dirreg ELSE dir
    /\ UNCHANGED <<chip, lat, dirreg, lock, th, want>>

------------------------------------------------------------------------------
\* A call on lines of thread t: the levels to set, and the direction.
Call(t, pc, vals, d, w) ==
    /\ ready /\ th[t].pc = "idle"
    /\ \A l \in DOMAIN w : Owner[l] = t
    /\ th' = [th EXCEPT ![t] = [pc |-> pc, vals |-> vals, dir |-> d, tmp |-> Zero]]
    /\ want' = [l \in Line |-> IF l \in DOMAIN w THEN w[l] ELSE want[l]]
    /\ UNCHANGED <<chip, ready, lat, dirreg, data, dir, lock>>

\* gc->set and gc->set_multiple; bgpio_set_none() sets nothing.
set(t, vals) ==
    /\ io # "set_none"
    /\ Call(t, "data", vals, "none",
            [l \in DOMAIN vals |-> IF st[l] = "in" THEN "in" ELSE Level(vals[l])])

One(l, x) == [k \in {l} |-> x]

\* gc->direction_output; bgpio_dir_out_err() refuses.
direction_output(t, l, v) ==
    \/ direction = "simple_dir_out" /\ Call(t, "data", One(l, v), "none", One(l, Level(v)))
    \/ direction \in {"dir_out", "dir_out_inv"} /\ Call(t, "data", One(l, v), "out", One(l, Level(v)))

\* gc->direction_input; bgpio_simple_dir_in() does nothing.
direction_input(t, l) ==
    /\ direction \in {"dir_out", "dir_out_inv"}
    /\ Call(t, "dir", One(l, FALSE), "in", One(l, "in"))

\* bgpio_multiple_get_masks(): the bits of the lines to be set to v.
Masks(vals, v) == {pin2mask(l) : l \in {k \in DOMAIN vals : vals[k] = v}}
Apply(reg, vals) ==
    [b \in Line |-> b \in Masks(vals, TRUE) \/ (reg[b] /\ b \notin Masks(vals, FALSE))]

Goto(t, pc, tmp) == th' = [th EXCEPT ![t].pc = pc, ![t].tmp = tmp]
Return(t) == th' = [th EXCEPT ![t] = Idle]
AfterData(t) == IF th[t].dir = "none" THEN Return(t) ELSE Goto(t, "dir", Zero)

\* bgpio_set_with_clear(), bgpio_set_multiple_with_clear(): no lock, one write
\* to the set register and one to the clear register.
WriteSet(t) ==
    /\ th[t].pc = "data" /\ io = "set_with_clear"
    /\ lat' = [b \in Line |-> lat[b] \/ b \in Masks(th[t].vals, TRUE)]
    /\ Goto(t, "clear", Zero)
    /\ UNCHANGED <<chip, ready, dirreg, data, dir, lock, want>>

WriteClear(t) ==
    /\ th[t].pc = "clear"
    /\ lat' = [b \in Line |-> lat[b] /\ b \notin Masks(th[t].vals, FALSE)]
    /\ AfterData(t)
    /\ UNCHANGED <<chip, ready, dirreg, data, dir, lock, want>>

\* A plausible slip: the lock is not taken to change the data register.
lock_data_missing(t) ==
    /\ th[t].pc = "data" /\ io \in {"set", "set_set"}
    /\ Goto(t, "data locked", Apply(data, th[t].vals))
    /\ UNCHANGED <<chip, ready, lat, dirreg, data, dir, lock, want>>

\* bgpio_set(), bgpio_set_set(), bgpio_set_multiple_single_reg(): under the
\* lock the shadow is read and changed, then stored and written.
LockData(t) ==
    /\ th[t].pc = "data" /\ io \in {"set", "set_set"} /\ lock = NoThread
    /\ lock' = t
    /\ Goto(t, "data locked", Apply(data, th[t].vals))
    /\ UNCHANGED <<chip, ready, lat, dirreg, data, dir, want>>

WriteData(t) ==
    /\ th[t].pc = "data locked"
    /\ data' = th[t].tmp /\ lat' = th[t].tmp
    /\ lock' = NoThread
    /\ AfterData(t)
    /\ UNCHANGED <<chip, ready, dirreg, dir, want>>

\* A plausible slip: an inverted chip is treated like the others.
lock_dir_not_inverted(t) ==
    /\ th[t].pc = "dir" /\ lock = NoThread
    /\ lock' = t
    /\ Goto(t, "dir locked", [b \in Line |-> IF b \in Masks(th[t].vals, TRUE) \cup Masks(th[t].vals, FALSE)
                                          THEN th[t].dir = "out" ELSE dir[b]])
    /\ UNCHANGED <<chip, ready, lat, dirreg, data, dir, want>>

\* bgpio_dir_in(), bgpio_dir_out() and their inverted forms, the same way.
LockDir(t) ==
    /\ th[t].pc = "dir" /\ lock = NoThread
    /\ lock' = t
    /\ Goto(t, "dir locked", [b \in Line |-> IF b \in Masks(th[t].vals, TRUE) \cup Masks(th[t].vals, FALSE)
                                          THEN (th[t].dir = "out") # inverted ELSE dir[b]])
    /\ UNCHANGED <<chip, ready, lat, dirreg, data, dir, want>>

WriteDir(t) ==
    /\ th[t].pc = "dir locked"
    /\ dir' = th[t].tmp /\ dirreg' = th[t].tmp
    /\ lock' = NoThread
    /\ Return(t)
    /\ UNCHANGED <<chip, ready, lat, data, want>>

Step(t) ==
    \/ WriteSet(t) \/ WriteClear(t) \/ LockData(t) \/ WriteData(t)
    \/ LockDir(t) \/ WriteDir(t)

CallOf(t) ==
    LET own == {l \in Line : Owner[l] = t}
    IN  \/ \E L \in SUBSET own \ {{}} : \E vals \in [L -> BOOLEAN] : set(t, vals)
        \/ \E l \in own : direction_input(t, l)
        \/ \E l \in own, v \in BOOLEAN : direction_output(t, l, v)

Next == bgpio_init \/ \E t \in Thread : Step(t) \/ CallOf(t)

Spec == Init /\ [][Next]_vars

------------------------------------------------------------------------------
\* Types, and bgpio_lock is held by exactly the thread that is between reading
\* a shadow and writing its register.
TypeOK ==
    /\ chip \in Chips /\ ready \in BOOLEAN
    /\ lat \in Reg /\ dirreg \in Reg /\ data \in Reg /\ dir \in Reg
    /\ lock \in Thread \cup {NoThread}
    /\ \A t \in Thread :
          /\ th[t].pc \in {"idle", "data", "clear", "data locked", "dir", "dir locked"}
          /\ lock = t <=> th[t].pc \in {"data locked", "dir locked"}
    /\ want \in [Line -> {"in", "low", "high"}]

busy == UNION {DOMAIN th[t].vals : t \in Thread}

Lines == INSTANCE GpioLines

\* Whatever the layout of the chip, and whatever the boot loader left in its
\* registers, a call changes the lines it names and no other, in one move (a
\* line that becomes an output drives the level asked for at once), and has
\* done so when it returns: the shadows and the lock lose no update.
ImplementsGpioLines == Lines!Spec

\* gc->get() of a driven line gives the level it drives, and of an input the
\* level of its pin, while no call is in progress.  Two kinds of chips with
\* BGPIOF_READ_OUTPUT_REG_SET are left out: bgpio_get_set() takes the inputs of
\* an inverted one for outputs, and the outputs of one without a direction
\* register for inputs.
GetReadsLine ==
    (/\ ready /\ lock = NoThread
     /\ "READ_OUTPUT_REG_SET" \in chip.flags => direction \notin {"dir_out_inv", "simple_dir_out"})
        => \A l \in Line : get(l) = IF drives(pin2mask(l)) THEN lat[pin2mask(l)]
                                    ELSE Pins[pin2mask(l)]
==============================================================================
