----------------------------- MODULE Bcm2835Map -------------------------------
(***************************************************************************)
(* bcm2835_pctl_dt_node_to_map(): a device tree node lists pins, and either *)
(* one function (or pull) for all of them or one for each.  The result is  *)
(* an array of map entries; an entry for a pull owns an allocated          *)
(* configuration, which bcm2835_pctl_dt_free_map() frees with the array,   *)
(* later or when an entry fails.                                           *)
(***************************************************************************)
EXTENDS Bcm2835Regs

CONSTANT DtNodes                \* [pins, funcs, pulls], each [given, cells]

Property == [given : BOOLEAN, cells : Seq(Nat)]
ASSUME MapAssumption == DtNodes \subseteq [pins : Property, funcs : Property, pulls : Property]

VARIABLES node, map,            \* the node; the entries made, <<kind, pin, value>>
          configs,              \* the entries (by index) that own a configuration
          misfreed,             \* history: a kfree() of what is not allocated
          dt, next              \* "idle", "pins", "ok" or "error"; the next pin
mapVars == <<node, map, configs, misfreed, dt, next>>

num_pins == Len(node.pins.cells)
num_funcs == Len(node.funcs.cells)
num_pulls == Len(node.pulls.cells)
One(n) == IF n > 0 THEN 1 ELSE 0
maps_per_pin == One(num_funcs) + One(num_pulls)
Cell(cells, i) == cells[IF Len(cells) > 1 THEN i ELSE 1]

NoCells == [given |-> FALSE, cells |-> <<>>]
MapInit ==
    /\ node = [pins |-> NoCells, funcs |-> NoCells, pulls |-> NoCells]
    /\ map = <<>> /\ configs = {} /\ misfreed = FALSE /\ dt = "idle" /\ next = 1

\* The checks of the whole node, and the allocation of the array.
NodeToMap ==
    /\ case.calls = "map" /\ dt = "idle"
    /\ \E n \in DtNodes : node' = n
    /\ dt' \in IF /\ node'.pins.given
                  /\ node'.funcs.given \/ node'.pulls.given
                  /\ Len(node'.funcs.cells) \in {0, 1, Len(node'.pins.cells)}
                  /\ Len(node'.pulls.cells) \in {0, 1, Len(node'.pins.cells)}
               THEN {"pins", "error"} ELSE {"error"}
    /\ UNCHANGED <<map, configs, misfreed, next>>

\* A plausible slip: only as many entries are looked at as there are pins.
free_num_pins == {i \in 1 .. num_pins : i <= Len(map) /\ map[i][1] = "pull"}

\* bcm2835_pctl_dt_free_map(): the entries whose configurations it frees.
dt_free_map == {i \in 1 .. num_pins * maps_per_pin : i <= Len(map) /\ map[i][1] = "pull"}

Free ==
    /\ configs' = configs \ dt_free_map
    /\ misfreed' = (misfreed \/ ~ dt_free_map \subseteq configs)

\* The entries of the next pin; what was made is freed when one fails.
MapPin ==
    LET i == next
        pin == node.pins.cells[i]
        func == IF num_funcs > 0 THEN << <<"mux", pin, Cell(node.funcs.cells, i)>> >> ELSE <<>>
        pull == IF num_pulls > 0 THEN << <<"pull", pin, Cell(node.pulls.cells, i)>> >> ELSE <<>>
        funcOK == pin < BCM2835_NUM_GPIOS /\ (func # <<>> => func[1][3] \in fsel_values)
        pullOK == funcOK /\ (pull # <<>> => pull[1][3] <= 2)
        fails(made) == dt' = "error" /\ map' = made /\ Free
    IN  /\ dt = "pins" /\ next <= num_pins
        /\ next' = i + 1
        /\ \/ ~ funcOK /\ fails(map)
           \/ funcOK /\ ~ pullOK /\ fails(map \o func)
           \/ pullOK /\ pull # <<>> /\ fails(map \o func)           \* -ENOMEM
           \/ /\ pullOK
              /\ map' = map \o func \o pull
              /\ configs' = IF pull = <<>> THEN configs ELSE configs \cup {Len(map')}
              /\ UNCHANGED <<misfreed, dt>>
        /\ UNCHANGED node

MapDone ==
    /\ dt = "pins" /\ next > num_pins
    /\ dt' = "ok"
    /\ UNCHANGED <<node, map, configs, misfreed, next>>

\* The caller is done with the map, or with the error.
Forget ==
    /\ dt \in {"ok", "error"}
    /\ IF dt = "ok" THEN Free ELSE UNCHANGED <<configs, misfreed>>
    /\ map' = <<>> /\ dt' = "idle" /\ next' = 1
    /\ UNCHANGED node

MapNext == NodeToMap \/ MapPin \/ MapDone \/ Forget

------------------------------------------------------------------------------
\* A map is made only of a node whose pins, functions and pulls all exist, it
\* has every pin with its function and its pull and nothing else; and however
\* the call ends, every configuration is freed once: none is left that nothing
\* frees, and none is freed a second time.
MapsRight ==
    LET pins == node.pins.cells
        value(cells, i) == IF Len(cells) = 1 THEN cells[1] ELSE cells[i]
        funcs == {<<"mux", pins[i], value(node.funcs.cells, i)>> : i \in DOMAIN pins}
        pulls == {<<"pull", pins[i], value(node.pulls.cells, i)>> : i \in DOMAIN pins}
    IN  /\ dt = "ok" =>
              /\ Range(map) = (IF num_funcs = 0 THEN {} ELSE funcs) \cup (IF num_pulls = 0 THEN {} ELSE pulls)
              /\ Range(pins) \subseteq Pin
              /\ num_funcs > 0 => \A i \in DOMAIN pins : value(node.funcs.cells, i) \in 0 .. 7
              /\ num_pulls > 0 => \A i \in DOMAIN pins : value(node.pulls.cells, i) \in 0 .. 2
              /\ configs = {i \in DOMAIN map : map[i][1] = "pull"}
        /\ dt \in {"idle", "error"} => configs = {}
        /\ ~ misfreed
===============================================================================
