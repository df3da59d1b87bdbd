--------------------------------- MODULE Gpio ---------------------------------
(* The gpio command of reginfo.c - get, set, mux and scan - and the search for *)
(* the pins of an infrared filter, over mem_reg, while other programs use the *)
(* same pins. One action per call of mem_reg.                                 *)
EXTENDS MemReg, Bitwise, Sequences, FiniteSetsExt

CONSTANTS
    GpioCases,  \* what is asked on which chip: [cmd, pin, value, func, streamers, faults, chip], chip being
                \* [base, step, groups, pads], pads a sequence of [addr, pin, place, names], and func
                \* [by, number, name]
    Before,     \* how the registers may stand: [pads, pins]
    MaxMoves    \* how often the other programs do something

VARIABLES
    gpioEnv,    \* the case at hand
    gpc,
    pads,       \* the multiplexers' values, by address
    pins,       \* the controllers, by group: [latch, dir, input], sets of bits
    loop,       \* the pad, or the group, the program has come to
    bit,        \* the bit a scan has come to
    padVal,     \* the multiplexer's value as it was read
    val,        \* the set of bits read last
    enabled,    \* the bits of each group that are GPIOs
    state,      \* the levels a scan has seen last
    dirs,       \* the directions the search has read
    told,       \* what get and the search have printed
    known,      \* the levels a reader of a scan's lines knows
    gout,       \* how the command ended
    moves,      \* what the other programs have done
    moved,      \* the pins they have done it to
    since       \* those of them since the direction register was read

gpioVars == <<gpioEnv, gpc, pads, pins, loop, bit, padVal, val, enabled, state, dirs, told, known, gout, moves, moved, since>>

chip == gpioEnv.chip
Bits == 0..7
Groups == 0..chip.groups - 1
Nowhere == [latch |-> {}, dir |-> {}, input |-> {}]
Level(g) == (pins[g].latch \intersect pins[g].dir) \union (pins[g].input \ pins[g].dir)
LevelOf(pin) == pin[2] \in Level(pin[1])

(* get_chip_gpio_adress says where the controllers are; group is compared so  *)
(* that the one behind the last passes.                                       *)
Mask(bits) == MapThenSumSet(LAMBDA b : 4 * 2^b, bits)
DataAddress(g, bits) == chip.base + g * chip.step + Mask(bits)
DirAddress(g) == chip.base + g * chip.step + \H400

GpioInit(cases) ==
    /\ gpioEnv \in cases
    /\ \E before \in Before : pads = before.pads /\ pins = before.pins
    /\ gpc = IF gpioEnv.cmd \in {"get", "set", "mux"} THEN "mux" ELSE "fill"
    /\ loop = 1 /\ bit = -1 /\ padVal = 0 /\ val = {}
    /\ enabled = [g \in Groups |-> {}] /\ state = [g \in Groups |-> {}] /\ dirs = [g \in Groups |-> {}]
    /\ known = state /\ told = <<>> /\ gout = "runs" /\ moves = 0 /\ moved = {} /\ since = {}

(* A call of mem_reg that fails only where calls may, or where it must.       *)
Access(addr) == Call(addr) /\ (ret' \/ gpioEnv.faults \/ (~InCache(addr) /\ Mappable(Opened, addr) = {}))
Quiet == UNCHANGED memVars

FinishGpio(how) == gpc' = "done" /\ gout' = how

(* gpio_mux_by: the first pad that can be the pin.                            *)
PadOf(pin) == {k \in DOMAIN chip.pads : chip.pads[k].pin = pin}
ThePad == chip.pads[Min(PadOf(gpioEnv.pin))]

(* What follows the multiplexing, whether it worked or not.                   *)
AfterMux(worked) ==
    IF gpioEnv.cmd = "mux" THEN FinishGpio(IF worked THEN "ok" ELSE "fail")
    ELSE gpc' = "check" /\ UNCHANGED gout

MuxNotFound ==
    /\ gpc = "mux" /\ PadOf(gpioEnv.pin) = {}
    /\ AfterMux(FALSE) /\ Quiet
    /\ UNCHANGED <<gpioEnv, pads, pins, loop, bit, padVal, val, enabled, state, dirs, told, known, moves, moved, since>>

MuxRead ==
    /\ gpc = "mux" /\ PadOf(gpioEnv.pin) # {}
    /\ \/ ThePad.addr # NoPinmux /\ Access(ThePad.addr)
       \/ ThePad.addr = NoPinmux /\ CallNoPinmux
    /\ IF ret' THEN /\ padVal' = (IF ThePad.addr = NoPinmux THEN 0 ELSE pads[ThePad.addr])
                    /\ gpc' = "muxwrite" /\ UNCHANGED gout
       ELSE AfterMux(FALSE) /\ UNCHANGED padVal
    /\ UNCHANGED <<gpioEnv, pads, pins, loop, bit, val, enabled, state, dirs, told, known, moves, moved, since>>

(* The function asked for by number or by name, the GPIO where there is none. *)
NewFunc ==
    LET named == {k \in DOMAIN ThePad.names : ThePad.names[k] = gpioEnv.func.name}
    IN CASE gpioEnv.cmd = "mux" /\ gpioEnv.func.by = "number" -> gpioEnv.func.number
         [] gpioEnv.cmd = "mux" /\ gpioEnv.func.by = "name" /\ named # {} -> Min(named) - 1
         [] OTHER -> ThePad.place

Muxed(old, func) == (old & \Hfff0) | func

MuxWrite ==
    /\ gpc = "muxwrite"
    /\ \/ ThePad.addr # NoPinmux /\ Access(ThePad.addr)
       \/ ThePad.addr = NoPinmux /\ CallNoPinmux
    /\ pads' = IF ret' /\ ThePad.addr # NoPinmux THEN [pads EXCEPT ![ThePad.addr] = Muxed(padVal, NewFunc)] ELSE pads
    /\ AfterMux(ret')
    /\ UNCHANGED <<gpioEnv, pins, loop, bit, padVal, val, enabled, state, dirs, told, known, moves, moved, since>>

TooLarge(pin) == pin[1] > chip.groups \/ pin[2] > 7

Check ==
    /\ gpc = "check"
    /\ IF TooLarge(gpioEnv.pin) \/ (gpioEnv.cmd = "set" /\ gpioEnv.value > 1)
       THEN FinishGpio("fail")
       ELSE gpc' = gpioEnv.cmd /\ UNCHANGED gout
    /\ Quiet /\ UNCHANGED <<gpioEnv, pads, pins, loop, bit, padVal, val, enabled, state, dirs, told, known, moves, moved, since>>

(* The group behind the last is no GPIO controller's.                         *)
Pins(g) == IF g \in Groups THEN pins[g] ELSE Nowhere

Get ==
    /\ gpc = "get"
    /\ Access(DataAddress(gpioEnv.pin[1], {gpioEnv.pin[2]}))
    /\ told' = IF ret' THEN <<gpioEnv.pin[1] \in Groups /\ LevelOf(gpioEnv.pin)>> ELSE told
    /\ FinishGpio(IF ret' THEN "ok" ELSE "fail")
    /\ UNCHANGED <<gpioEnv, pads, pins, loop, bit, padVal, val, enabled, state, dirs, known, moves, moved, since>>

SetReadsDir ==
    /\ gpc = "set"
    /\ Access(DirAddress(gpioEnv.pin[1]))
    /\ since' = {}
    /\ val' = IF ret' THEN Pins(gpioEnv.pin[1]).dir ELSE val
    /\ IF ~ret' THEN FinishGpio("fail")
       ELSE gpc' = (IF gpioEnv.pin[2] \in val' THEN "setdata" ELSE "setdir") /\ UNCHANGED gout
    /\ UNCHANGED <<gpioEnv, pads, pins, loop, bit, padVal, enabled, state, dirs, told, known, moves, moved>>

(* Mutant of MadeOutput: the register is written with the pin alone.          *)
MadeOutputAlone == {gpioEnv.pin[2]}

(* The whole direction register is written as it was read, but for the pin.   *)
MadeOutput == val \union {gpioEnv.pin[2]}

SetMakesOutput ==
    /\ gpc = "setdir"
    /\ Access(DirAddress(gpioEnv.pin[1]))
    /\ pins' = IF ret' /\ gpioEnv.pin[1] \in Groups
               THEN [pins EXCEPT ![gpioEnv.pin[1]].dir = MadeOutput] ELSE pins
    /\ IF ret' THEN gpc' = "setdata" /\ UNCHANGED gout ELSE FinishGpio("fail")
    /\ UNCHANGED <<gpioEnv, pads, loop, bit, padVal, val, enabled, state, dirs, told, known, moves, moved, since>>

(* The address lets the one bit through.                                      *)
Written(old, b, value) == IF value = 1 THEN old \union {b} ELSE old \ {b}

SetData ==
    /\ gpc = "setdata"
    /\ Access(DataAddress(gpioEnv.pin[1], {gpioEnv.pin[2]}))
    /\ pins' = IF ret' /\ gpioEnv.pin[1] \in Groups
               THEN [pins EXCEPT ![gpioEnv.pin[1]].latch = Written(@, gpioEnv.pin[2], gpioEnv.value)] ELSE pins
    /\ FinishGpio(IF ret' THEN "ok" ELSE "fail")
    /\ UNCHANGED <<gpioEnv, pads, loop, bit, padVal, val, enabled, state, dirs, told, known, moves, moved, since>>

(* fill_enabled_gpios, one pad. A group behind the array is written all the   *)
(* same where the assertion lets it pass or has been left out of the build.   *)
Asserted(g) == g <= chip.groups

FillNext(worked) ==
    LET pad == chip.pads[loop]
        g == pad.pin[1]
        isGpio == worked /\ (IF pad.addr = NoPinmux THEN 0 ELSE pads[pad.addr] % 16) = pad.place
    IN \/ /\ loop' = loop + 1
          /\ enabled' = IF isGpio /\ g \in Groups THEN [enabled EXCEPT ![g] = @ \union {pad.pin[2]}] ELSE enabled
          /\ UNCHANGED <<gpc, gout>>
       \/ /\ isGpio /\ g \notin Groups
          /\ FinishGpio("crash") \/ (~Asserted(g) /\ FinishGpio("abort"))
          /\ UNCHANGED <<loop, enabled>>

Fill ==
    /\ gpc = "fill" /\ loop <= Len(chip.pads)
    /\ \/ chip.pads[loop].addr # NoPinmux /\ Access(chip.pads[loop].addr)
       \/ chip.pads[loop].addr = NoPinmux /\ CallNoPinmux
    /\ FillNext(ret')
    /\ UNCHANGED <<gpioEnv, pads, pins, bit, padVal, val, state, dirs, told, known, moves, moved, since>>

Filled ==
    /\ gpc = "fill" /\ loop > Len(chip.pads)
    /\ gpc' = "data" /\ loop' = 0
    /\ Quiet /\ UNCHANGED <<gpioEnv, pads, pins, bit, padVal, val, enabled, state, dirs, told, known, gout, moves, moved, since>>

(* The first look at every group: its levels, then its directions.            *)
ReadData ==
    /\ gpc = "data" /\ loop < chip.groups
    /\ Access(DataAddress(loop, enabled[loop]))
    /\ state' = IF ret' THEN [state EXCEPT ![loop] = Level(loop) \intersect enabled[loop]] ELSE state
    /\ IF ret' THEN gpc' = "dir" /\ UNCHANGED gout ELSE FinishGpio("fail")
    /\ known' = state'
    /\ UNCHANGED <<gpioEnv, pads, pins, loop, bit, padVal, val, enabled, dirs, told, moves, moved, since>>

ReadDir ==
    /\ gpc = "dir"
    /\ Access(DirAddress(loop))
    /\ dirs' = IF ret' THEN [dirs EXCEPT ![loop] = pins[loop].dir] ELSE dirs
    /\ IF ret' THEN gpc' = "data" /\ loop' = loop + 1 /\ UNCHANGED gout ELSE FinishGpio("fail") /\ UNCHANGED loop
    /\ UNCHANGED <<gpioEnv, pads, pins, bit, padVal, val, enabled, state, told, known, moves, moved, since>>

(* gpio_possible_ircut: outputs of the groups the streamer has mapped that    *)
(* have few of them, or those that are low.                                   *)
Candidates ==
    {pin \in Groups \X Bits :
        LET g == pin[1] IN
        /\ pin[2] \in enabled[g] \intersect dirs[g]
        /\ IF gpioEnv.streamers # {} THEN g \in gpioEnv.streamers /\ Cardinality(enabled[g] \intersect dirs[g]) <= 2
           ELSE pin[2] \notin state[g]}

LookedAtAll ==
    /\ gpc = "data" /\ loop = chip.groups
    /\ IF gpioEnv.cmd = "ircut"
       THEN told' = <<Candidates>> /\ FinishGpio("ok") /\ UNCHANGED loop
       ELSE gpc' = "scan" /\ loop' = 0 /\ UNCHANGED <<told, gout>>
    /\ Quiet /\ UNCHANGED <<gpioEnv, pads, pins, bit, padVal, val, enabled, state, dirs, known, moves, moved, since>>

(* Mutant of NextGroup: the last group is left out.                           *)
NextGroupShort == loop' = (loop + 1) % (chip.groups - 1)

(* The endless part of a scan: a group's levels, a line for every bit that    *)
(* has changed, the next group; a group that cannot be read sends it to sleep. *)
NextGroup == loop' = (loop + 1) % chip.groups

ScanRead ==
    /\ gpc = "scan"
    /\ Access(DataAddress(loop, enabled[loop]))
    /\ LET new == Level(loop) \intersect enabled[loop]
       IN IF ~ret' THEN loop' = 0 /\ UNCHANGED <<gpc, val, bit>>
          ELSE IF new = state[loop] THEN NextGroup /\ UNCHANGED <<gpc, val, bit>>
          ELSE gpc' = "report" /\ val' = new /\ bit' = 7 /\ UNCHANGED loop
    /\ UNCHANGED <<gpioEnv, pads, pins, padVal, enabled, state, dirs, told, known, gout, moves, moved, since>>

Changed == (val \ state[loop]) \union (state[loop] \ val)

ScanSkips ==
    /\ gpc = "report" /\ bit >= 0 /\ bit \notin Changed
    /\ bit' = bit - 1
    /\ Quiet /\ UNCHANGED <<gpioEnv, gpc, pads, pins, loop, padVal, val, enabled, state, dirs, told, known, gout, moves, moved, since>>

ScanTells ==
    /\ gpc = "report" /\ bit \in Changed
    /\ Access(DirAddress(loop))
    /\ IF ret' THEN /\ known' = [known EXCEPT ![loop] = IF bit \in val THEN @ \union {bit} ELSE @ \ {bit}]
                    /\ bit' = bit - 1
       ELSE bit' = -1 /\ UNCHANGED known
    /\ UNCHANGED <<gpioEnv, gpc, pads, pins, loop, padVal, val, enabled, state, dirs, told, gout, moves, moved, since>>

(* Mutant of Remember: what is remembered is what the group reads by now.     *)
RememberNow == Level(loop) \intersect enabled[loop]

Remember == val

ScanRemembers ==
    /\ gpc = "report" /\ bit = -1
    /\ state' = [state EXCEPT ![loop] = Remember]
    /\ gpc' = "scan" /\ val' = {} /\ NextGroup
    /\ Quiet /\ UNCHANGED <<gpioEnv, pads, pins, bit, padVal, enabled, dirs, told, known, gout, moves, moved, since>>

GpioStep ==
    \/ MuxNotFound \/ MuxRead \/ MuxWrite \/ Check \/ Get \/ SetReadsDir \/ SetMakesOutput \/ SetData
    \/ Fill \/ Filled \/ ReadData \/ ReadDir \/ LookedAtAll
    \/ ScanRead \/ ScanSkips \/ ScanTells \/ ScanRemembers

(* Another program, or the world: a level at an input, a level or a direction *)
(* the program that owns a pin gives it.                                      *)
Others ==
    /\ gpc # "done" /\ moves < MaxMoves
    /\ moves' = moves + 1
    /\ \E k \in DOMAIN chip.pads : LET g == chip.pads[k].pin[1]
                                      b == chip.pads[k].pin[2] IN
         /\ g \in Groups
         /\ \E what \in {"latch", "dir", "input"}, on \in BOOLEAN :
              pins' = [pins EXCEPT ![g] = [@ EXCEPT ![what] = IF on THEN @ \union {b} ELSE @ \ {b}]]
         /\ pins' # pins
         /\ moved' = moved \union {chip.pads[k].pin} /\ since' = since \union {chip.pads[k].pin}
    /\ Quiet /\ UNCHANGED <<gpioEnv, gpc, pads, loop, bit, padVal, val, enabled, state, dirs, told, known, gout>>
=============================================================================
