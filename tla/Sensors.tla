------------------------------- MODULE Sensors -------------------------------
(* One call of the program that looks for the sensor (sensors.c:              *)
(* getsensorid, and the monitor of snstool.c) or works on it by hand          *)
(* (i2cspi.c), over the layer chipid.c installs. One action per step that     *)
(* touches a bus, the camera's clocks or the kernel's message level.          *)
EXTENDS SensorIds, Hal

CONSTANTS
    Cases,    \* what the program is told and finds: [cmd, first, addr, reg, last, value], faults (TRUE if calls may fail) and
              \* [platform, buses, clock, control, at, vendor, name, sits, sensor, spidev, spi, spiName]
    MaxBus,   \* the last bus getsensorid tries
    WordMax   \* the largest number a size_t holds

VARIABLES
    env,      \* the case at hand
    pc,
    camera,   \* what outlives the program: [printk, clock, sensor, spi]
    hal,      \* what setup_hal installed and keeps: [change, printk, clock]
    bus,      \* i2c_adapter_nr
    asked,    \* [first, i]: current_i2c_adapter_nr and the loop's i
    slave,    \* the slave the open descriptor talks to
    opens,    \* open descriptors
    probe,    \* the next detector and address
    ctx,      \* the sensor found: [id, vendor, addr, control, regWidth]
    seen,     \* what the commands printed: addresses, or registers and values
    out,      \* how the program ended
    hurt      \* TRUE once a call on a bus failed that need not have

vars == <<env, pc, camera, hal, bus, asked, slave, opens, probe, ctx, seen, out, hurt>>

Layers == [p \in {c.platform : c \in Cases} |-> Setup(p)]
layer == Layers[env.platform]
Closed == -2
NoSlave == -1
NoCtx == [id |-> 0, vendor |-> "", addr |-> 0, control |-> "", regWidth |-> 2]
Clocks == 1..2

(* The clock of a sensor: running, and held in reset.                         *)
Runs(c) == c.on /\ ~c.reset

Init ==
    /\ env \in Cases
    /\ pc = "getchipname"
    /\ camera = [printk |-> TRUE, clock |-> env.clock, sensor |-> env.sensor, spi |-> env.spi]
    /\ hal = [change |-> "none", printk |-> FALSE, clock |-> <<>>]
    /\ bus = env.first
    /\ asked = [first |-> None, i |-> -1]
    /\ slave = Closed
    /\ opens = 0
    /\ probe = 1
    /\ ctx = NoCtx
    /\ seen = {}
    /\ out = "runs"
    /\ hurt = FALSE

(* The detectors and addresses of one search of a bus, in order.              *)
ProbesOf ==
    LET Of(v, addrs) == IF v \in DOMAIN addrs THEN [k \in DOMAIN addrs[v] |-> <<v, addrs[v][k]>>] ELSE <<>>
    IN [p \in DOMAIN Layers |->
           LET all[n \in 0..Len(Vendors)] == IF n = 0 THEN <<>> ELSE all[n - 1] \o Of(Vendors[n], Layers[p].addrs)
           IN all[Len(Vendors)]]
Probes == ProbesOf[env.platform]

(* The clocks a platform looks after, and which of them it finds to be off.   *)
Watched == IF layer.clock = "none" THEN {} ELSE IF layer.clock = "ot" THEN Clocks ELSE {1}
Enables == {c \in Watched : ~camera.clock[c].on \/ (layer.clock = "ot" /\ camera.clock[c].reset)}

(* Mutant of Shadow: the value is kept after the register was written.        *)
ShadowLate(c) == [on |-> TRUE, reset |-> FALSE]

(* What is kept of a clock register before it is changed.                     *)
Shadow(c) == camera.clock[c]

(* getchipname: the platform is recognised, the messages are silenced, the    *)
(* sensor's clock is switched on.                                             *)
GetChipName ==
    /\ pc = "getchipname"
    /\ \E silenced \in {layer.printk, layer.printk /\ ~env.faults} :
         /\ hal' = [change |-> layer.change, printk |-> silenced,
                    clock |-> [c \in Enables |-> Shadow(c)]]
         /\ camera' = [camera EXCEPT !.printk = ~silenced,
                                     !.clock = [c \in Clocks |-> IF c \in Enables THEN [on |-> TRUE, reset |-> FALSE] ELSE @[c]]]
    /\ pc' = CASE env.cmd = "chip-name" -> "done" [] env.cmd \in {"sensors", "monitor"} -> "test" [] OTHER -> "prepare"
    /\ out' = IF env.cmd = "chip-name" THEN "ok" ELSE out
    /\ UNCHANGED <<env, bus, asked, slave, opens, probe, ctx, seen, hurt>>

(* hal_cleanup, as often as it is called.                                     *)
CleanUp(c) ==
    [c EXCEPT !.printk = IF "printk" \in layer.cleanup /\ hal.printk THEN TRUE ELSE @,
              !.clock = [k \in Clocks |->
                  IF "clock" \in layer.cleanup /\ k \in DOMAIN hal.clock THEN hal.clock[k] ELSE c.clock[k]]]

(* Opening the bus asked for, or the platform's own. A failed open answers    *)
(* NoSlave - the -1 of the code.                                              *)
Device == IF layer.device = Asked THEN bus ELSE layer.device
Opens == Device \in env.buses \/ layer.device = AnyBus
Renumbered == IF layer.renumbers THEN layer.device ELSE bus
At == IF layer.device = AnyBus THEN env.at ELSE Device

(* The sensor as one who selected a slave and names an address reaches it:    *)
(* some layers send the address with every message, the others rely on the    *)
(* slave selected before.                                                     *)
Carries == layer.access \in {"rdwr", "gen1", "xm"}
Sits(a) == IF layer.shift THEN a \div 2 = env.sits \div 2 ELSE a = env.sits
Reaches(addr, selected) ==
    /\ At = env.at /\ env.control = "i2c"
    /\ Sits(IF Carries THEN addr ELSE selected)
    /\ \A c \in Watched : Runs(camera.clock[c])
Answering(addr, selected) ==
    IF Reaches(addr, selected) THEN camera.sensor ELSE [camera.sensor EXCEPT !.width = 0]

(* i2c_change_addr: the slave it leaves selected, and what it answers. The    *)
(* one get_sensor_id_spi installs answers nothing at all.                     *)
Selected(addr) ==
    CASE hal.change = "slave" -> {[ok |-> TRUE, slave |-> addr]} \union (IF env.faults THEN {[ok |-> FALSE, slave |-> slave]} ELSE {})
      [] hal.change = "nothing" -> {[ok |-> TRUE, slave |-> slave]}
      [] hal.change = "dummy" -> {[ok |-> o, slave |-> slave] : o \in BOOLEAN}

(* getsensorid begins a bus: a first descriptor is opened to see whether it   *)
(* can be, compared with 0 and left open; then the one that is used.          *)
TestOpen ==
    /\ pc = "test"
    /\ opens' = IF Opens THEN opens + 1 ELSE opens
    /\ bus' = Renumbered
    /\ ctx' = [ctx EXCEPT !.regWidth = 2]
    /\ pc' = "open"
    /\ UNCHANGED <<env, camera, hal, asked, slave, probe, seen, out, hurt>>

Open ==
    /\ pc = "open"
    /\ \/ /\ Opens
          /\ pc' = "probe" /\ probe' = 1 /\ slave' = NoSlave /\ opens' = opens + 1
          /\ UNCHANGED hurt
       \/ /\ ~Opens \/ env.faults
          /\ pc' = "spi" /\ hurt' = (hurt \/ Opens)
          /\ UNCHANGED <<probe, slave, opens>>
    /\ UNCHANGED <<env, camera, hal, bus, asked, ctx, seen, out>>

(* What a detector's calls that fail cost it: the readings of one register,   *)
(* or all of them (a bound: not those of a few).                              *)
Losses(vendor) ==
    IF ~env.faults THEN {{}}
    ELSE {{}, AskedFor(vendor)} \union {{r} : r \in AskedFor(vendor)}
Losing(s, regs, value) == [s EXCEPT !.lost = [r \in regs |-> value]]

(* One detector at one address. It takes the -1 of a reading that failed for  *)
(* a value, unless it looks.                                                  *)
Probe ==
    /\ pc = "probe" /\ probe <= Len(Probes)
    /\ LET vendor == Probes[probe][1]
           addr == Probes[probe][2]
       IN \E s \in Selected(addr) :
          \E there \in {Answering(addr, s.slave)} :
          \E lost \in IF s.ok /\ there.width > 0 THEN Losses(vendor) ELSE {{}} :
          \E reached \in {Losing(there, lost, NoAnswer)} :
          \E id \in {IF s.ok THEN Identify(vendor, reached, layer.access) ELSE None} :
               /\ slave' = s.slave
               /\ hurt' = (hurt \/ lost # {} \/ (~s.ok /\ hal.change = "slave"))
               /\ \E after \in IF s.ok /\ there.width > 0 THEN Probed(vendor, reached, layer.access) ELSE {camera.sensor} :
                    camera' = [camera EXCEPT !.sensor = after]
               /\ IF id = None
                  THEN probe' = probe + 1 /\ UNCHANGED <<pc, ctx>>
                  ELSE /\ ctx' = [id |-> id, vendor |-> vendor, addr |-> addr, control |-> "i2c",
                                  regWidth |-> IF vendor \in {"SOI", "GALAXYCORE", "SUPERPIX"} THEN 1 ELSE ctx.regWidth]
                       /\ pc' = "close" /\ UNCHANGED probe
    /\ UNCHANGED <<env, hal, bus, asked, opens, seen, out>>

(* hisi_sensor_read_register gives the program up when the driver is slow.    *)
SlowDriver ==
    /\ pc \in {"probe", "monitor"} /\ env.faults /\ layer.access = "rdwr"
    /\ pc' = "done" /\ out' = "exit2"
    /\ UNCHANGED <<env, camera, hal, bus, asked, slave, opens, probe, ctx, seen, hurt>>

(* Nothing found: the bus is left, as it is when something was.               *)
NothingThere ==
    /\ pc = "probe" /\ probe > Len(Probes)
    /\ pc' = "close"
    /\ UNCHANGED <<env, camera, hal, bus, asked, slave, opens, probe, ctx, seen, out, hurt>>

(* What a found sensor leads to.                                              *)
Monitored == {<<"SMARTSENS", \H2238>>, <<"SONY", 291>>, <<"SONY", 385>>}
AfterFound ==
    IF env.cmd = "monitor" /\ <<ctx'.vendor, ctx'.id>> \in Monitored
    THEN pc' = "watch" /\ UNCHANGED out
    ELSE pc' = "done" /\ out' = IF env.cmd = "monitor" THEN "unsupported" ELSE "found"

Close ==
    /\ pc = "close"
    /\ slave' = Closed /\ opens' = opens - 1
    /\ camera' = CleanUp(camera)
    /\ UNCHANGED ctx
    /\ IF ctx.control = "i2c" THEN AfterFound ELSE pc' = "spi" /\ UNCHANGED out
    /\ UNCHANGED <<env, hal, bus, asked, probe, seen, hurt>>

(* The first generation's driver is not asked whether it has read anything:   *)
(* what was to be overwritten is taken for the value.                         *)
LostOverSpi == IF layer.access = "gen1" THEN 0 ELSE NoAnswer

(* get_sensor_id_spi. A descriptor whose mode cannot be set is not closed.    *)
Spi ==
    /\ pc = "spi"
    /\ \/ /\ ~layer.spi \/ ~env.spidev
          /\ pc' = "next" /\ UNCHANGED <<hal, ctx, opens, out, hurt>>
       \/ /\ layer.spi /\ env.spidev /\ env.faults /\ layer.access # "gen1"
          /\ opens' = opens + 1 /\ hurt' = TRUE /\ pc' = "next"
          /\ UNCHANGED <<hal, ctx, out>>
       \/ /\ layer.spi /\ env.spidev
          /\ hal' = [hal EXCEPT !.change = "dummy"]
          /\ \E accepted \in BOOLEAN, lost \in Losses("SONY") :
               LET id == IF accepted THEN Sony(Losing(camera.spi, lost, LostOverSpi), "spi") ELSE None
               IN /\ hurt' = (hurt \/ lost # {})
                  /\ IF id = None THEN pc' = "next" /\ UNCHANGED <<ctx, out>>
                     ELSE ctx' = [ctx EXCEPT !.id = id, !.vendor = "SONY", !.control = "spi"] /\ AfterFound
          /\ UNCHANGED opens
    /\ UNCHANGED <<env, camera, bus, asked, slave, probe, seen>>

BusAfter(first, i) == IF i + 1 = first THEN i + 2 ELSE i + 1

(* The other buses, in order; getsensorid says nothing after the last one,    *)
(* and its caller takes whatever that is.                                     *)
NextBus ==
    /\ pc = "next"
    /\ LET first == IF asked.first = None THEN bus ELSE asked.first
           i == BusAfter(first, asked.i)
       IN /\ asked' = [first |-> first, i |-> i]
          /\ IF i <= MaxBus THEN bus' = i /\ pc' = "test" /\ UNCHANGED out
             ELSE pc' = "done" /\ out' \in {"none", "junk"} /\ UNCHANGED bus
    /\ UNCHANGED <<env, camera, hal, slave, opens, probe, ctx, seen, hurt>>

(* The monitor opens the sensor again and reads it every two seconds.         *)
Watch ==
    /\ pc = "watch"
    /\ \/ /\ ctx.control = "i2c" /\ Opens
          /\ \E s \in Selected(ctx.addr) : slave' = s.slave /\ hurt' = (hurt \/ (~s.ok /\ hal.change = "slave"))
          /\ opens' = opens + 1 /\ bus' = Renumbered /\ pc' = "monitor" /\ UNCHANGED out
       \/ /\ ctx.control = "spi"
          /\ opens' = opens + 1 /\ pc' = "monitor" /\ UNCHANGED <<slave, bus, hurt, out>>
       \/ /\ env.faults
          /\ pc' = "done" /\ out' = "exit" /\ hurt' = TRUE /\ UNCHANGED <<opens, slave, bus>>
    /\ UNCHANGED <<env, camera, hal, asked, probe, ctx, seen>>

MonitorRead ==
    /\ pc = "monitor"
    /\ seen' = {<<\H3020, IF ctx.control = "i2c" THEN Read(Answering(ctx.addr, slave), layer.access, \H3020, ctx.regWidth, 1)
                          ELSE Read(camera.spi, "spi", \H3020, ctx.regWidth, 1)>>}
    /\ UNCHANGED <<env, pc, camera, hal, bus, asked, slave, opens, probe, ctx, out, hurt>>
=============================================================================
