-------------------------------- MODULE I2cSpi --------------------------------
(* The commands of i2cspi.c: one register read or written, a range of them    *)
(* dumped, or every address of a bus tried; and what they and the search for  *)
(* the sensor promise.                                                        *)
EXTENDS Sensors

OverSpi == env.cmd \in {"spiget", "spiset", "spidump"}

(* Unknown hardware and missing devices end the program at once, whatever     *)
(* was changed until then. The address is selected and the outcome ignored.   *)
Prepare ==
    /\ pc = "prepare"
    /\ \/ /\ ~OverSpi /\ Opens
          /\ opens' = opens + 1 /\ bus' = Renumbered /\ pc' = "operate"
          /\ probe' = env.reg
          /\ \E s \in Selected(env.addr) : slave' = IF s.ok THEN s.slave ELSE NoSlave
          /\ UNCHANGED <<hurt, out>>
       \/ /\ OverSpi /\ layer.spi /\ env.spidev
          /\ opens' = opens + 1 /\ pc' = "operate" /\ probe' = env.reg
          /\ UNCHANGED <<bus, slave, hurt, out>>
       \/ /\ IF OverSpi THEN ~layer.spi \/ ~env.spidev \/ env.faults ELSE ~Opens \/ env.faults
          /\ pc' = "done" /\ out' = "exit" /\ hurt' = TRUE
          /\ UNCHANGED <<opens, bus, slave, probe>>
    /\ UNCHANGED <<env, camera, hal, asked, ctx, seen>>

Target == IF OverSpi THEN camera.spi ELSE Answering(env.addr, slave)
Over == IF OverSpi THEN "spi" ELSE layer.access

(* i2cget and spiget.                                                         *)
Get ==
    /\ pc = "operate" /\ env.cmd \in {"i2cget", "spiget"}
    /\ seen' = {<<env.reg, Read(Target, Over, env.reg, SelectWide(env.reg), 1)>>}
    /\ pc' = "leave"
    /\ UNCHANGED <<env, camera, hal, bus, asked, slave, opens, probe, ctx, out, hurt>>

(* i2cset and spiset: no outcome is looked at.                                *)
Set ==
    /\ pc = "operate" /\ env.cmd \in {"i2cset", "spiset"}
    /\ LET target == Target
           after == Written(target, Over, env.reg, SelectWide(env.reg), env.value)
       IN camera' = IF OverSpi THEN [camera EXCEPT !.spi = after]
                    ELSE IF target.width = 0 THEN camera
                    ELSE [camera EXCEPT !.sensor = after]
    /\ pc' = "leave"
    /\ UNCHANGED <<env, hal, bus, asked, slave, opens, probe, ctx, seen, out, hurt>>

(* Mutant of Within: the last register of the range is left out.              *)
WithinShort(reg) == reg < env.last

Within(reg) == reg <= env.last

(* Mutant of RegisterAfter: the counter is a byte.                            *)
RegisterAfterByte(reg) == (reg + 1) % 256

RegisterAfter(reg) == (reg + 1) % (WordMax + 1)

(* i2cdump and spidump: one register.                                         *)
Dump ==
    /\ pc = "operate" /\ env.cmd \in {"i2cdump", "spidump"}
    /\ IF Within(probe)
       THEN /\ seen' = seen \union {<<probe, Read(Target, Over, probe, SelectWide(probe), 1)>>}
            /\ probe' = RegisterAfter(probe)
            /\ UNCHANGED pc
       ELSE pc' = "leave" /\ UNCHANGED <<seen, probe>>
    /\ UNCHANGED <<env, camera, hal, bus, asked, slave, opens, ctx, out, hurt>>

(* i2cdetect: an unsigned char counts from its last value through its first.  *)
AddressAfter(a) == (a + 1) % 256
FirstAddress == 255

(* One address: probe holds the one tried before it.                          *)
Detect ==
    /\ pc = "operate" /\ env.cmd = "i2cdetect"
    /\ LET a == AddressAfter(IF probe = None THEN FirstAddress ELSE probe)
       IN \E s \in Selected(a) :
            /\ slave' = s.slave
            /\ hurt' = (hurt \/ ~s.ok)
            /\ seen' = IF Read(Answering(a, s.slave), layer.access, 0, 1, 1) # NoAnswer THEN seen \union {<<a, 0>>} ELSE seen
            /\ probe' = a
            /\ pc' = IF a = 255 THEN "leave" ELSE "operate"
    /\ UNCHANGED <<env, camera, hal, bus, asked, opens, ctx, out>>


Leave ==
    /\ pc = "leave"
    /\ slave' = Closed /\ opens' = opens - 1
    /\ camera' = CleanUp(camera)
    /\ pc' = "done" /\ out' = "ok"
    /\ UNCHANGED <<env, hal, bus, asked, probe, ctx, seen, hurt>>

Step ==
    \/ GetChipName \/ TestOpen \/ Open \/ Probe \/ NothingThere \/ Close \/ Spi \/ NextBus
    \/ SlowDriver \/ Watch \/ MonitorRead
    \/ Prepare \/ Get \/ Set \/ Dump \/ Detect \/ Leave

Ended == pc = "done" /\ UNCHANGED vars
Next == Step \/ Ended
Spec == Init /\ [][Next]_vars /\ WF_vars(Step)
-----------------------------------------------------------------------------
TypeOK ==
    /\ pc \in {"getchipname", "test", "open", "probe", "close", "spi", "next", "watch", "monitor", "prepare",
               "operate", "leave", "done"}
    /\ camera.printk \in BOOLEAN /\ camera.clock \in [Clocks -> [on : BOOLEAN, reset : BOOLEAN]]
    /\ hal.change \in {"none", "slave", "nothing", "dummy"} /\ DOMAIN hal.clock \subseteq Clocks
    /\ bus \in Int /\ slave \in Closed..255 /\ opens \in Nat
    /\ ctx.control \in {"", "i2c", "spi"} /\ ctx.regWidth \in 1..2
    /\ out \in {"runs", "ok", "found", "none", "junk", "unsupported", "exit", "exit2"}

(* What a detector may make of a sensor when a reading of it fails, as        *)
(* <<vendor, name>>: -1 has the bits that tell an IMX327, it is not the value *)
(* that tells one of two sensors apart, and it is printed for a version. The  *)
(* SPI driver of the first generation leaves a 0, which is such a value.      *)
Confused ==
    {<<323, 322>>, <<225, 385>>, <<335, 347>>}
    \union (IF ctx.control = "spi" /\ layer.access = "gen1" THEN {<<291, 290>>} ELSE {})
Misread(right) ==
    {<<"SONY", 327>>} \union {<<"SONY", m[2]>> : m \in {m \in Confused : right = <<"SONY", m[1]>>}}
    \union {<<"SOI", (right[2] \div 256) * 256 - 1>> : v \in {right[1]} \intersect {"SOI"}}

(* What ought to be reported, as <<vendor, name>>.                            *)
Right ==
    CASE ctx.control = "spi" -> <<"SONY", env.spiName>>
      [] env.vendor = "SMARTSENS" /\ env.name \in Unnamed -> <<env.vendor, 0>>
      [] OTHER -> <<env.vendor, env.name>>

(* A sensor is never taken for another one while all its readings succeed:    *)
(* whatever else answers at the address, whichever detector asks first and    *)
(* whatever an earlier one wrote into the sensor while it asked, what is      *)
(* reported is the sensor that is there, by its vendor, its name and its      *)
(* address (get_sensor_id_i2c's order). Once a call has failed the address is *)
(* right still, and the name is but for the few that Misread lists.           *)
NamedRight ==
    ctx.vendor # "" =>
        /\ ctx.control = "i2c" => env.control = "i2c" /\ Sits(ctx.addr)
        /\ <<ctx.vendor, ctx.id>> = Right \/ (hurt /\ <<ctx.vendor, ctx.id>> \in Misread(Right))

(* A sensor on the bus that is tried first, at an address the platform's      *)
(* table has for its vendor, is found if no call fails and its clock can be   *)
(* had - by way of every detector that is asked before its own. (Not one      *)
(* with ids of two bytes read at once over the universal layer, which swaps   *)
(* them.)                                                                     *)
FirstDevice == IF layer.device = Asked THEN env.first ELSE layer.device
Placed ==
    /\ env.control = "i2c" /\ env.sensor.width > 0
    /\ layer.device = AnyBus \/ (env.at = FirstDevice /\ env.at \in env.buses)
    /\ layer.clock # "ot" => \A c \in Watched : ~env.clock[c].reset
Listed(v) == v \in DOMAIN layer.addrs /\ \E k \in DOMAIN layer.addrs[v] : Sits(layer.addrs[v][k])
Reachable ==
    /\ Placed /\ Listed(env.vendor)
    /\ ~(layer.access = "universal" /\ env.vendor = "ONSEMI")
    /\ ~(layer.access = "universal" /\ env.vendor = "SUPERPIX" /\ env.sensor.page # 0 /\ env.sensor.junk # 0)
Found == env.cmd = "sensors" /\ pc = "done" /\ Reachable /\ ~hurt /\ out # "exit2" => out = "found"

(* Asking costs a sensor little: one with two-byte addresses keeps every      *)
(* register, another loses at most those the first halves of the addresses    *)
(* name, and its page (the detectors of sensors.c, which share addresses).    *)
ProbesHarmless ==
    env.cmd \in {"sensors", "monitor", "chip-name"} =>
        /\ env.sensor.width = 2 => camera.sensor = env.sensor
        /\ \A a \in 0..255 \ {\H03, \H30, \H31, \HFD} : camera.sensor.page = 0 /\ env.sensor.page = 0 =>
              Byte(camera.sensor, a) = Byte(env.sensor, a)

(* When a descriptor is given back, after a search that found something or    *)
(* nothing, or after a command, the kernel speaks and the clocks stand as     *)
(* they did before the program came; and whatever bus is tried afterwards,    *)
(* they are not touched again: on the platforms whose hal_cleanup does both.  *)
Restored ==
    [][pc # "getchipname" =>
        /\ slave # Closed /\ slave' = Closed =>
             /\ "printk" \in layer.cleanup => camera'.printk
             /\ "clock" \in layer.cleanup => camera'.clock = env.clock
        /\ camera.printk => camera'.printk
        /\ camera.clock = env.clock => camera'.clock = env.clock]_vars

(* No descriptor is kept but those getsensorid opens to see whether it can,   *)
(* at most one for a bus, and those of an SPI device that fails to be set up. *)
Tried == IF asked.i = -1 THEN 1 ELSE asked.i + 2
OnlyTestsLeak ==
    pc = "done" /\ ~hurt /\ out # "exit2" => opens <= (IF env.cmd \in {"sensors", "monitor"} THEN Tried ELSE 0)

(* What i2cset or spiset wrote is what the register then holds, and no other  *)
(* register changes: where the layer sends the data and the register's        *)
(* address is as wide as the sensor's.                                        *)
SetSticks ==
    LET before == IF OverSpi THEN env.spi ELSE env.sensor
        after == IF OverSpi THEN camera.spi ELSE camera.sensor
        fits == OverSpi \/ (before.width = (IF env.reg < 256 THEN 1 ELSE 2) /\ layer.access # "universal" /\ Placed /\ Sits(env.addr))
    IN out = "ok" /\ env.cmd \in {"i2cset", "spiset"} /\ ~env.faults /\ fits /\ before.page = 0 =>
        \A a \in DOMAIN before.regs \union DOMAIN after.regs \union {env.reg} :
            Byte(after, a) = IF a = (IF OverSpi THEN SpiRegister(env.reg) ELSE env.reg) /\ a \notin before.fixed
                             THEN env.value ELSE Byte(before, a)

(* i2cdetect tries every address of the bus once: it prints the sensor's and  *)
(* no other; i2cdump reads every register of the range, first and last too.   *)
AllTried ==
    out = "ok" /\ ~hurt =>
        /\ env.cmd = "i2cdetect" /\ Placed /\ env.sensor.other # NoAnswer => {s[1] : s \in seen} = {a \in 0..255 : Sits(a)}
        /\ env.cmd \in {"i2cdump", "spidump"} => {s[1] : s \in seen} = env.reg..env.last

(* Every command but the monitor ends, after all buses at the latest.         *)
(* (A dump to the last number a size_t can hold does not.)                    *)
Ends == env.cmd # "monitor" /\ env.last < WordMax ~> pc = "done"

(* What is reported is the sensor that is there, and it is reported.          *)
RightlyFound == NamedRight /\ Found


(* What the commands do to registers by hand.                                 *)
HandRight == SetSticks /\ AllTried
=============================================================================
