--------------------------------- MODULE Board --------------------------------
(* A camera's board and the programs of ipctool that reach for its hardware:  *)
(* the gpio commands, the watchdog command, and the steps that precede and do *)
(* the erasing of flash. Each command is a process of its own, with a window  *)
(* of /dev/mem of its own, and one runs at a time.                            *)
EXTENDS Gpio, Watchdog, XmBoard

VARIABLE program    \* gpio, watchdog or flash

boardVars == <<program, memVars, gpioVars, dogVars, dog, xmVars>>

(* The programs that do not run stay in a state that means nothing.           *)
Idle(cases) == {CHOOSE c \in cases : TRUE}

BoardInit ==
    /\ program \in {"gpio", "watchdog", "flash"}
    /\ MemInit
    /\ GpioInit(IF program = "gpio" THEN GpioCases ELSE Idle(GpioCases))
    /\ WatchdogInit(IF program = "watchdog" THEN DogCases ELSE Idle(DogCases))
    /\ XmInit(IF program = "flash" THEN XmCases ELSE Idle(XmCases))
    /\ dog = IF program = "flash" THEN xmEnv.dog ELSE dogEnv.dog

RunsGpio == program = "gpio" /\ GpioStep /\ UNCHANGED <<program, dogVars, dog, xmVars>>
RunsWatchdog == program = "watchdog" /\ WatchdogStep /\ UNCHANGED <<program, memVars, gpioVars, xmVars>>
RunsFlash == program = "flash" /\ XmStep /\ UNCHANGED <<program, gpioVars, dogVars>>

OthersMove == program = "gpio" /\ Others /\ UNCHANGED <<program, dogVars, dog, xmVars>>
SignalCame == program = "watchdog" /\ Signal /\ UNCHANGED <<program, memVars, gpioVars, xmVars>>
TimePasses ==
    \/ program = "watchdog" /\ Tick /\ UNCHANGED <<program, memVars, gpioVars, xmVars>>
    \/ program = "flash" /\ XmTick /\ UNCHANGED <<program, gpioVars, dogVars>>

BoardOver ==
    /\ CASE program = "gpio" -> gpc = "done" [] program = "flash" -> xpc = "done"
         [] OTHER -> wpc = "done" /\ (~dog.on \/ dog.fired)
    /\ UNCHANGED boardVars

BoardNext == RunsGpio \/ RunsWatchdog \/ RunsFlash \/ OthersMove \/ SignalCame \/ TimePasses \/ BoardOver

(* A scan never ends and sleeps between its rounds: it always goes on.        *)
BoardSpec == BoardInit /\ [][BoardNext]_boardVars /\ WF_boardVars(RunsGpio)
-----------------------------------------------------------------------------
BoardTypeOK ==
    /\ memFd \in {Unopened, Failed, Opened} /\ ret \in BOOLEAN /\ windows \in Nat
    /\ program = "gpio" => /\ DOMAIN pins = Groups /\ DOMAIN enabled = Groups
                           /\ \A g \in Groups : enabled[g] \subseteq Bits /\ state[g] \subseteq enabled[g]
                           /\ gout \in {"runs", "ok", "fail", "abort", "crash"}
    /\ dog.left \in 0..dog.timeout /\ stopRet \in {"none", "ok", "failed"}
    /\ wout \in {"runs", "ok", "fail", "term", "killed"}
    /\ xout \in {"runs", "ok", "abort", "noerase", "reset", "torn"}

Asked == gpioEnv.pin
PadsOfNone(pin) == \A k \in DOMAIN chip.pads : chip.pads[k].pin # pin

(* "gpio set" has worked (gpio_manipulate): the pin is a GPIO, an output and  *)
(* at the level asked for, if nobody else has touched it in the meantime -    *)
(* multiplexing, direction and level are three registers, written one after   *)
(* the other from what was read before.                                       *)
SetDrives ==
    (program = "gpio" /\ gpioEnv.cmd = "set" /\ gout = "ok" /\ Asked[1] \in Groups /\ Asked \notin moved) =>
        /\ Asked[2] \in pins[Asked[1]].dir
        /\ LevelOf(Asked) = (gpioEnv.value = 1)
        /\ gpioEnv.faults \/ PadsOfNone(Asked) \/ ThePad.addr = NoPinmux \/ pads[ThePad.addr] % 16 = ThePad.place

(* Pins share their registers. A command leaves the level of every pin but    *)
(* the one it was given, and its direction too, save one that its own program *)
(* has changed between the reading of the direction register and the writing  *)
(* of it back: that change is undone, and nothing older is. It changes no pad *)
(* but the pin's. There it keeps what stands between the function and bit 16, *)
(* as long as the number asked for is a function's, and clears all above      *)
(* (gpio_mux_by).                                                             *)
OthersKept ==
    [][RunsGpio =>
        /\ \A g \in Groups : \A b \in Bits : <<g, b>> # Asked =>
             /\ (b \in pins'[g].latch) = (b \in pins[g].latch)
             /\ (b \in pins'[g].dir) # (b \in pins[g].dir) => <<g, b>> \in since
        /\ \A a \in DOMAIN pads : pads'[a] # pads[a] =>
             /\ PadOf(Asked) # {} /\ a = ThePad.addr
             /\ NewFunc < 16 => pads'[a] \div 16 = (pads[a] % 65536) \div 16
        /\ pins' # pins => gpioEnv.cmd = "set"]_boardVars

(* What "gpio scan" remembers is what its lines have told: each change of a   *)
(* pin is reported once, in turn, even when the pin changes again between the *)
(* reading of the levels and the lines about them (gpio_scan_cmd).            *)
ScanTellsAll ==
    (program = "gpio" /\ gpioEnv.cmd = "scan" /\ gpc = "scan" /\ ~gpioEnv.faults) => known = state

(* And a change that lasts is reported in the end, whichever group it is in.  *)
ScanNotices ==
    (program = "gpio" /\ gpioEnv.cmd = "scan" /\ ~gpioEnv.faults) =>
        <>(gpc = "done" \/ [](\A g \in Groups : known[g] = Level(g) \intersect enabled[g]))

(* The pins proposed for an infrared filter (gpio_possible_ircut) are outputs *)
(* multiplexed as GPIOs in the hardware as it stands: low ones where no       *)
(* streamer has mapped a controller, and otherwise the streamer's.            *)
IrcutDriven ==
    (program = "gpio" /\ gpioEnv.cmd = "ircut" /\ gout = "ok" /\ moved = {}) =>
        \A pin \in told[1] :
            /\ pin[2] \in pins[pin[1]].dir
            /\ \E k \in PadOf(pin) : chip.pads[k].addr = NoPinmux \/ pads[chip.pads[k].addr] % 16 = chip.pads[k].place
            /\ IF gpioEnv.streamers = {} THEN ~LevelOf(pin) ELSE pin[1] \in gpioEnv.streamers

(* The gpio commands: what they drive, tell and propose is so; and types.     *)
PinsRight == BoardTypeOK /\ SetDrives /\ ScanTellsAll /\ IrcutDriven
===============================================================================
