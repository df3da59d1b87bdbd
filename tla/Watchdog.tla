------------------------------- MODULE Watchdog -------------------------------
(* The hardware watchdog, its driver and the watchdog command.                *)
(*                                                                            *)
(* The watchdog is a counter that runs down with the time and resets the      *)
(* machine. It belongs to the kernel and is modelled as its documentation has *)
(* it: opening starts it, only a stop, or a close announced by a V, stops it. *)
EXTENDS Naturals, Sequences

VARIABLE dog    \* [on, left, timeout, expect, fired]: expect says that a V has been written

Barks(timeout) == [on |-> TRUE, left |-> timeout, timeout |-> timeout, expect |-> FALSE, fired |-> FALSE]
Sleeps(timeout) == [Barks(timeout) EXCEPT !.on = FALSE]

Started(d) == [d EXCEPT !.on = TRUE, !.left = d.timeout, !.expect = FALSE]
Stopped(d) == [d EXCEPT !.on = FALSE]
Fed(d) == [d EXCEPT !.left = d.timeout]
Timed(d, t) == [d EXCEPT !.timeout = t, !.left = t]
Announced(d) == [d EXCEPT !.expect = TRUE]
Closed(d) == IF d.expect THEN Stopped(d) ELSE d

(* A unit of time.                                                            *)
Passed(d) ==
    IF ~d.on THEN d
    ELSE IF d.left > 1 THEN [d EXCEPT !.left = @ - 1]
    ELSE [d EXCEPT !.left = 0, !.fired = TRUE]

-----------------------------------------------------------------------------
(* The command: the options from left to right, the endless feeding and the   *)
(* two ways out, with a signal at any moment. Time passes only while the      *)
(* program sleeps and when it is gone: its own steps take none.               *)

CONSTANTS
    DogCases,       \* [gen, new, dog, opens, supports, opts, faults]: new says that the driver speaks the
                    \* vendor's dialect, opts is a sequence of [opt, arg]
    DefaultPing     \* DEFAULT_PING_RATE

VARIABLES
    dogEnv,     \* the case at hand
    wpc, 
    optind,     \* the option that comes next
    pingRate,
    oneshot,
    slept,      \* how long the program has slept
    stopRet,    \* what watchdog_stop returned: "none" before, "ok" or "failed"
    wout        \* how the command ended: runs, ok, fail, term, killed

dogVars == <<dogEnv, wpc, optind, pingRate, oneshot, slept, stopRet, wout>>

WatchdogInit(cases) ==
    /\ dogEnv \in cases
    /\ wpc = "open"
    /\ optind = 1 /\ pingRate = DefaultPing /\ oneshot = FALSE
    /\ slept = 0 /\ stopRet = "none" /\ wout = "runs"

NewHisiCtl == dogEnv.gen \in {"V3", "V4A", "V4"}
StopsByOption == dogEnv.gen \in {"V2", "V2A", "V3", "V3A", "V4", "V4A"}

(* A call in the dialect the driver does not speak is not known to it; any    *)
(* call may fail where calls do.                                              *)
Understood(inNew) == inNew = dogEnv.new
Fails == IF dogEnv.faults THEN {TRUE, FALSE} ELSE {FALSE}

Open ==
    /\ wpc = "open"
    /\ IF ~dogEnv.opens THEN wpc' = "done" /\ wout' = "fail" /\ UNCHANGED dog
       ELSE /\ dog' = IF dogEnv.supports THEN Started(dog) ELSE dog
            /\ wpc' = IF dogEnv.supports THEN "options" ELSE "done"
            /\ wout' = IF dogEnv.supports THEN wout ELSE "fail"
    /\ UNCHANGED <<dogEnv, optind, pingRate, oneshot, slept, stopRet>>

Queries == {"bootstatus", "gettimeout", "getpretimeout", "gettimeleft", "info"}

(* What the driver makes of the call an option stands for.                    *)
OptionDone(o, failed) ==
    CASE failed -> dog
      [] o.opt = "disable" -> Stopped(dog)
      [] o.opt = "enable" -> Started(dog)
      [] o.opt = "timeout" -> Timed(dog, o.arg)
      [] OTHER -> dog

OptionUnderstood(o) ==
    /\ o.opt \in {"disable", "enable"} => Understood(NewHisiCtl)
    /\ o.opt = "timeout" => o.arg > 0

Option ==
    /\ wpc = "options" /\ optind <= Len(dogEnv.opts)
    /\ LET o == dogEnv.opts[optind] IN
       \E fails \in Fails : LET failed == fails \/ ~OptionUnderstood(o) IN
         /\ optind' = optind + 1
         /\ dog' = OptionDone(o, failed)
         /\ oneshot' = (oneshot \/ o.opt \in Queries \/ (failed /\ o.opt \in {"disable", "enable", "timeout", "pretimeout"}))
         /\ pingRate' = CASE o.opt = "pingrate" /\ o.arg # 0 -> o.arg
                          [] o.opt = "pingrate" -> DefaultPing
                          [] OTHER -> pingRate
         /\ wpc' = IF o.opt = "help" THEN "end" ELSE wpc
    /\ UNCHANGED <<dogEnv, slept, stopRet, wout>>

(* Until the handler is in place a signal kills the program.                  *)
Options ==
    /\ wpc = "options" /\ optind > Len(dogEnv.opts)
    /\ wpc' = IF oneshot THEN "end" ELSE "signal"
    /\ UNCHANGED <<dog, dogEnv, optind, pingRate, oneshot, slept, stopRet, wout>>

Handle ==
    /\ wpc = "signal" /\ wpc' = "feed"
    /\ UNCHANGED <<dog, dogEnv, optind, pingRate, oneshot, slept, stopRet, wout>>

KeepAlive(d) == IF Understood(NewHisiCtl) THEN Fed(d) ELSE d

Feed ==
    /\ wpc = "feed"
    /\ \E fails \in Fails : dog' = IF fails THEN dog ELSE KeepAlive(dog)
    /\ wpc' = "sleep" /\ slept' = 0
    /\ UNCHANGED <<dogEnv, optind, pingRate, oneshot, stopRet, wout>>

Wake ==
    /\ wpc = "sleep" /\ slept = pingRate
    /\ wpc' = "feed"
    /\ UNCHANGED <<dog, dogEnv, optind, pingRate, oneshot, slept, stopRet, wout>>

(* Mutant of WatchdogStop: the option alone, for every generation.            *)
WatchdogStopOption(failed) ==
    /\ dog' = IF failed THEN Closed(dog) ELSE IF Understood(NewHisiCtl) /\ StopsByOption THEN Stopped(dog) ELSE dog
    /\ stopRet' = IF failed THEN "failed" ELSE "ok"

(* watchdog_stop and the close behind it.                                     *)
WatchdogStop(failed) ==
    LET refused == failed \/ (StopsByOption /\ ~Understood(NewHisiCtl)) IN
    /\ dog' = IF refused THEN Closed(dog) ELSE IF StopsByOption THEN Closed(Stopped(dog)) ELSE Closed(Announced(dog))
    /\ stopRet' = IF refused THEN "failed" ELSE "ok"

End ==
    /\ wpc = "end"
    /\ \E fails \in Fails : WatchdogStop(fails)
    /\ wpc' = "done" /\ wout' = "ok"
    /\ UNCHANGED <<dogEnv, optind, pingRate, oneshot, slept>>

(* The signal, before and after the handler is there.                         *)
Term ==
    /\ wpc \in {"feed", "sleep"}
    /\ \E fails \in Fails : WatchdogStop(fails)
    /\ wpc' = "done" /\ wout' = "term"
    /\ UNCHANGED <<dogEnv, optind, pingRate, oneshot, slept>>

Killed ==
    /\ wpc \in {"options", "signal", "end"}
    /\ dog' = Closed(dog)
    /\ wpc' = "done" /\ wout' = "killed"
    /\ UNCHANGED <<dogEnv, optind, pingRate, oneshot, slept, stopRet>>

WatchdogStep == Open \/ Option \/ Options \/ Handle \/ Feed \/ Wake \/ End
Signal == Term \/ Killed

(* The time that passes. A reset ends the program with everything else.       *)
Tick ==
    /\ \/ wpc = "sleep" /\ slept < pingRate /\ slept' = slept + 1
       \/ wpc = "done" /\ dog.on /\ UNCHANGED slept
    /\ ~dog.fired
    /\ dog' = Passed(dog)
    /\ wpc' = IF dog'.fired THEN "done" ELSE wpc
    /\ UNCHANGED <<dogEnv, optind, pingRate, oneshot, stopRet, wout>>
-----------------------------------------------------------------------------
(* The command on a watchdog as it is found. Numbers it is given are not      *)
(* negative.                                                                  *)
DogType == [on : BOOLEAN, left : Nat, timeout : Nat, expect : BOOLEAN, fired : BOOLEAN]
DogOption == [opt : STRING, arg : Nat]

ASSUME DogAssumption ==
    /\ DefaultPing \in Nat
    /\ \A c \in DogCases :
         /\ c.dog \in DogType /\ ~c.dog.fired
         /\ c.opts \in Seq(DogOption)

DogInit == WatchdogInit(DogCases) /\ dog = dogEnv.dog
DogNext == WatchdogStep \/ Signal \/ Tick
DogSpec == DogInit /\ [][DogNext]_<<dog, dogVars>>

(* "Watchdog Ticking Away!" The machine is not reset under a program that     *)
(* feeds the watchdog more often than it runs down, whichever options came    *)
(* before and in which order, with a driver of the chip's kind.               *)
FedInTime ==
    (wpc # "open" /\ dog.fired /\ wout = "runs" /\ ~dogEnv.faults /\ Understood(NewHisiCtl)) =>
        pingRate >= dog.timeout

(* A program that ends by itself or by a signal it handles, and does not say  *)
(* that stopping failed, leaves a watchdog that resets nothing.               *)
OffAtEnd == (wpc = "done" /\ stopRet = "ok" /\ wout \in {"ok", "term"}) => ~dog.on

(* The watchdog command: it feeds in time and leaves nothing to reset.        *)
DogMinded == FedInTime /\ OffAtEnd
=============================================================================
