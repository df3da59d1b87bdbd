-------------------------------- MODULE XmBoard -------------------------------
(* What precedes the writing of flash on a Xiongmai board and what erases it: *)
(* free_resources of backup.c, which ends the vendor's Sofia and disarms its  *)
(* watchdog (xm_kill_stuff), and mtd_erase_block of mtd.c with the locked     *)
(* flash of boards/xm.c. The time passes whatever the program does.           *)
EXTENDS MemReg, Watchdog

CONSTANTS
    XmCases,    \* [gen, account, xminfo, feeder, dog, force, modules, blocks, lock, protect, faults]: who feeds
                \* the watchdog, which driver modules are loaded, which blocks the plain call erases,
                \* whether the flash has a lock, and is protected by it
    SofiaWait,  \* the five seconds given to Sofia, in units of time
    DownCount   \* the two minutes

VARIABLES
    xmEnv,      \* the case at hand
    xpc,
    detected,   \* is_xm_board has found the board once
    mounted,    \* /mnt/mtd is mounted
    feeder,     \* who feeds the watchdog by now: "sofia", "other", "none"
    secs,       \* the time left to sleep
    modRet,     \* what delete_module said: whether any call failed
    block,      \* the block that is erased next
    driver,     \* the locked flash: [password, session, protected], the password set, whether it has been given
    xout        \* how it ended: runs, ok, abort, noerase; reset before anything was written, torn after

xmVars == <<xmEnv, xpc, detected, mounted, feeder, secs, modRet, block, driver, xout>>

XmInit(cases) ==
    /\ xmEnv \in cases
    /\ xpc = "free" /\ detected = FALSE /\ mounted = TRUE
    /\ feeder = xmEnv.feeder
    /\ secs = 0 /\ modRet = "ok" /\ block = 1
    /\ driver = [password |-> 0, session |-> FALSE, protected |-> xmEnv.protect]
    /\ xout = "runs"

FinishXm(how) == xpc' = "done" /\ xout' = how
XmMayFail == IF xmEnv.faults THEN {TRUE, FALSE} ELSE {FALSE}

(* The account file lies in a file system that is unmounted later: the answer *)
(* is kept for the calls that come after.                                     *)
IsXmBoard == detected \/ xmEnv.xminfo \/ (xmEnv.account /\ mounted)

FreeResources ==
    /\ xpc = "free"
    /\ detected' = IsXmBoard
    /\ xpc' = IF IsXmBoard THEN "kill" ELSE "umount"
    /\ UNCHANGED <<memVars, dog, xmEnv, mounted, feeder, secs, modRet, block, driver, xout>>

(* Without Sofia it goes on only when forced, and with the watchdog as it is. *)
KillSofia ==
    /\ xpc = "kill"
    /\ IF feeder = "sofia" THEN xpc' = "sleep" /\ secs' = SofiaWait /\ UNCHANGED xout
       ELSE /\ UNCHANGED secs
            /\ IF xmEnv.force THEN xpc' = "umount" /\ UNCHANGED xout ELSE FinishXm("abort")
    /\ UNCHANGED <<memVars, dog, xmEnv, detected, mounted, feeder, modRet, block, driver>>

(* xm_disable_watchdog: the modules of the generation, or nothing known.      *)
Modules == CASE xmEnv.gen = "V3" -> {"xm_watchdog"}
             [] xmEnv.gen = "V4" -> {"hi3516ev200_wdt", "open_wdt"}
             [] OTHER -> {}

DeleteModules ==
    /\ xpc = "sleep" /\ secs = 0
    /\ IF xmEnv.gen \notin {"V1", "V2", "V3", "V4"} THEN FinishXm("abort") /\ UNCHANGED <<dog, modRet>>
       ELSE /\ \E busy \in XmMayFail :
                 modRet' = IF Modules \subseteq xmEnv.modules /\ (busy => Modules = {}) THEN "ok" ELSE "failed"
            /\ dog' \in IF Modules \intersect xmEnv.modules = {} THEN {dog} ELSE {dog, Stopped(dog)}
            /\ xpc' = "control" /\ UNCHANGED xout
    /\ UNCHANGED <<memVars, xmEnv, detected, mounted, feeder, secs, block, driver>>

Control == CASE xmEnv.gen \in {"V1", "V2"} -> 537133064
             [] xmEnv.gen = "V3" -> 302514184
             [] OTHER -> 302186504

(* Mutant of Countdown: one unit less.                                        *)
CountdownShort == DownCount - 1

Countdown == DownCount

(* The write of the control register, whose failure nobody looks at, also     *)
(* where a driver has claimed its page and it cannot be mapped; then the      *)
(* modules' fate, and the wait for the watchdog that may still be armed.      *)
ClearControl ==
    /\ xpc = "control"
    /\ Call(Control) /\ (ret' \/ xmEnv.faults \/ (~InCache(Control) /\ Mappable(Opened, Control) = {}))
    /\ dog' = IF ret' THEN Stopped(dog) ELSE dog
    /\ IF modRet = "failed" THEN FinishXm("abort") /\ UNCHANGED secs
       ELSE xpc' = "wait" /\ secs' = Countdown /\ UNCHANGED xout
    /\ UNCHANGED <<xmEnv, detected, mounted, feeder, modRet, block, driver>>

Waited ==
    /\ xpc = "wait" /\ secs = 0
    /\ xpc' = "umount"
    /\ UNCHANGED <<memVars, dog, xmEnv, detected, mounted, feeder, secs, modRet, block, driver, xout>>

UmountAll ==
    /\ xpc = "umount"
    /\ mounted' = FALSE /\ xpc' = "erase"
    /\ UNCHANGED <<memVars, dog, xmEnv, detected, feeder, secs, modRet, block, driver, xout>>

(* mtd_erase_block: the plain call, and the vendor's way where it fails and   *)
(* the board is known.                                                        *)
PlainErase ==
    /\ xpc = "erase" /\ block <= Len(xmEnv.blocks)
    /\ IF xmEnv.blocks[block] THEN block' = block + 1 /\ UNCHANGED <<xpc, xout, detected>>
       ELSE /\ detected' = IsXmBoard /\ UNCHANGED block
            /\ IF IsXmBoard THEN xpc' = "init" /\ UNCHANGED xout ELSE FinishXm("noerase")
    /\ UNCHANGED <<memVars, dog, xmEnv, mounted, feeder, secs, modRet, driver>>

Erased ==
    /\ xpc = "erase" /\ block > Len(xmEnv.blocks)
    /\ FinishXm("ok")
    /\ UNCHANGED <<memVars, dog, xmEnv, detected, mounted, feeder, secs, modRet, block, driver>>

(* What the locked flash makes of a password: the session is open while the   *)
(* last one given is the one set.                                             *)
Given(d, p) == [d EXCEPT !.session = (p = d.password)]

(* A password drawn from the time, never nothing.                             *)
Password == 1

(* The protection can be taken off within a session.                          *)
Unprotected(d) == [d EXCEPT !.protected = d.protected /\ ~d.session]

(* The flag of a flash that is not protected any more is positive; one that   *)
(* cannot be had is -1.                                                       *)
Flags(d) == {IF d.protected THEN 0 ELSE 1} \union (IF xmEnv.faults THEN {-1} ELSE {})

(* What the branch on the flag makes of a flash whose password is set: nothing *)
(* where it is positive. Nobody looks at what its calls answer.               *)
Opening(d, flag) ==
    IF flag > 0 THEN {d}
    ELSE {Given(Unprotected(Given(d, Password)), 0)} \union (IF xmEnv.faults THEN {Given(d, 0)} ELSE {})

(* xm_flash_init: where the flash has a lock, and says so, a password of its  *)
(* own is set, the protection is taken off, the user's lock too, and the      *)
(* session is closed.                                                         *)
FlashInit ==
    /\ xpc = "init"
    /\ \E silent, refused \in XmMayFail :
         IF ~xmEnv.lock \/ silent THEN xpc' = "unlock" /\ UNCHANGED <<driver, xout>>
         ELSE IF refused THEN FinishXm("noerase") /\ UNCHANGED driver
         ELSE /\ \E flag \in Flags(driver) : \E d \in Opening([driver EXCEPT !.password = Password], flag) :
                   driver' = Given(Given(d, Password), 0)
              /\ xpc' = "unlock" /\ UNCHANGED xout
    /\ UNCHANGED <<memVars, dog, xmEnv, detected, mounted, feeder, secs, modRet, block>>

(* xm_spiflash_unlock_and_erase: the password once more, the unlocking, whose *)
(* failure does not matter, and the erasing.                                  *)
UnlockAndErase ==
    /\ xpc = "unlock"
    /\ driver' = Given(driver, Password)
    /\ \E fails \in XmMayFail :
         IF fails \/ (xmEnv.lock /\ (~driver'.session \/ driver'.protected)) THEN FinishXm("noerase") /\ UNCHANGED block
         ELSE block' = block + 1 /\ xpc' = "erase" /\ UNCHANGED xout
    /\ UNCHANGED <<memVars, dog, xmEnv, detected, mounted, feeder, secs, modRet>>

XmStep ==
    \/ FreeResources \/ KillSofia \/ DeleteModules \/ ClearControl \/ Waited
    \/ UmountAll \/ PlainErase \/ Erased \/ FlashInit \/ UnlockAndErase

(* The time: whoever feeds the watchdog does so within every unit; Sofia ends *)
(* at some moment of the time it is given.                                    *)
Writing == xpc \in {"umount", "erase", "init", "unlock"}

XmTick ==
    /\ xpc # "done"
    /\ xpc \in {"sleep", "wait"} => secs > 0
    /\ secs' = IF xpc \in {"sleep", "wait"} THEN secs - 1 ELSE secs
    /\ feeder' \in IF xpc = "sleep" THEN {"none"} \union (IF secs > 1 THEN {feeder} ELSE {}) ELSE {feeder}
    /\ dog' \in {IF feeder # "none" THEN Fed(dog) ELSE Passed(dog)}
    /\ IF dog'.fired THEN FinishXm(IF Writing THEN "torn" ELSE "reset") ELSE UNCHANGED <<xpc, xout>>
    /\ UNCHANGED <<memVars, xmEnv, detected, mounted, modRet, block, driver>>
-----------------------------------------------------------------------------
(* A watchdog that nobody feeds is off, and every watchdog runs down within   *)
(* the two minutes.                                                           *)
ASSUME XmAssumption ==
    /\ SofiaWait \in Nat \ {0} /\ DownCount \in Nat
    /\ \A c \in XmCases :
         /\ c.dog \in DogType /\ ~c.dog.fired
         /\ 0 < c.dog.left /\ c.dog.left <= c.dog.timeout /\ c.dog.timeout <= DownCount
         /\ c.protect \in BOOLEAN /\ c.lock \in BOOLEAN
         /\ c.feeder \in {"sofia", "other", "none"} /\ (c.feeder = "none" => ~c.dog.on)

XmAlone == MemInit /\ XmInit(XmCases) /\ dog = xmEnv.dog
XmSpec == XmAlone /\ [][XmStep \/ XmTick]_<<memVars, dog, xmVars>>

(* The machine is not reset by Sofia's watchdog while flash is being erased:  *)
(* the wait outlasts the watchdog when disarming it has failed without a word *)
(* (xm_kill_stuff).                                                           *)
NoResetWhileErasing == xout # "torn"

(* On a Xiongmai board whose flash the plain call does not erase, the         *)
(* vendor's way is found and works even though /mnt/mtd, which told the board,*)
(* has been unmounted ("crucial to keep detection status in memory for deal   *)
(* with XM flash ops", xm.c).                                                 *)
XmErases == xout = "noerase" => xmEnv.faults \/ ~(xmEnv.account \/ xmEnv.xminfo)

(* A Xiongmai board: the flash is erased, by one way or the other, and not    *)
(* interrupted by Sofia's watchdog.                                           *)
ErasesSafely == NoResetWhileErasing /\ XmErases
=============================================================================
