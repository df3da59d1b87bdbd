-------------------------------- MODULE MemReg --------------------------------
(* mem_reg of tools.c: every register of the camera is reached through one    *)
(* window of /dev/mem, which is kept from call to call and moved when an      *)
(* address lies outside it. One action per call. What the register does with  *)
(* a read or a write is the caller's business: this module says whether the   *)
(* call reaches a register, and which.                                        *)
EXTENDS Integers

CONSTANTS
    Addresses,  \* the register addresses callers use
    NoPinmux,   \* the address that stands for no register at all: 0xdeadbeef
    Page,       \* the size of a page
    Claimed     \* the pages, by their first address, that a driver has claimed

ASSUME AddressAssumption == \A a \in Addresses : a \in Nat /\ a > 0 /\ a % 4 = 0
ASSUME NoPinmuxAssumption == NoPinmux \in Nat /\ NoPinmux % 4 = 3
ASSUME PageAssumption == Page \in {4096, 16384, 65536}
ASSUME ClaimedAssumption == \A c \in Claimed : c \in Nat /\ c % Page = 0

VARIABLES
    memFd,      \* the descriptor of /dev/mem: Unopened, Failed or Opened
    area,       \* loaded_area, loaded_offset and loaded_size; NoArea when nothing is mapped
    windows,    \* how many windows the process has mapped
    ret,        \* what the last call returned
    at          \* the register the last call touched

memVars == <<memFd, area, windows, ret, at>>

Unopened == 0
Failed == -1
Opened == 3
NoArea == [offset |-> 0, size |-> 0]
Nothing == -1    \* the last call touched no register
Outside == -2    \* the last call touched what is not mapped

MemInit == memFd = Unopened /\ area = NoArea /\ windows = 0 /\ ret = TRUE /\ at = Nothing

Loaded == area # NoArea

(* Mutant of InCache: the lower bound is forgotten, the difference is signed. *)
InCacheBelow(addr) == Loaded /\ addr - area.offset < area.size

InCache(addr) == Loaded /\ addr >= area.offset /\ addr - area.offset < area.size

(* The window of 64K, one byte short, and the page that is tried when the     *)
(* kernel forbids the window.                                                 *)
Window(addr) == [offset |-> addr - (addr % 65536), size |-> 65535]
OnePage(addr) == [offset |-> addr - (addr % Page), size |-> Page]

(* mmap maps whole pages.                                                     *)
Pages(w) == IF w.size = 65535 THEN 65536 ELSE w.size
Allowed(w) == \A c \in Claimed : c + Page <= w.offset \/ w.offset + Pages(w) <= c

(* The register that lies addr - loaded_offset behind mapped_area.            *)
Reached(w, addr) == IF w.offset <= addr /\ addr + 4 <= w.offset + Pages(w) THEN addr ELSE Outside

(* What the call maps when nothing is: the window, or the page if the window  *)
(* is forbidden. Either may fail for another reason, and with no descriptor.  *)
Mappable(fd, addr) ==
    {w \in {Window(addr)} : fd = Opened /\ Allowed(w)}
    \union {w \in {OnePage(addr)} : fd = Opened /\ ~Allowed(Window(addr)) /\ Allowed(w)}

(* One call with the address of a register. A descriptor that could not be    *)
(* had is not asked for again.                                                *)
Call(addr) ==
    /\ memFd' \in IF memFd = Unopened THEN {Opened, Failed} ELSE {memFd}
    /\ IF InCache(addr)
       THEN UNCHANGED <<area, windows>> /\ ret' = TRUE /\ at' = Reached(area, addr)
       ELSE \/ \E w \in Mappable(memFd', addr) :
                 /\ area' = w
                 /\ windows' = IF Loaded THEN windows ELSE windows + 1
                 /\ ret' = TRUE /\ at' = Reached(w, addr)
            \/ /\ area' = NoArea
               /\ windows' = IF Loaded THEN windows - 1 ELSE windows
               /\ ret' = FALSE /\ at' = Nothing

(* The call for a pad that has no multiplexer.                                *)
CallNoPinmux == ret' = TRUE /\ at' = Nothing /\ UNCHANGED <<memFd, area, windows>>

(* The call with no address gives everything back.                            *)
CallCleanUp ==
    /\ area' = NoArea /\ memFd' = Unopened
    /\ windows' = IF Loaded THEN windows - 1 ELSE windows
    /\ ret' = TRUE /\ at' = Nothing

MemNext == CallNoPinmux \/ CallCleanUp \/ \E addr \in Addresses : Call(addr)
MemSpec == MemInit /\ [][MemNext]_memVars
-----------------------------------------------------------------------------
MemTypeOK ==
    /\ memFd \in {Unopened, Failed, Opened}
    /\ area = NoArea \/ \E a \in Nat : area \in {Window(a), OnePage(a)}
    /\ windows \in Nat /\ ret \in BOOLEAN

(* A call that says it worked has touched the register it was asked for: never *)
(* one beside the window, whichever window an earlier call has left.          *)
NeverOutside == at # Outside

(* The process keeps one window at most, and none over a page that belongs to  *)
(* a driver, which it could block or disturb.                                 *)
OneWindow == windows = (IF Loaded THEN 1 ELSE 0) /\ (Loaded => Allowed(area))

(* mem_reg at every moment: what it touched and what it has mapped.           *)
WindowSound == NeverOutside /\ OneWindow
=============================================================================
