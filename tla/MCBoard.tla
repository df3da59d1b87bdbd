-------------------------------- MODULE MCBoard -------------------------------
(* Three controllers with a multiplexed pin at either end and one without a   *)
(* multiplexer, and the same controllers with pads that name others; every    *)
(* gpio command, the watchdog's options in a few orders, and boards to erase. *)
EXTENDS Board, TLC

Base == \H120B0000
MuxA == \H100C0004
MuxB == \H112C0008
MCNoPinmux == 7    \* stands for 0xdeadbeef
MCPage == 4096

(* A driver has claimed a page beside the controllers, another one a pad's.   *)
MCClaimed == {\H120BF000, \H20040000}

(* The levels of no pin, of one pin each and of two.                          *)
Masks == {0, 8, 16, 32, 4, 24}
MCAddresses ==
    {MuxA, MuxB, 537133064, 302514184, 302186504}
    \union {Base + g * 4096 + m : g \in 0..3, m \in Masks}
    \union {Base + g * 4096 + \H400 : g \in 0..3}

PadsHere ==
    <<[addr |-> MuxA, pin |-> <<0, 1>>, place |-> 1, names |-> <<"SDIO", "GPIO0_1", "PWM">>],
      [addr |-> MCNoPinmux, pin |-> <<0, 2>>, place |-> 0, names |-> <<"GPIO0_2">>],
      [addr |-> MuxB, pin |-> <<2, 3>>, place |-> 0, names |-> <<"GPIO2_3", "I2C">>]>>
PadsBehind == <<[PadsHere[1] EXCEPT !.pin = <<3, 0>>], PadsHere[2]>>
PadsBeyond == <<PadsHere[1], [PadsHere[3] EXCEPT !.pin = <<4, 0>>]>>
Chip(padsOf) == [base |-> Base, step |-> 4096, groups |-> 3, pads |-> padsOf]

NoFunc == [by |-> "none", number |-> 0, name |-> ""]
Plain == [cmd |-> "get", pin |-> <<0, 1>>, value |-> 0, func |-> NoFunc, streamers |-> {}, faults |-> FALSE, chip |-> Chip(PadsHere)]
Anywhere == {<<0, 1>>, <<0, 2>>, <<2, 3>>, <<3, 0>>, <<5, 0>>}

MCGpioCases ==
    {[Plain EXCEPT !.cmd = c, !.pin = p, !.value = v, !.faults = f] :
        c \in {"get"}, p \in Anywhere, v \in {0}, f \in BOOLEAN}
    \union {[Plain EXCEPT !.cmd = c, !.pin = p, !.value = v, !.faults = f] :
        c \in {"set"}, p \in Anywhere, v \in 0..2, f \in BOOLEAN}
    \union {[Plain EXCEPT !.cmd = "mux", !.pin = p, !.func = f] : p \in {<<0, 1>>, <<0, 2>>, <<3, 0>>},
              f \in {NoFunc, [NoFunc EXCEPT !.by = "number", !.number = 18],
                     [NoFunc EXCEPT !.by = "name", !.name = "SDIO"], [NoFunc EXCEPT !.by = "name", !.name = "UART"]}}
    \union {[Plain EXCEPT !.cmd = "scan", !.chip = Chip(p), !.faults = f] : p \in {PadsHere, PadsBehind}, f \in BOOLEAN}
    \union {[Plain EXCEPT !.cmd = "ircut", !.chip = Chip(p), !.streamers = g] :
              p \in {PadsHere, PadsBehind, PadsBeyond}, g \in {{}, {0}}}

Still == [g \in 0..2 |-> Nowhere]
MCBefore ==
    {[pads |-> (MuxA :> \H61 @@ MuxB :> 0), pins |-> Still],
     [pads |-> (MuxA :> \H10061 @@ MuxB :> \H100), pins |-> [Still EXCEPT ![0] = [latch |-> {2}, dir |-> {1, 2}, input |-> {1}]]],
     [pads |-> (MuxA :> 2 @@ MuxB :> 0), pins |-> [Still EXCEPT ![2] = [latch |-> {0}, dir |-> {0, 3}, input |-> {3}]]]}

Opts(s) == [gen |-> "V4", new |-> TRUE, dog |-> Barks(3), opens |-> TRUE, supports |-> TRUE, opts |-> s, faults |-> FALSE]
O(opt, arg) == [opt |-> opt, arg |-> arg]
MCDogCases ==
    {[Opts(s) EXCEPT !.gen = g, !.new = n, !.dog = d, !.faults = f] :
        s \in {<<>>, <<O("timeout", 2)>>, <<O("pingrate", 2), O("timeout", 4)>>, <<O("timeout", 2), O("pingrate", 3)>>,
               <<O("disable", 0), O("enable", 0), O("pingrate", 0)>>, <<O("disable", 0)>>, <<O("gettimeout", 0)>>,
               <<O("pretimeout", 1), O("help", 0)>>, <<O("timeout", 0)>>},
        g \in {"V4", "V2", "V1"}, n \in BOOLEAN, d \in {Barks(3), Sleeps(3)}, f \in BOOLEAN}
    \union {[Opts(<<>>) EXCEPT !.opens = FALSE], [Opts(<<>>) EXCEPT !.supports = FALSE]}

MCXmCases ==
    {[gen |-> g, account |-> a, xminfo |-> x, feeder |-> w, dog |-> IF w = "none" THEN Sleeps(t) ELSE Barks(t), force |-> f,
      modules |-> m, blocks |-> b, lock |-> l # "none", protect |-> l = "on", faults |-> e] :
        g \in {"V2", "V3", "V4", "OT"}, a \in BOOLEAN, x \in BOOLEAN, w \in {"sofia", "other", "none"}, t \in {1, 4},
        f \in BOOLEAN, m \in {{"xm_watchdog"}, {"hi3516ev200_wdt"}, {"hi3516ev200_wdt", "open_wdt"}},
        b \in {<<TRUE, FALSE>>, <<FALSE, FALSE>>}, l \in {"none", "off", "on"}, e \in BOOLEAN}
=============================================================================
