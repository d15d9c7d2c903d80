# WAP610N: models, checks and proofs

TLA+ models of the firmware's own code: the Ethernet driver's descriptor rings,
the push buttons and LEDs, the bridge loop daemon, the WPS status monitor with
the web server's handlers, the DHCP client and the boot environment tools. Each
is model-checked with TLC on small instances, and every safety invariant the runs
check is proved with TLAPS for every instance. `PROJECT.json` lists the runs, the
source lines each definition models, the hazards, the findings and the theorems.

    tlc -workers 2 -config GswTx_ring.cfg MCGswTx     # one run
    tlapm GswTx_proofs.tla                            # the proofs of one module

## The system and its parts

The repository holds the firmware of a wireless bridge built on a STR9100
system-on-chip: a patched Linux 2.6.16, a boot loader, vendored packages
(busybox, openssl, wpa_supplicant, the GoAhead web server) and the vendor's own
programs. The vendor's logic with state, concurrency or failure handling is in
the following parts.

| part | state | operations | interacts with |
|---|---|---|---|
| Ethernet driver, transmit (`star_gsw.c`) | descriptor ring with ownership bits, `skb_ptr[]`, `cur_index` | `star_gsw_send_packet` | TS DMA engine, network stack |
| Ethernet driver, receive (`star_gsw.c`) | descriptor ring, `is_qf`, NAPI scheduling bit, interrupt masks | two interrupt handlers, `star_gsw_poll`, open, close | FS DMA engine, softirq, stack |
| push buttons (`gpioDevice.c`) | `pbc_flag[]`, `pbc_timer[]`, armed interrupts | interrupt, sampling timer, expiry timer, `gpio_read`, unload | GPIO library, reader scripts |
| LEDs (`gpioDevice.c`, `str9100_gpio.c`) | output register, `pulse_timers[]`, `ledPatternsUsed[]`, `pulse_pattern`, system LED timer | `gpio_write`, `led_pulse`, `blinking_system_led`, unload | scripts writing `/dev/gpioN` |
| GPIO library (`str9100_gpio.c`) | registers, `gpio_isr[]` | interrupt handler, arm, disarm, single-bit output | both drivers above |
| bridge loop daemon (`detected_BrLoop`) | `TPState`, `cur_dis_port`, two counters | one round of `main`'s loop | bridge flag files, switch proc files, radio status |
| RTL8306 driver (`star_gsw_phy.c`) | switch registers | proc files | daemon |
| WPS status monitor (`hnap_wps_status_monitor`) and HNAP handlers (`hnap_config_metalink.c`) | status file, pid file, `/var/wpsRunning`, the engine's two files | start, poll, stop, final status | web server, DHCP client, WPS engine |
| DHCP client (`udhcp/dhcpc.c`, `signalpipe.c`, `dhcp.tcl`) | state, socket, lease times, signal pipe, lease file, address of `br0` | one turn of the loop: timeout, packet or signal; the script | DHCP server, scripts that send signals, `/var/wpsRunning` |
| boot environment tools (`set_env_param`, `get_env_param`) | flash sector of `name=value` strings | get, set, delete | boot loader, scripts |
| scripts, small tools, web pages | none of their own | | |

What is hard in each, and the properties that make it correct:

* **Transmit.** Sender and engine share the ring without a lock; an skb is freed
  one round later. Correct means: the engine owns exactly the frames not yet
  sent, in order; it never reads freed memory; nothing is freed twice or leaked;
  queued frames are sent.
* **Receive.** Edge-triggered delayed interrupts, two handlers, a poll that
  disables and enables them, an engine that stops on a full ring, failing
  allocations, close and reopen. Correct means: order and ownership as above, no
  lost wake-up, a stopped engine is restarted, frames are passed on.
* **Buttons.** One timer per button for two purposes; interrupt, timers and
  reader interleave. Correct means: a button never goes dead, a held button is
  reported, a report is read once and expires.
* **LEDs.** All LEDs share a register that is changed by read-modify-write from
  processes and timers. Correct means: the last write decides what a LED does.
* **Loop daemon.** It acts on flags and texts that other programs wrote, through
  commands that may fail. Correct means: its record agrees with the switch, a
  loop is broken, ports are opened again.
* **WPS monitor.** Processes that share five files without a lock; a monitor may be
  told to end at any point, and the engine's files come and go. Correct means: at
  most one monitor, found by its pid file; it ends when told to; when it has
  ended, HNAP clients read IDLE and the DHCP client is free.
* **DHCP client.** Seven states, three signals and lossy packets meet in one loop;
  its times are halved in integers; the script blocks it. Correct means: it
  listens where the answer comes, the lease file tells the truth, no lease
  outlives its time or the server's grant, requests end, it keeps asking.
* **Environment tools.** The sector is rewritten in place in memory by a program
  that matches names otherwise than the one that reads them. Correct means: the
  result is an environment, what was set is read, nothing else changes.

## Modules

| module | models |
|---|---|
| `FrameFifo` | abstract specification of a ring: a bounded first-in first-out channel of numbered frames |
| `GswTx`, `MCGswTx` | transmit path |
| `GswTx_proofs` | theorems about it |
| `GswRx`, `MCGswRx` | receive path |
| `GswRx_proofs` | theorems about it |
| `GpioButton`, `MCGpioButton` | push buttons and the GPIO interrupt handler |
| `GpioButton_proofs` | theorems about it |
| `Leds`, `MCLeds` | LEDs, blink patterns, the kernel's system LED |
| `Leds_proofs` | theorems about it |
| `BrLoop`, `MCBrLoop` | loop daemon, bridge flag, switch ports, cables, radio |
| `BrLoop_proofs` | theorems about it |
| `WpsMonitor`, `MCWpsMonitor` | WPS monitor processes, the server's start and stop requests, the WPS engine, their files |
| `WpsMonitor_proofs` | theorems about it |
| `Udhcpc`, `MCUdhcpc` | DHCP client, its script, server, network and clock |
| `Udhcpc_proofs` | theorems about it |
| `EnvParam`, `MCEnvParam` | `set_env_param`, `get_env_param`, the environment sector |
| `EnvParam_proofs` | theorems about it |

### GswTx

One call of `star_gsw_send_packet` is `SendStop` (stop the engine, take the
lock), then `SendBusy` (return 1) or `SendQueue` (fill the descriptor, hand it
over, start the engine), then `SendFree` after the lock is released. Only one
call runs at a time (`xmit_lock`, `star_gsw_send_lock`). `EngineFetch` and
`EngineDone` are the hardware: a running engine takes the descriptor at its
pointer when it owns it, and finishes what it has begun even if stopped. A frame
is the number of the call that queued it; lengths, padding and port maps are
left out. The build is the board's: port based, without scatter-gather and
without `FREE_TX_SKB_MULTI`.

### GswRx

The engine fills a descriptor in two steps, because the driver expects to see
FSSD move before the COWN bit (`star_gsw.c:2670`), delays FSRC for up to
`PendCnt` frames, and stops with FSQF on a full ring. `ReceiveIsr` and `FsqfIsr`
are the handlers; the poll is split where a handler can change what it relies
on: `PollEnter`, `ReceiveFrame` for each frame, `ReceiveEnd`, then `PollAgain`
and `PollRestart`, or `PollComplete` and `PollEnable`. `CloseIsr`, `ClosePoll`,
`ClosePort`, `OpenStart`, `OpenIsr` are close and open. There is one CPU: an
interrupt that is due is taken before the poll goes on (`CpuFree`), and the poll
finishes before the process does (`ProcessFree`). `ReceiveNoMem` is the return
after a failed allocation. `mishaps` is a history variable: it records a failed
allocation and a ring that was full before the handlers were installed, the two
things after which reception may stall. `Unwatched` admits frames while
the port is open and the handlers are not installed; `AllocMayFail` admits
failing allocations.

### GpioButton

`Press` and `Release` move a pin, at any time, also while kernel code runs;
`IrqEnter`, `IrqStart`, `IrqRearm`, `IrqExit` are the interrupt handler of
`str9100_gpio.c` with `gpio_pbc_start` in it, `TimerFire` starts a timer function,
and the functions' steps follow: `ValidateReleased` and `Rearm`, `ValidateAgain`,
`ValidateLast`, `EndReport`, `EndDelTimer`, `EndAddTimer`, `CancelReport`.
`gpio_read` is split at its test and around its decrement, which compiles to a
load and a store; `gpio_cleanup` at the gap between timer and interrupt.
`pbc_timer[b]` holds what is pending, sampling or expiry, as in the code, where
both use the same `timer_list`. Whether the raw state latches the edge of a pin
that is not armed is not determined by the source and chosen anew at each press.
Four history variables name the exceptions of the properties, each a window of a
few instructions or a sequence of presses:

* `missed`: the press fell between the last look at the pin and `set_edgeintr` and
  was not latched, or the handler's "Clear All Interrupt Status" wiped an edge it
  had not served (it came after the raw state was read, or its pin had no handler);
* `struck`: a press was served while `gpio_pbc_end`, for the press before, was
  between `set_edgeintr` and `add_timer` (lines 263 to 267), and its sampling timer
  was deleted or replaced;
* `taken`: a later press has taken the timer that would have ended a report;
* `late`: a press came between the two halves of a button's clean-up.

Left out: what `init_timer` on a timer that has become pending does to the kernel's
list, and the returns of `gpio_read` with -ERESTARTSYS, -ENOMEM or after a failing
`copy_to_user`, which leave `pbc_flag` as it was.

### Leds

The process's call of `gpio_write` is a sequence of steps between any two of
which a timer function may run: `WriteStart` (parse, look at the timer),
`WriteDel`, `WriteLevel` or `WritePattern` and `WritePulse`, `WriteStore`,
`WriteStop`. The register is read in one step and written in a later one. Timer
functions (`PulseFire`, `BlinkFire`) are atomic, since nothing that touches a LED
interrupts them. `CleanTimer` and `CleanStore` are the LEDs' part of
`gpio_cleanup`. Durations are left out; the only use made of them is that the
first timer of a pattern (100 ms or more) does not fire before the process that
started it has left the kernel. `ledPatterns` is a constant; the runs use
patterns that repeat for ever, as all in the source do, in the two shapes the
table has. Writes that arrive while another process sleeps in `copy_from_user`
with half a value in the shared `Buffer` are left out, and so are written numbers of
2^31 and more, which pass the test at `gpioDevice.c:468` as negative ones.

### BrLoop

One round of `main` is `Aging`, on every second round `CheckPorts` and
`CheckWireless`, then `CheckLoop` and up to four turns of `LoopFound`,
`LoopBlock`, `LoopClear`. Every command the daemon gives is a step of its own
where another actor can interfere. `reEnableDisPort` is modelled by what it does
to the text of the proc file, byte by byte, as `star_switch_get_port_enable`
prints it. `BridgeDetect` sets the loop flag while the looped port forwards;
`LoopCable`, `LinkDown`, `LinkUp`, `RadioChange`, `WpsChange` are the world. The
bridge's sysfs files are not in the tree and are modelled from their use.

The daemon writes with `system()` and reads with `popen()`, and looks at the result
of two reads only. In up to `MaxFailures` steps of a behaviour any of the commands
of the step may fail (`Step(bad)`): a port is not blocked or not opened, the report
is not cleared, `local_topology_change` not reset, a flag or a status is not read
(the last one is used again), and the unchecked `popen` of `linkUtil.c:321` ends the
daemon (`WirelessCrash`). `LeftBlocked` are ports that an earlier daemon may have
left blocked; `InitStatus` is `init_status`, which tries to open them. Three history
variables, each true until the command is given again with success, name the
exceptions of properties: `unblocked`, `uncleared`, `unreset`.

### WpsMonitor

Every start of the monitor is a process `mon[p]` with its place in `main`, its
`retry`, its `wps_status` and `gotSignal`. `WritePid` and `SetRunning` are its
start, `WaitFound` and `WaitMiss` the wait for the engine (60 looks, then it
returns without clean-up: `"gaveup"`), `WatchRead` and `WatchMiss` the watching
loop, `DelayOver`, `ConnectUp`, `ConnectOver` the minutes in which a final status
is shown, `LastSleep` and `LastLook` the search for the reason of a failure,
`EndStatus`, `EndFiles`, `EndPid` the label `End`. `Interrupted` is
`if(gotSignal) goto End` at the head of each loop. The server serves one request
at a time: `StartAbort`, `StartKill`, `StartMonitor`, `StartEngine`, `StartMark`
are `hnap_do_wps_pbc` and `hnap_do_wps_pin`, which differ only in the command
line, `StopAbort` and `StopKill` are `hnap_stop_wps`. `echo` empties the status
file before it writes, so a reader may see 0 while the monitor writes
(`StatusSeen`). `popen` of the pid file may fail in `StartKill` and `StopKill`: no
signal is sent then, and `StartKill` does not sleep. The engine may end with any
status left in its file, as the comment at `hnap_config_metalink.c:2088` has it.

Seconds are not counted. `Prompt` is an assumption about the load of the machine,
not something the sleeps guarantee: steps that take milliseconds are over within a
second. With it a new monitor writes its pid file before the next request reads it
(`Born`), a monitor that hears its signal ends within the server's `sleep(2)`
(`Slept`), and a wait of half a minute or more outlasts the rest of a request
(`LongWait`). `Slept` is about monitors that hear the signal. SIGUSR1 has a handler
and ends a sleep that has begun, but a monitor that has just looked at the flag and
has not yet begun its sleep of 3 seconds (`WatchNap`, line 206) or 5 seconds
(`LastSleep`, line 273) sleeps on, longer than the server. That case, and a signal
never sent because `popen` failed, is recorded in the history variable `unheard`;
two monitors may run then until both have ended. With `Prompt` FALSE `OneMonitor`
does not hold.

Left out: when `cat` of the pid file prints nothing, `buf` still holds the text of
the status and `kill` gets that number for a pid; a failing `popen` in the watching
loop sets `retry` back; one in the status read of `hnap_stop_wps` crashes the server.

### Udhcpc

One turn of the loop is one action. On a timeout: `Discover`, `LeaseFail`,
`Request`, `GiveUp`, `Renew`, `EnterRebinding`, `Rebind`, `LeaseLost`. A packet:
`ReceiveOffer`, `ReceiveAck`, `ReceiveNak`. A signal: `PerformRenewHolding` and
`PerformRenewAnew` (`perform_renew`), `PerformRelease`, `Terminate`. Time is kept
as differences (`left` is `timeout - now`, `age` is `now - start`) and a `Tick`
is a second; what is due is done before time goes on, unless the loop sleeps or
waits for the script (`nap`, at most `ScriptWait`; the script waits up to 15
seconds for the web pages, longer than the shortest lease of the run). A signal
ends `sleep(3)` but not the `waitpid` for the script, which `signal()` has the
kernel restart. A packet carries whether it answers the current xid; one that was read
stays under way, so it may come again, and one that is too late vanishes. The
server (external) offers any address of its pool, grants or refuses, and keeps
what it granted (`given`). `ScriptOk` and `ScriptFail` are `dhcp.tcl` with
automatic choice of the network type off; `EventStatus` is what it writes to the
lease file. The client is run with `-b` only, and
`client_background` forks without changing any of this state.

### EnvParam

Here the characters matter, because two programs disagree about what they mean.
A sector is a sequence of at most `SectorSize` characters; `Turn` is one turn of
`set_env_param`'s loop on the picture in memory (`buf`, `curr_str`, the pointers to
the current name and value), `Overwrite`, `Unset` and `NextEntry` are its branches,
`Pictures` the pictures after each character, `Picture` what the whole program will
write. The loop ends at `MaxParams` entries or when it has passed the end of the
sector (`ByteLimit`: the test is four characters late, and neither `strcpy` is
tested at all), so a picture may be longer than the sector; only its beginning is
written then, and the history variable `outgrown` remembers that the sector has
lost its end. `ReadSector` and `WriteSector` are separate, since nothing keeps two
processes apart; each is one step, though the 64 KiB of a real write could mix with
another's. `Get` is `get_env_param`, which keeps `MaxRead` characters (255) of a name
or a value and prints a longer value with what follows it in memory (`Garbled`).
`Starts`, `StringAt`, `NamesIn` are the boot loader's reading of the same sector and
only used by properties. Left out: strings without a `=`, which only an outgrown
sector has and for which `value_ptr` is stale, and the write to `params_arr[500]`.

## Runs

| run | bounds | shows |
|---|---|---|
| `tx_ring` | 3 descriptors, 8 frames | ring ownership and order, no use after free, double free or leak, refinement of `FrameFifo`, the inductive invariant, queued frames are sent unless a later call found the ring full |
| `tx_full` | 2 descriptors, 4 frames | *violation*: a full ring stops transmission for good |
| `rx_ring` | 4 descriptors, 8 frames, 1 close, failing allocations | ring ownership and order, poll protocol, refinement of `FrameFifo`, no lost wake-up, no stall without a known cause, every frame passed on |
| `rx_nomem` | 3 descriptors, 6 frames, failing allocations | *violation*: one failed allocation on a full ring ends reception |
| `button_press` | 2 buttons, waits of 1 and 2 samples, 5 edges at any time | buttons stay alive, presses are watched, read once, reported; reports expire; unloading is complete; up to the named windows |
| `leds` | 3 LEDs, 2 patterns, 3 writes | the last write counts, patterns and timers agree, unloading leaves nothing on |
| `brloop_round` | 2 events on ports 1 and 3, 1 step with failing commands, port 3 left blocked or not | record and switch agree, no stale report, loops are broken, the topology change ends |
| `brloop_release` | 2 events, no failure | *violation*: ports stay blocked |
| `wps` | 2 requests, 1 stop, limits of 60 and 10 looks cut to 1 | one monitor, found by its pid file, leaves IDLE and a free DHCP client, ends when told to |
| `dhcp` | 2 addresses, leases of 3 and 10 s, 2 signals, 2 packets under way, late by 1 s | socket and state agree, the lease file is true, leases are honoured, requests end, the client keeps asking |
| `env` | 2 processes, 4 names, 5 values, 3 entries, 18 characters, 3 kept by `get_env_param`, 3 calls | the sector stays an environment until it is outgrown, what was set is read, the others are kept |
| `env_prefix` | 1 process | *violation*: a longer name is overwritten |

Each module's type invariant is a conjunct of one of these invariants (`TxInv`,
`RingWindow`, `ButtonAlive`, `PatternHasTimer`, `OneMonitor`, `ListensForAnswer`,
`Parses`); `brloop_round` checks it by itself.

Why the bounds are enough. A ring of three is the smallest in which empty, full
and partly filled differ and an index wraps apart from the other; eight frames go
round it more than twice, so each slot is reused and an skb freed. The receive
runs need more frames than descriptors plus one delayed interrupt to meet a full
ring twice. Five edges give one button three presses, the last one held, or two to one and one
to the other: a report, a tap that takes its timer, and another press; each edge may
fall into each of the windows. Three
writes to three LEDs cover pattern, other pattern, level on one LED as well as
one write to each. Two events let a loop appear and move or vanish, or appear under
a radio or WPS change, and any one step of the daemon meets them failing (three
events with one failing step, and two with two, were also checked and hold);
`AgingTime` is cut from 15 to 1, the rotation keeps its four tries
and four ports. The second of two WPS requests meets the first's monitor in
every state, and either can be stopped (with two stops the properties hold too); the
limits on looks only count equal steps. A lease of 10 seconds
has requests in both phases (t1 = 5, 6, 7 and t2 = 8, 9), one of 3 is outlasted
by the script; two packets under way make an old answer meet a new exchange.
With one address, leases of 0, 1, 2, 8 and 9 seconds, three signals and delays of
3 seconds the invariants hold too. The names of `env` include one that begins another, one
that ends another and one too long for `get_env_param`, its values an empty one, one
that is too long, one that ends in a name and one with a `=`; the longest
environments meet the sector's end and the loop's byte limit. Three calls add,
change, shorten, lengthen and delete.
The models whose inputs are bounded stop when the bounds are used up, hence
`CHECK_DEADLOCK FALSE`; the DHCP client never stops, and deadlock is checked.

Fairness. `GswTx`: the sender finishes its call and the stack offers a requeued
frame again (`qdisc_requeue` and `netif_schedule`), a running engine works.
`GswRx`: engine, handlers and poll go on; nobody has to open or close.
`GpioButton`: interrupts, timers and timer functions are served; nobody has to
press, read or unload. `BrLoop`: the daemon is scheduled and a loop keeps
bringing broadcasts back; no event is obliged to happen. `WpsMonitor`: a request
that has begun is served to its end (the server is a loop without other waits),
every monitor is scheduled, the engine ends (its walk time is two minutes);
nobody has to make a request. `Udhcpc`: the client is scheduled and time passes;
no packet has to arrive and no signal to be sent. `Leds` and `EnvParam` state
none, their properties are safety.

## Findings

* **Full transmit ring** (`tx_full`). `star_gsw_send_packet` stops the engine
  first and starts it only when it has queued a frame. When the ring is full it
  returns 1 with the engine stopped; the ring never empties.
* **No memory** (`rx_nomem`). A poll whose first allocation fails counts no work,
  so it completes instead of restarting an engine that stopped on a full ring.
* **Blocked ports** (`brloop_release`). The daemon expects delimiters and
  ascending ports in `switch_port_enable`; the driver prints neither. Once blocked,
  port 3 stays shut for good; port 0 is opened again only when port 3 is blocked.
* **Longer names** (`env_prefix`). `set_env_param` compares as many characters as
  the given name has: setting or deleting `eth` changes `ethaddr` too, and while
  `ethaddr` exists `eth` cannot be added.

`PROJECT.json` quotes the comments these disagree with.

Further observations, each the exception of a property that holds otherwise:

* A short tap after an unread button report deletes the report's 20 second timer
  (`gpioDevice.c:203`); the report stays until it is read (`ReportExpires`).
* `pbc_cancel` between `gpio_read`'s test and its decrement makes `pbc_flag` -1
  (`gpioDevice.c:342`); reads return -EAGAIN instead of blocking until the next
  press. No press is read twice (`OneBytePerReport`).
* A press between the two halves of `gpio_cleanup` for its button leaves a timer
  behind in an unloaded module (`gpioDevice.c:504`, `UnloadedIsQuiet`).
* A press served while `gpio_pbc_end` is between `set_edgeintr` and `add_timer`
  (`gpioDevice.c:263` to `267`) loses its sampling timer with its interrupt disarmed:
  the button is dead until the module is loaded again (`ButtonAlive`, `struck`).
* "Clear All Interrupt Status" (`str9100_gpio.c:412`) wipes edges that came after the
  raw state was read; such a press goes unnoticed (`PressIsWatched`, `missed`).
* Commands of the loop daemon that fail: a port recorded as disabled goes on
  forwarding until the rotation comes round again (`RecordedIsBlocked`), a report is
  taken for a second loop (`NoStaleReport`), `local_topology_change` stays set until
  the next change ends (`TopologyChangeEnds`).
* After a 0 for the system LED the kernel's timer fires once more and overrides
  what was written within that second (`str9100_gpio.c:535`, `LastWriteCounts`).
* A ring that fills up after `star_gsw_open` started the engine and before it
  installed the handlers stalls like one without memory (`StallHasCause`).
* A monitor whose engine never starts returns at once
  (`hnap_wps_status_monitor.c:134`) and leaves `/var/wpsRunning`: the DHCP client
  sends no discover packet until a later WPS ends (`RestIsClean`, `HoldEnds`).
* A status of 1 or 2 that the engine leaves behind keeps the watching loop (line 145,
  no limit) and with it `/var/wpsRunning` until a request comes (`HoldEnds`).
* A start request whose signal is not sent or not heard in time starts a second
  monitor beside the first (`OneMonitor`, `unheard`).
* The monitor reports 14 (connect failure) after 99 (connected) when the minute
  is over; `retry` at line 151 never reaches 5 because line 147 resets it; the
  server's `echo 1` (`hnap_config_metalink.c:2135`) may follow a monitor's newer
  status, which the next second corrects.
* `fptr` is read uninitialised at `End` when the signal comes in the first wait
  (line 338); the model takes the outcome that nothing happens.
* `dhcp.tcl` keeps the leased address after deconfig, as its comment says: `br0`
  may use an address longer than the lease, although the client no longer counts
  on it. `LeaseHonoured` is about the client.
* A release in `RENEW_REQUESTED` tells neither server nor script
  (`dhcpc.c:97`); a killed client leaves "bind" in the lease file
  (`StatusIsTrue`). A renewal asked for by a signal may overrun the lease by the
  14 seconds its three requests take.
* `/var/wpsRunning` holds back discover packets only; renewals go on.
* Names and values of 255 characters and more: `get_env_param` does not find the one
  and garbles the other, and finds the beginning of a long name instead.
* `get_env_param` does not look for the end of the environment. After a deletion it
  may still find the parameter in what is left behind the end, when the value ends in
  the name or in `name=...` (`SetIsRead`, `Echoed`).
* A value that does not fit is cut at the end of the sector, which then has no end
  (`Parses`, `outgrown`): the byte limit at `set_env_param.c:72` is tested four
  characters late, and the two `strcpy` are not tested.
* Values with a `=`: only what follows the last one is replaced or read. Two
  concurrent `set_env_param` lose one of their changes. A full `params_arr` is
  refused without an error.

## Proofs

**GswTx_proofs** proves, for every ring size and number of frames, the type
invariant, `RingWindow`, `NoUseAfterFree`, `NoDoubleFree`, `NoLeak` and that
`GswTx` implements `FrameFifo`. Assumptions: `TfdNum` is a positive and
`MaxFrames` a natural number. `RingWindow` is not inductive: to know that the
slot at `cur_index` is the one behind the engine's window one needs `IndexInv`,
and to know which skb is freed one needs what free slots still hold (`OldSlots`)
and which skbs are allocated (`AliveInv`). Their conjunction with `TypeOK` and
"a fetched descriptor is owned by the engine" is `TxInv`, which the run `tx_ring`
also checks. The proof has one step per action: `SendQueue` moves the end of the
window by one, `EngineDone` its start, the others leave it. The refinement uses
`TxInv` before the step: `SendQueue` is `Enter`, `EngineDone` is `Leave`, every
other step is a stutter.

Two more theorems are about the full ring. `TxStoppedByFull`: outside a call the
engine is stopped only if a call found the ring full, the safety half of
`QueuedIsSent`. `TxWedgedForGood`: a full ring with a stopped engine stays so for
ever, whatever its size, so the counterexample of `tx_full` is no accident of two
descriptors.

**BrLoop_proofs** proves `TypeOK`, `RecordedIsBlocked` and `NoStaleReport` for all
intervals, radio modes, bounds on events, failing commands and ports left blocked
at the start. The invariant is `BrLoopInv`: the type invariant, `CountersOK` (the
counters are within their limits where they are used), `ChosenOK` (a port is
chosen before one is blocked, a report names its port) and the two properties,
with their exceptions for a command that failed. They need each other: `LoopClear`
may reset the report only because the chosen port is blocked, and `reset_Portmap`
may forget the port because opening ports never blocks one (`ReEnableOpens`),
whatever the text of the proc file makes it open.

The finding about blocked ports is a theorem too: port 3 stays blocked once it was
(`BrLoopPort3StaysShut`), while ports 1 and 2 are never left blocked as long as
no command has failed (`BrLoopOthersOpen`). `BrLoopRotates` and
`BrLoopChangeIsTimed` are the safety halves of `LoopIsBroken` and
`TopologyChangeEnds`: each report moves the rotation one port nearer the looped
one and leaves a port only when it is blocked or the command to block it failed, and
a topology change is being timed unless the command to end it failed.

**GswRx_proofs** proves `RingWindow`, the refinement of `FrameFifo`,
`PollHandshake`, `NoLostWakeup` and `StallHasCause` for every ring size, quota,
interrupt delay and number of frames and closes, with or without failing
allocations. Assumptions: the quota is positive, the interrupt is delayed for at
least one frame and for fewer than the ring has descriptors (6 of 48 on the
board), and the bounds are natural numbers. The invariants are layered, each
proved with those before it:

* `RingInv` adds `IndexInv`, the distance between the engine's pointer and
  `cur_index` as the number of frames in the ring; the two meet when it is empty
  and when it is full. `AheadIsInjective` says that two slots at the same
  distance are the same slot.
* `HandshakeInv` adds that a poll runs only while the interface is up or
  closing, and that RX_SCHED implies a disabled FSRC then.
* `WakeupInv` follows a frame that came after the poll's last look: from the read
  of FSSD until `enable_irq` its FSRC is latched, delayed or about to be raised.
* `StallInv` says how the driver remembers a stopped engine (`fsqf`, `is_qf`, or
  the poll is at its restart) and that the ring stays full until a frame is taken.

`RxCountIsExact` says that the number of frames computed from the two pointers is
right although the engine moves one of them; from it, `RxCutShortAtNewest`: a
COWN bit that is not written yet ends a poll only at the newest frame.
`RxStallKept`: reception that stalled passes nothing until the interface is
closed, for every ring size.

**GpioButton_proofs** proves the five invariants of the run for any set of buttons,
sampling times and number of edges, with the pins changing at any time and whatever
the hardware latches: `OneBytePerReport` (`BytesInv`: a report that is not read or is
being read is not among the bytes), `ReportExpires` (`ExpiryInv`), `UnloadedIsQuiet`
(`CleanInv`: the buttons `gpio_cleanup` has served), `ButtonAlive` (`AliveInv`: a
button that is not armed is sampled, about to be armed, or `struck`) and
`PressIsWatched` (`WatchInv`: a latched edge waits for the handler or for its button
to be armed; a press that is not reported, sampled or latched is `missed`). So the
windows named by `struck` and `missed` are the only ones in which a button dies or a
press is lost. `ButtonDeadForGood` says what is at stake: a button that lost both
its interrupt and its sampling timer never comes back. `ButtonHeldRises` is the
safety half of `HeldIsReported`: each step of its timer brings a held button nearer
its report, at most `2 * Wait + 1` are needed, and only the step that makes the button
`struck` undoes it.

**Leds_proofs** proves the three properties of `Leds` for any set of LEDs and any
table of patterns, those with a limited number of repetitions included, which the
source's table and the run do not have. `TypeInv` carries `PatternHasTimer`
through a write: the LED the process works on has no timer from `WriteDel` until
`WritePulse`, so only `WritePulse` reads the shared `pulse_pattern`. `WriteInv`
carries `LastWriteCounts`: what a writer has read from the register is still true
of every LED with a steady value, because only patterns' timers and the kernel's
blinking change a LED behind its back, and a LED with a steady value has neither.
`DarkInv` is the same argument for `gpio_cleanup`.

**WpsMonitor_proofs** proves `OneMonitor` and `RestIsClean` for any number of
requests, stops and looks, any codes of the engine and any failing `popen` of the
kills, under `Prompt`, the assumption of no load, without which `OneMonitor` is
false. `MonitorStep` says what any step of a monitor may do to the shared files
(`Effect`) and `KillStep` what a signal does; the invariants use nothing else of
them. `OneInv` ties the server's place in its request to the monitors that may live,
as long as every signal was sent and heard (`~unheard`): none when the next is
started, and a signalled one while the server sleeps before that. `RestInv` ties the
status and `/var/wpsRunning` to the place where the last monitor is; it holds when
two of them run as well and does not rest on `OneInv`. `WpsSignalledDescends`, the
safety half of `SignalledEnds`, needs no `Prompt`: a monitor that was told to end has
at most seven steps left.

**Udhcpc_proofs** proves `ListensForAnswer`, `StatusIsTrue`, `LeaseHonoured` and
`HeldWithinGrant` for any pool, any set of lease times with a longest one, any
delay, number of packets and signals, and any time the script takes.

* `TypeInv` adds to `ListensForAnswer` that a client that asks for an address has
  one to ask for, t1 comes before t2, only a client that was told to release
  never wakes, and the loop sleeps only after an ACK or a NAK.
* `StatusIsTrue` is inductive.
* `TimeInv` bounds the time of the next waking, `age + left`, by the end of the
  phase or by what the script took; with the requests that are left in
  `RENEW_REQUESTED` (`RequestsAfter`) it stays the same when time passes and when
  a request is sent, and each halving of t1 and t2 stays within it.
* `GrantInv` says that an ACK of the current xid is covered by the server's grant,
  less its delay. A release breaks that for packets under way, and they are never
  taken: a new xid comes before the client can ask again (`XidOver`).
* `ClientRequestDescends` and `ClientSilenceDescends` are the safety halves of
  `RequestEnds` and `KeepsAsking`: measures of phase, time, retries and signals
  that every step of a waiting client lowers, for every lease time.

The proof changed the model in two places. The bound of `LeaseHonoured` for a
slow script was `ScriptWait + 1`, right only for leases below four hours: after
the script the client still waits out the last span of RENEWING, `lease / 14400 +
1` seconds (`LastSpan`). And the time that stands for INT_MAX was a fixed number,
which a long lease could reach; it is now beyond every timeout.

**EnvParam_proofs** proves `Parses` for any names, values, sectors, size of the
sector and number of processes: whatever is set and deleted, the sector stays an
environment until something is written for which it has no room. The assumptions
are those of the module: names are not empty and hold neither `=` nor NUL, values
hold no NUL, `params_arr` has at least one entry, names, values and sectors are
sequences of characters, and a sector the program starts from is an environment
that fits. Names may begin, end or contain each other, and values may hold `=` and
names. Here what is proved is what a loop computes for every input, so the proof
is by induction over the characters:

* The induction. The library's induction theorems are not usable, but
  well-foundedness is: `LeastNumber` takes the least element of a set of numbers
  from `WFMin`, and `UpTo` turns it into "a set that holds 0 and with a number the
  next one, up to l, holds `0 .. l`". `PicturesByTurns` builds the recursive
  function `Pictures` with it.
* The reading. `EnvironmentIs` replaces the boot loader's reading, with its CHOOSE
  of the end and of the name, by positions (`EnvOK`): where a string begins there
  is a name and a `=`, and no name is there twice.
* The loop invariant `Going`. Before `name_ptr` the picture consists of strings
  with different names, all of which were read before; behind it are the
  characters read since; `value_ptr` is behind the last `=` among them; until the
  parameter is found nothing lies behind the picture. That a kept string's name is
  new follows from where it was read, and that an appended parameter is new from no
  string having matched, so both are part of it.
* One lemma per branch of the loop (`TurnReads`, `TurnKeeps`, `TurnUnsets`,
  `TurnOverwrites`, `TurnEnds`, `TurnFull`, `TurnOverruns`), which `LoopStep` puts together.
  `LoopEnds` also shows that the loop does not run past the text, and
  `PictureIsEnv` adds the parameter that was not found. A loop that the byte limit
  ends has built a picture longer than the sector (`Overrun`).
* `EnvInv`: until the sector is `outgrown`, it and each picture a process is about
  to write that fits is an environment. Processes that overwrite each other's
  changes therefore lose them, but never mix them.

All the invariants named here were checked by TLC on the instances of the runs
before they were proved; those of `Leds` also with a pattern that ends, those of
`Udhcpc` for minutes with leases of 0 and 20000 seconds and a slower script, the
loop invariant of `EnvParam` for every sector, name and value of its run.

Only model-checked: the liveness properties `QueuedIsSent`, `ArrivedIsPassed`,
`HeldIsReported`, `LoopIsBroken`, `TopologyChangeEnds`, `SignalledEnds`,
`HoldEnds`, `KeepsAsking` and `RequestEnds` (fairness and ENABLED are outside what
TLAPS does; for most of them the safety half named above is a theorem), and the
action properties `SetIsRead` and `OthersKept` of `EnvParam`: they compare what
`get_env_param` reads before and after, which would take a second induction along
both texts at once.

## Not modelled

* The RTL8306 driver and the Ethernet driver's set-up: register access without
  state of their own. The reboot notifier stops both engines just before the
  board is reset; no doc says what must hold in between.
* The HNAP server apart from WPS, the web pages, scripts and small tools:
  sequential, they format and store settings.
* 32-bit overflow of `lease * 7` in the DHCP client (leases beyond 19 years), a
  second DHCP server, the automatic choice of the network type in `dhcp.tcl`.
* The environment's CRC, an erased sector, and power failure during the rewrite:
  the code has no recovery, the boot loader falls back on its defaults.
* The bridge's part of loop breaking, the WPS engine and the wireless driver are
  not in the tree as source. Vendored packages other than the DHCP client, on
  which the vendor's hook acts, are left aside.

The map covers a small share of the repository because nearly all of its lines
are the Linux kernel, u-boot, busybox and other packages.

## Plan

Every safety invariant of the runs has a theorem. What is left:

1. `OthersKept` and `SetIsRead`: the loop invariant would also have to say that
   the strings in the picture have the values they were read with, and `Get` to be
   followed through it.
2. The hypothesis `Prompt` of the WPS theorems weakened to the single steps that
   need it.
3. The leads-to properties, with a prover that handles ENABLED: the measures
   proved above are the ones such proofs need.
