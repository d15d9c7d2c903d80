------------------------------- MODULE BrLoop -------------------------------
(***************************************************************************)
(* The bridge loop daemon (apps/detected_BrLoop): it polls the loop flag   *)
(* of the bridge, blocks one switch port after the other until the loop is *)
(* broken, and opens the ports again when the link of the blocked port or  *)
(* of the radio changes.                                                   *)
(*                                                                         *)
(* The daemon reaches the RTL8306 switch through the proc files of         *)
(* drivers/net/str9100/star_gsw_phy.c, which are modelled by the text they *)
(* exchange: what the daemon reads is not the table of port states but the *)
(* bytes star_switch_get_port_enable printed, taken apart by               *)
(* reEnableDisPort.                                                        *)
(*                                                                         *)
(* Every write is a shell command run by system() and every read a popen() *)
(* of cat; both may fail, and only two of the reads are checked.           *)
(*                                                                         *)
(* The bridge's flag files are not in this kernel tree: the bridge is      *)
(* modelled from how the daemon uses them.                                 *)
(***************************************************************************)
EXTENDS Integers, Sequences

CONSTANTS
  AgingTime,     \* 15: rounds local_topology_change stays set
  PhyInterval,   \* CHECK_PORT_PHY_INTERVAL, rounds between two port checks
  Tries,         \* 4: ports blocked in one round at most
  RadioModes,    \* the security and address settings that occur
  CablePorts,    \* bound: the ports whose cables are moved
  LeftBlocked,   \* bound: ports an earlier daemon may have left blocked
  MaxFailures,   \* bound: steps of the daemon in which a command fails
  MaxEvents      \* bound: cable, radio and WPS events in a behaviour

ASSUME CountsAssumption ==
  AgingTime \in Nat /\ PhyInterval \in Nat \ {0} /\ Tries \in Nat \ {0}
ASSUME RadioModesAssumption ==
  RadioModes \subseteq {"plain", "wepStatic", "wepNoGateway", "wepDhcp", "wpa"}
ASSUME BoundAssumption ==
  /\ CablePorts \subseteq 0 .. 3 /\ LeftBlocked \subseteq 0 .. 3
  /\ MaxFailures \in Nat /\ MaxEvents \in Nat

VARIABLES
  \* the world
  link,          \* link[p]: port p has a link
  dropped,       \* the link bit is latched low: p lost its link since the
                 \* PHY status register was last read
  looped,        \* the port whose cable closes a loop
  assoc,         \* the radio reports status 3
  joined,        \* lease bound, gateway in the ARP table, or WPA completed
  wps,           \* /var/wpsLoopDetect exists
  events,
  \* kernel and switch
  stp,           \* 802.1d state of port p
  loopFlag,      \* bridge_loop_detected
  seen,          \* history: the port whose loop the flag was last set for
  localTc,       \* local_topology_change
  \* the daemon
  mode,          \* securityMode, authMode, ipConfigMethod
  pc,
  prePortLink,
  ifw_status,
  disablePort,
  initialized,
  tp_change,
  tp_time_out,
  checkTime,
  cur_dis_port,
  try,
  br_loop,       \* tp.br_loop, the flag as it was last read
  \* history
  failures,      \* steps in which a command has failed
  unblocked,     \* the last command to block a port failed
  uncleared,     \* the last command to clear the report failed
  unreset        \* the last command to reset local_topology_change failed

world == <<link, dropped, looped, assoc, joined, wps, events>>
switch == <<stp, loopFlag, seen, localTc>>
check == <<prePortLink, ifw_status, checkTime>>
timing == <<tp_change, tp_time_out>>
rotation == <<disablePort, initialized, cur_dis_port, try, br_loop>>
causes == <<unblocked, uncleared, unreset>>
history == <<failures, causes>>
vars == <<world, switch, check, timing, rotation, mode, pc, history>>

Ports == 0 .. 3
NoPort == -1

BLOCK == 1
FORWARD == 3
NUL == -48  \* the byte 0, relative to '0'
EOF == -49

\* The program reads the radio settings once.  The switch may be as an earlier
\* daemon has left it.
Init ==
  /\ link = [p \in Ports |-> TRUE]
  /\ dropped = [p \in Ports |-> FALSE]
  /\ looped = NoPort
  /\ assoc \in BOOLEAN
  /\ joined = assoc
  /\ wps = FALSE
  /\ events = 0
  /\ stp \in {s \in [Ports -> {BLOCK, FORWARD}] : \A p \in Ports \ LeftBlocked : s[p] = FORWARD}
  /\ loopFlag = FALSE
  /\ seen = NoPort
  /\ localTc = FALSE
  /\ mode \in RadioModes
  /\ pc = "init"
  /\ prePortLink = [p \in Ports |-> NUL]
  /\ ifw_status = FALSE
  /\ disablePort = 0
  /\ initialized = FALSE
  /\ tp_change = FALSE
  /\ tp_time_out = 0
  /\ checkTime = 0
  /\ cur_dis_port = 0
  /\ try = 0
  /\ br_loop = FALSE
  /\ failures = 0
  /\ unblocked = FALSE
  /\ uncleared = FALSE
  /\ unreset = FALSE

-----------------------------------------------------------------------------
(* The proc files *)

\* The ports reEnableDisPort writes back to switch_port_enable.  The proc file
\* (star_switch_get_port_enable, star_gsw_phy.c:5030) holds the state of the
\* last port first, nothing in between, and the terminating NUL, which
\* sizeof(tmpBuf) counts.  The daemon takes every second byte for the state of
\* the next port, the others for delimiters, and stops at the end of the file.
ReEnabled(s) ==
  LET text == <<s[3], s[2], s[1], s[0], NUL>>
  IN {i \in Ports : 2 * i + 1 <= Len(text) /\ text[2 * i + 1] # FORWARD}

\* A step of the daemon; in a bad one some of its commands fail.
Step(bad) ==
  /\ bad => failures < MaxFailures
  /\ failures' = IF bad THEN failures + 1 ELSE failures

\* The ports after reEnableDisPort.  It returns at once when popen fails, and
\* each of its commands may fail.
ReEnableDisPort(s, t, bad) ==
  \E opened \in SUBSET ReEnabled(s) :
    /\ bad \/ opened = ReEnabled(s)
    /\ t = [p \in Ports |-> IF p \in opened THEN FORWARD ELSE s[p]]

\* system("echo v > file"): what is in the file afterwards.
Written(v, was, bad) == IF bad THEN {v, was} ELSE {v}

\* star_switch_get_port_link_status and port_status: one byte for each port
\* and a delimiter.  Reading a status register unlatches its link bit.
LinkByte(p) == IF link[p] /\ ~dropped[p] THEN 1 ELSE 0

\* detect_station_layer3_link_status for WEP: the gateway in the ARP table with
\* a static address, the lease with DHCP; without a gateway it cannot tell.
Layer3LinkUp == mode \in {"wepStatic", "wepDhcp"} => joined

\* get_station_layer3_link_status: the driver reports association too early,
\* so with WEP or WPA the layer above it is asked as well.  A command that
\* prints nothing counts as no link, a query of the layer above that cannot be
\* started leaves the driver's answer.
StationLinkStatus(bad) ==
  {assoc /\ Layer3LinkUp /\ (mode = "wpa" => joined)} \cup (IF bad THEN {FALSE, assoc} ELSE {})

-----------------------------------------------------------------------------
(* The daemon: one round of main's loop *)

\* init_status: reset_Portmap, and local_topology_change is 0 again.
InitStatus ==
  /\ pc = "init"
  /\ \E bad \in BOOLEAN :
       /\ Step(bad)
       /\ ReEnableDisPort(stp, stp', bad)
       /\ localTc' \in Written(FALSE, TRUE, bad)
  /\ unreset' = localTc'
  /\ disablePort' = NoPort
  /\ initialized' = FALSE
  /\ tp_change' = FALSE
  /\ pc' = "top"
  /\ UNCHANGED <<world, loopFlag, seen, check, tp_time_out, mode>>
  /\ UNCHANGED <<cur_dis_port, try, br_loop, unblocked, uncleared>>

\* Mutant: the flag is not written back.
AgingMutant ==
  /\ pc = "top"
  /\ IF tp_change /\ tp_time_out + 1 > AgingTime
       THEN tp_change' = FALSE /\ tp_time_out' = 0
       ELSE /\ tp_time_out' = IF tp_change THEN tp_time_out + 1 ELSE tp_time_out
            /\ UNCHANGED tp_change
  /\ pc' = IF checkTime >= PhyInterval THEN "ports" ELSE "loop"
  /\ UNCHANGED <<stp, loopFlag, seen, localTc, world, check, rotation, mode, history>>

\* local_topology_change is reset when the aging time is over.
Aging ==
  /\ pc = "top"
  /\ IF tp_change /\ tp_time_out + 1 > AgingTime
       THEN /\ \E bad \in BOOLEAN : Step(bad) /\ localTc' \in Written(FALSE, localTc, bad)
            /\ unreset' = localTc'
            /\ tp_change' = FALSE
            /\ tp_time_out' = 0
       ELSE /\ tp_time_out' = IF tp_change THEN tp_time_out + 1 ELSE tp_time_out
            /\ UNCHANGED <<localTc, tp_change, unreset, failures>>
  /\ pc' = IF checkTime >= PhyInterval THEN "ports" ELSE "loop"
  /\ UNCHANGED <<stp, loopFlag, seen, world, check, rotation, mode, unblocked, uncleared>>

\* reset_Portmap
ResetPortmap(bad) ==
  /\ ReEnableDisPort(stp, stp', bad)
  /\ disablePort' = NoPort
  /\ initialized' = FALSE
  /\ localTc' \in Written(TRUE, localTc, bad)
  /\ tp_change' = TRUE
  /\ unreset' = FALSE
  /\ UNCHANGED <<loopFlag, seen, tp_time_out, cur_dis_port, try, br_loop, unblocked, uncleared>>

KeepPortmap == UNCHANGED <<switch, timing, rotation, causes>>

\* What port_status finds: the links, nothing new when popen fails, or no
\* bytes when cat does not run.
PortStatus(bad) ==
  \/ /\ prePortLink' = [p \in Ports |-> LinkByte(p)]
     /\ dropped' = [p \in Ports |-> FALSE]
  \/ /\ bad
     /\ prePortLink' \in {prePortLink, [p \in Ports |-> EOF]}
     /\ UNCHANGED dropped

\* The link of the blocked port is compared with what it was.
CheckPorts ==
  /\ pc = "ports"
  /\ \E bad \in BOOLEAN :
       /\ Step(bad)
       /\ PortStatus(bad)
       /\ IF disablePort # NoPort /\ prePortLink'[disablePort] # prePortLink[disablePort]
            THEN ResetPortmap(bad)
            ELSE KeepPortmap
  /\ pc' = "wireless"
  /\ UNCHANGED <<link, looped, assoc, joined, wps, events>>
  /\ UNCHANGED <<ifw_status, checkTime, mode>>

\* The link of the radio is compared with what it was.
CheckWireless ==
  /\ pc = "wireless"
  /\ \E bad \in BOOLEAN :
       /\ Step(bad)
       /\ ifw_status' \in StationLinkStatus(bad)
       /\ IF disablePort # NoPort /\ ifw_status' # ifw_status
            THEN ResetPortmap(bad)
            ELSE KeepPortmap
  /\ checkTime' = 0
  /\ pc' = "loop"
  /\ UNCHANGED <<prePortLink, world, mode>>

\* The popen of /proc/net/wireless fails and fgets reads from NULL.
WirelessCrash ==
  /\ pc = "wireless"
  /\ Step(TRUE)
  /\ pc' = "exited"
  /\ UNCHANGED <<world, switch, check, timing, rotation, mode, causes>>

\* During WPS a loop is not handled, its flag is only cleared.
CheckLoop ==
  /\ pc = "loop"
  /\ checkTime' = checkTime + 1
  /\ IF wps
       THEN /\ \E bad \in BOOLEAN : Step(bad) /\ loopFlag' \in Written(FALSE, loopFlag, bad)
            /\ pc' = "top"
            /\ UNCHANGED try
       ELSE try' = 0 /\ pc' = "read" /\ UNCHANGED <<loopFlag, failures>>
  /\ UNCHANGED <<stp, seen, localTc, prePortLink, ifw_status>>
  /\ UNCHANGED <<disablePort, initialized, cur_dis_port, br_loop, world, timing, mode, causes>>

\* fscanf of the loop flag; without a byte br_loop keeps its value.
ReadFlag(bad) == br_loop' \in Written(loopFlag, br_loop, bad)

\* No loop is reported: the round ends with sleep.
LoopNone ==
  /\ pc = "read"
  /\ \E bad \in BOOLEAN : Step(bad) /\ ReadFlag(bad)
  /\ ~br_loop'
  /\ pc' = "top"
  /\ UNCHANGED <<disablePort, initialized, cur_dis_port, try>>
  /\ UNCHANGED <<world, switch, check, timing, mode, causes>>

\* A loop is reported: the next port is chosen and the earlier one opened.
LoopFound ==
  /\ pc = "read"
  /\ \E bad \in BOOLEAN :
       /\ Step(bad)
       /\ ReadFlag(bad)
       /\ IF initialized THEN ReEnableDisPort(stp, stp', bad) ELSE UNCHANGED stp
  /\ br_loop'
  /\ disablePort' = cur_dis_port
  /\ initialized' = TRUE
  /\ pc' = "block"
  /\ UNCHANGED <<loopFlag, seen, localTc, cur_dis_port, try>>
  /\ UNCHANGED <<world, check, timing, mode, causes>>

\* Mutant: the earlier ports are opened after the new one is blocked.
LoopBlockMutant ==
  /\ pc = "block"
  /\ ReEnableDisPort([stp EXCEPT ![disablePort] = BLOCK], stp', FALSE)
  /\ pc' = "clear"
  /\ UNCHANGED <<loopFlag, seen, localTc, world, check, timing, rotation, mode, history>>

\* The chosen port is blocked, and remembered as blocked when that fails, too.
LoopBlock ==
  /\ pc = "block"
  /\ \E bad \in BOOLEAN :
       /\ Step(bad)
       /\ stp' = IF bad THEN stp ELSE [stp EXCEPT ![disablePort] = BLOCK]
       /\ unblocked' = bad
  /\ pc' = "clear"
  /\ UNCHANGED <<loopFlag, seen, localTc, world, check, timing, rotation, mode>>
  /\ UNCHANGED <<uncleared, unreset>>

\* Mutant: the last port is left out of the rotation.
NextPortMutant(p) == (p + 1) % 3

\* Mutant: the index does not wrap.
NextPortGrows(p) == p + 1

NextPort(p) == (p + 1) % 4

\* Mutant: the report stays and is taken for a new one.
LoopClearMutant ==
  /\ pc = "clear"
  /\ cur_dis_port' = NextPort(cur_dis_port)
  /\ tp_change' = TRUE
  /\ tp_time_out' = 0
  /\ try' = try + 1
  /\ pc' = IF try' < Tries THEN "read" ELSE "top"
  /\ UNCHANGED <<loopFlag, stp, seen, localTc, disablePort, initialized, br_loop>>
  /\ UNCHANGED <<world, check, mode, history>>

\* The flag is cleared and a broadcast sent, to see whether it comes back.
LoopClear ==
  /\ pc = "clear"
  /\ \E bad \in BOOLEAN :
       /\ Step(bad)
       /\ loopFlag' = IF bad THEN loopFlag ELSE FALSE
       /\ uncleared' = bad
  /\ cur_dis_port' = NextPort(cur_dis_port)
  /\ tp_change' = TRUE
  /\ unreset' = FALSE
  /\ tp_time_out' = 0
  /\ try' = try + 1
  /\ pc' = IF try' < Tries THEN "read" ELSE "top"
  /\ UNCHANGED <<stp, seen, localTc, disablePort, initialized, br_loop>>
  /\ UNCHANGED <<world, check, mode, unblocked>>

\* popen of the loop flag fails: main returns.
LoopGiveUp ==
  /\ pc = "read"
  /\ Step(TRUE)
  /\ pc' = "exited"
  /\ UNCHANGED <<world, switch, check, timing, rotation, mode, causes>>

Daemon ==
  \/ InitStatus \/ Aging \/ CheckPorts \/ CheckWireless \/ WirelessCrash \/ CheckLoop
  \/ LoopNone \/ LoopFound \/ LoopBlock \/ LoopClear \/ LoopGiveUp

-----------------------------------------------------------------------------
(* The bridge and the world *)

daemonVars == <<check, timing, rotation, mode, pc, failures, unblocked, unreset>>

\* A broadcast comes back through the loop.
BridgeDetect ==
  /\ looped # NoPort
  /\ stp[looped] = FORWARD
  /\ loopFlag' = TRUE
  /\ seen' = looped
  /\ uncleared' = FALSE
  /\ UNCHANGED <<stp, localTc, world, daemonVars>>

Event == events < MaxEvents /\ events' = events + 1

LoopCable(p) ==
  /\ Event
  /\ link[p]
  /\ looped' = p
  /\ UNCHANGED <<link, dropped, assoc, joined, wps, switch, uncleared, daemonVars>>

LinkDown(p) ==
  /\ Event
  /\ link[p]
  /\ link' = [link EXCEPT ![p] = FALSE]
  /\ dropped' = [dropped EXCEPT ![p] = TRUE]
  /\ looped' = IF looped = p THEN NoPort ELSE looped
  /\ UNCHANGED <<assoc, joined, wps, switch, uncleared, daemonVars>>

LinkUp(p) ==
  /\ Event
  /\ ~link[p]
  /\ link' = [link EXCEPT ![p] = TRUE]
  /\ UNCHANGED <<dropped, looped, assoc, joined, wps, switch, uncleared, daemonVars>>

\* The radio associates, the layer above follows; both go down together.
RadioChange ==
  /\ Event
  /\ IF assoc /\ ~joined
       THEN joined' = TRUE /\ UNCHANGED assoc
       ELSE assoc' = ~assoc /\ joined' = FALSE
  /\ UNCHANGED <<link, dropped, looped, wps, switch, uncleared, daemonVars>>

WpsChange ==
  /\ Event
  /\ wps' = ~wps
  /\ UNCHANGED <<link, dropped, looped, assoc, joined, switch, uncleared, daemonVars>>

World ==
  \/ \E p \in CablePorts : LoopCable(p) \/ LinkDown(p) \/ LinkUp(p)
  \/ RadioChange
  \/ WpsChange

Next == Daemon \/ BridgeDetect \/ World

Spec == Init /\ [][Next]_vars

\* The daemon is scheduled, and a loop keeps bringing broadcasts back.
Fairness == WF_vars(Daemon) /\ WF_vars(BridgeDetect)

FairSpec == Spec /\ Fairness

-----------------------------------------------------------------------------
TypeOK ==
  /\ link \in [Ports -> BOOLEAN]
  /\ dropped \in [Ports -> BOOLEAN]
  /\ looped \in Ports \cup {NoPort}
  /\ assoc \in BOOLEAN
  /\ joined \in BOOLEAN
  /\ wps \in BOOLEAN
  /\ events \in Nat
  /\ stp \in [Ports -> {BLOCK, FORWARD}]
  /\ loopFlag \in BOOLEAN
  /\ seen \in Ports \cup {NoPort}
  /\ localTc \in BOOLEAN
  /\ mode \in RadioModes
  /\ pc \in {"init", "top", "ports", "wireless", "loop", "read", "block", "clear", "exited"}
  /\ prePortLink \in [Ports -> {NUL, EOF, 0, 1}]
  /\ ifw_status \in BOOLEAN
  /\ disablePort \in Ports \cup {NoPort}
  /\ initialized \in BOOLEAN
  /\ tp_change \in BOOLEAN
  /\ tp_time_out \in 0 .. AgingTime
  /\ checkTime \in 0 .. PhyInterval
  /\ cur_dis_port \in Ports
  /\ try \in 0 .. Tries
  /\ br_loop \in BOOLEAN
  /\ failures \in 0 .. MaxFailures
  /\ unblocked \in BOOLEAN
  /\ uncleared \in BOOLEAN
  /\ unreset \in BOOLEAN

\* The port the daemon remembers as disabled is blocked, although ports are
\* opened and blocked by commands of their own: only the failure of the very
\* command that was to block it, whose result nobody looks at, leaves it open;
\* no other failing command does, and no restart.
RecordedIsBlocked ==
  disablePort # NoPort /\ pc \notin {"init", "block"} =>
    stp[disablePort] = BLOCK \/ unblocked

\* The daemon does not take a second report of a loop it has just broken for
\* a new one: the flag it reads was set through a port that is still open, or
\* the command that was to clear it failed.
NoStaleReport == loopFlag /\ pc # "clear" => stp[seen] = FORWARD \/ uncleared

\* The counters of main's loop are within their limits where they are used.
CountersOK ==
  /\ pc = "loop" => checkTime < PhyInterval
  /\ pc \in {"read", "block", "clear"} => try < Tries

\* A port is chosen before one is blocked, a report names the port it is about.
ChosenOK ==
  /\ pc \in {"block", "clear"} => disablePort # NoPort
  /\ loopFlag => seen # NoPort

\* The inductive invariant of the daemon: what its steps rely on together.
BrLoopInv ==
  TypeOK /\ CountersOK /\ ChosenOK /\ RecordedIsBlocked /\ NoStaleReport

\* A loop is broken: the rotation reaches the looped port (while WPS does not
\* suspend it), whichever commands have failed before.
LoopIsBroken ==
  \A p \in Ports :
    looped = p ~> looped # p \/ stp[p] = BLOCK \/ wps \/ pc = "exited"

\* The bridge goes back to its normal aging time, unless the command that
\* resets local_topology_change fails: it is not repeated.
TopologyChangeEnds == localTc ~> ~localTc \/ unreset \/ pc = "exited"

\* After reset_Portmap ("reset portmap when disablePort link is down") no
\* port stays blocked.
NoneLeftBlocked ==
  disablePort = NoPort => \A p \in Ports : stp[p] = FORWARD

=============================================================================
