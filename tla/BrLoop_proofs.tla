--------------------------- MODULE BrLoop_proofs ----------------------------
(***************************************************************************)
(* The daemon's safety properties, for every aging time, check interval,   *)
(* number of tries, set of radio settings, set of moved cables, number of  *)
(* events and of failing commands, and whatever switch it starts on.       *)
(***************************************************************************)
EXTENDS BrLoop, TLAPS

\* reEnableDisPort only ever opens ports: whatever it makes of the text of
\* the proc file and whichever of its commands fail, a port that was
\* forwarding stays so.
LEMMA ReEnableOpens ==
  ASSUME NEW s \in [Ports -> {BLOCK, FORWARD}], NEW t, NEW bad, ReEnableDisPort(s, t, bad)
  PROVE  /\ t \in [Ports -> {BLOCK, FORWARD}]
         /\ \A p \in Ports : s[p] = FORWARD => t[p] = FORWARD
BY DEF ReEnableDisPort

\* The bound on failing steps is kept.
LEMMA StepBound ==
  ASSUME failures \in 0 .. MaxFailures, NEW bad \in BOOLEAN, Step(bad)
  PROVE  failures' \in 0 .. MaxFailures
BY BoundAssumption DEF Step

\* What a command leaves in a file of one bit is a bit.
LEMMA WrittenBit ==
  ASSUME NEW v \in BOOLEAN, NEW was \in BOOLEAN, NEW bad \in BOOLEAN, NEW f,
         f \in Written(v, was, bad)
  PROVE  f \in BOOLEAN
BY DEF Written

\* The program starts in the invariant.
LEMMA InitBrLoopInv == Init => BrLoopInv
<1> SUFFICES ASSUME Init PROVE BrLoopInv
  OBVIOUS
<1>1. /\ tp_time_out \in 0 .. AgingTime /\ checkTime \in 0 .. PhyInterval
      /\ cur_dis_port \in Ports /\ try \in 0 .. Tries /\ events \in Nat
      /\ disablePort \in Ports /\ failures \in 0 .. MaxFailures
  BY CountsAssumption, BoundAssumption DEF Init, Ports
<1>2. TypeOK
  BY <1>1 DEF Init, TypeOK
<1> QED BY <1>2 DEF Init, BrLoopInv, CountersOK, ChosenOK, RecordedIsBlocked, NoStaleReport

\* reset_Portmap, and a check that finds no change, keep the switch's part.
LEMMA PortmapInv ==
  ASSUME BrLoopInv, NEW bad \in BOOLEAN, ResetPortmap(bad) \/ KeepPortmap,
         pc \in {"ports", "wireless"}, pc' \in {"wireless", "loop"}
  PROVE  /\ stp' \in [Ports -> {BLOCK, FORWARD}]
         /\ loopFlag' \in BOOLEAN /\ localTc' \in BOOLEAN
         /\ seen' \in Ports \cup {NoPort}
         /\ disablePort' \in Ports \cup {NoPort} /\ initialized' \in BOOLEAN
         /\ tp_change' \in BOOLEAN /\ tp_time_out' \in 0 .. AgingTime
         /\ cur_dis_port' \in Ports /\ try' \in 0 .. Tries /\ br_loop' \in BOOLEAN
         /\ unblocked' \in BOOLEAN /\ uncleared' \in BOOLEAN /\ unreset' \in BOOLEAN
         /\ ChosenOK' /\ RecordedIsBlocked' /\ NoStaleReport'
<1>1. CASE KeepPortmap
  BY <1>1 DEF KeepPortmap, switch, timing, rotation, causes, BrLoopInv, TypeOK,
     ChosenOK, RecordedIsBlocked, NoStaleReport
<1>2. CASE ResetPortmap(bad)
  <2>1. /\ stp' \in [Ports -> {BLOCK, FORWARD}]
        /\ \A p \in Ports : stp[p] = FORWARD => stp'[p] = FORWARD
    BY <1>2, ReEnableOpens DEF ResetPortmap, BrLoopInv, TypeOK
  <2>2. /\ loopFlag' = loopFlag /\ seen' = seen /\ disablePort' = NoPort
        /\ initialized' = FALSE /\ tp_change' = TRUE /\ unreset' = FALSE
        /\ tp_time_out' = tp_time_out
        /\ UNCHANGED <<cur_dis_port, try, br_loop, unblocked, uncleared>>
    BY <1>2 DEF ResetPortmap
  <2>3. localTc' \in BOOLEAN
    BY <1>2, WrittenBit DEF ResetPortmap, BrLoopInv, TypeOK
  <2>4. ChosenOK' /\ RecordedIsBlocked' /\ NoStaleReport'
    BY <2>1, <2>2 DEF BrLoopInv, TypeOK, ChosenOK, RecordedIsBlocked, NoStaleReport
  <2> QED BY <2>1, <2>2, <2>3, <2>4 DEF BrLoopInv, TypeOK
<1> QED BY <1>1, <1>2

\* Every step of the daemon, of the bridge and of the world keeps it.
LEMMA NextBrLoopInv == BrLoopInv /\ [Next]_vars => BrLoopInv'
<1> SUFFICES ASSUME BrLoopInv, [Next]_vars PROVE BrLoopInv'
  OBVIOUS
<1> USE CountsAssumption
<1> USE DEF causes, history
<1>0. CASE InitStatus
  <2>1. PICK bad \in BOOLEAN : /\ Step(bad) /\ ReEnableDisPort(stp, stp', bad)
                               /\ localTc' \in Written(FALSE, TRUE, bad)
    BY <1>0 DEF InitStatus
  <2>2. /\ stp' \in [Ports -> {BLOCK, FORWARD}]
        /\ \A p \in Ports : stp[p] = FORWARD => stp'[p] = FORWARD
    BY <2>1, ReEnableOpens DEF BrLoopInv, TypeOK
  <2>3. failures' \in 0 .. MaxFailures /\ localTc' \in BOOLEAN
    BY <2>1, StepBound, WrittenBit DEF BrLoopInv, TypeOK
  <2>4. /\ pc = "init" /\ pc' = "top" /\ unreset' = localTc' /\ disablePort' = NoPort
        /\ initialized' = FALSE /\ tp_change' = FALSE
        /\ UNCHANGED <<world, loopFlag, seen, check, tp_time_out, mode>>
        /\ UNCHANGED <<cur_dis_port, try, br_loop, unblocked, uncleared>>
    BY <1>0 DEF InitStatus
  <2>5. TypeOK'
    BY <2>2, <2>3, <2>4 DEF world, check, BrLoopInv, TypeOK
  <2>6. CountersOK' /\ ChosenOK' /\ RecordedIsBlocked' /\ NoStaleReport'
    BY <2>2, <2>4 DEF BrLoopInv, TypeOK, CountersOK, ChosenOK, RecordedIsBlocked, NoStaleReport
  <2> QED BY <2>5, <2>6 DEF BrLoopInv
<1>1. CASE Aging
  <2>1. tp_time_out' \in 0 .. AgingTime /\ tp_change' \in BOOLEAN
    <3>1. CASE tp_change /\ tp_time_out + 1 > AgingTime
      <4>1. tp_change' = FALSE /\ tp_time_out' = 0
        BY <1>1, <3>1 DEF Aging
      <4>2. 0 \in 0 .. AgingTime
        OBVIOUS
      <4> QED BY <4>1, <4>2, Zenon
    <3>2. CASE ~(tp_change /\ tp_time_out + 1 > AgingTime)
      <4>1. /\ tp_time_out' = IF tp_change THEN tp_time_out + 1 ELSE tp_time_out
            /\ tp_change' = tp_change
        BY <1>1, <3>2 DEF Aging
      <4> QED BY <4>1, <3>2 DEF BrLoopInv, TypeOK
    <3> QED BY <3>1, <3>2
  <2>2. localTc' \in BOOLEAN /\ unreset' \in BOOLEAN /\ failures' \in 0 .. MaxFailures
    <3>1. CASE tp_change /\ tp_time_out + 1 > AgingTime
      <4>1. PICK bad \in BOOLEAN : Step(bad) /\ localTc' \in Written(FALSE, localTc, bad)
        BY <1>1, <3>1 DEF Aging
      <4>2. unreset' = localTc'
        BY <1>1, <3>1 DEF Aging
      <4> QED BY <4>1, <4>2, StepBound, WrittenBit DEF BrLoopInv, TypeOK
    <3>2. CASE ~(tp_change /\ tp_time_out + 1 > AgingTime)
      BY <1>1, <3>2 DEF Aging, BrLoopInv, TypeOK
    <3> QED BY <3>1, <3>2
  <2>3. /\ pc = "top" /\ pc' \in {"ports", "loop"}
        /\ pc' = "loop" => ~(checkTime >= PhyInterval)
        /\ UNCHANGED <<stp, loopFlag, seen, world, check, rotation, mode>>
        /\ UNCHANGED <<unblocked, uncleared>>
    BY <1>1 DEF Aging
  <2>4. TypeOK'
    BY <2>1, <2>2, <2>3 DEF world, check, rotation, BrLoopInv, TypeOK
  <2>5. CountersOK'
    BY <2>3 DEF check, BrLoopInv, TypeOK, CountersOK
  <2>6. ChosenOK' /\ RecordedIsBlocked' /\ NoStaleReport'
    BY <2>3 DEF rotation, BrLoopInv, ChosenOK, RecordedIsBlocked, NoStaleReport
  <2> QED BY <2>4, <2>5, <2>6 DEF BrLoopInv
<1>2. CASE CheckPorts
  <2>1. PICK bad \in BOOLEAN :
          Step(bad) /\ PortStatus(bad) /\ (ResetPortmap(bad) \/ KeepPortmap)
    BY <1>2, Zenon DEF CheckPorts
  <2>2. prePortLink' \in [Ports -> {NUL, EOF, 0, 1}] /\ dropped' \in [Ports -> BOOLEAN]
    BY <2>1 DEF PortStatus, LinkByte, BrLoopInv, TypeOK
  <2>3. /\ pc = "ports" /\ pc' = "wireless"
        /\ UNCHANGED <<link, looped, assoc, joined, wps, events>>
        /\ UNCHANGED <<ifw_status, checkTime, mode>>
    BY <1>2 DEF CheckPorts
  <2>4. failures' \in 0 .. MaxFailures
    BY <2>1, StepBound DEF BrLoopInv, TypeOK
  <2>5. TypeOK'
    BY <2>1, <2>2, <2>3, <2>4, PortmapInv DEF BrLoopInv, TypeOK
  <2> QED BY <2>1, <2>3, <2>5, PortmapInv DEF BrLoopInv, CountersOK
<1>3. CASE CheckWireless
  <2>1. PICK bad \in BOOLEAN :
          Step(bad) /\ ifw_status' \in StationLinkStatus(bad) /\ (ResetPortmap(bad) \/ KeepPortmap)
    BY <1>3, Zenon DEF CheckWireless
  <2>2. ifw_status' \in BOOLEAN
    BY <2>1 DEF StationLinkStatus, BrLoopInv, TypeOK
  <2>3. /\ pc = "wireless" /\ pc' = "loop" /\ checkTime' = 0
        /\ prePortLink' = prePortLink /\ mode' = mode
        /\ UNCHANGED <<link, dropped, looped, assoc, joined, wps, events>>
    BY <1>3 DEF CheckWireless, world
  <2>4. failures' \in 0 .. MaxFailures
    BY <2>1, StepBound DEF BrLoopInv, TypeOK
  <2>5. TypeOK'
    BY <2>1, <2>2, <2>3, <2>4, PortmapInv DEF BrLoopInv, TypeOK
  <2> QED BY <2>1, <2>3, <2>5, PortmapInv DEF BrLoopInv, CountersOK
<1>4. CASE CheckLoop
  <2>1. /\ checkTime' \in 0 .. PhyInterval /\ try' \in 0 .. Tries
        /\ pc' = "read" => try' = 0
    <3>1. checkTime' = checkTime + 1 /\ pc = "loop"
      BY <1>4 DEF CheckLoop
    <3>2. (pc' = "top" /\ try' = try) \/ try' = 0
      BY <1>4, Zenon DEF CheckLoop
    <3> QED BY <3>1, <3>2 DEF BrLoopInv, TypeOK, CountersOK
  <2>2. (loopFlag' = FALSE \/ loopFlag' = loopFlag) /\ failures' \in 0 .. MaxFailures
    <3>1. CASE wps
      <4>1. PICK bad \in BOOLEAN : Step(bad) /\ loopFlag' \in Written(FALSE, loopFlag, bad)
        BY <1>4, <3>1 DEF CheckLoop
      <4> QED BY <4>1, StepBound DEF Written, BrLoopInv, TypeOK
    <3>2. CASE ~wps
      BY <1>4, <3>2 DEF CheckLoop, BrLoopInv, TypeOK
    <3> QED BY <3>1, <3>2
  <2>3. /\ pc = "loop" /\ pc' \in {"top", "read"}
        /\ UNCHANGED <<stp, seen, localTc, prePortLink, ifw_status>>
        /\ UNCHANGED <<disablePort, initialized, cur_dis_port, br_loop, world, timing, mode>>
        /\ UNCHANGED causes
    BY <1>4 DEF CheckLoop
  <2>4. TypeOK'
    <3>1. loopFlag' \in BOOLEAN
      BY <2>2 DEF BrLoopInv, TypeOK
    <3> QED BY <2>1, <2>2, <2>3, <3>1 DEF world, timing, BrLoopInv, TypeOK
  <2>5. CountersOK'
    BY <2>1, <2>3 DEF CountersOK
  <2>6. ChosenOK' /\ RecordedIsBlocked' /\ NoStaleReport'
    BY <2>2, <2>3 DEF BrLoopInv, ChosenOK, RecordedIsBlocked, NoStaleReport
  <2> QED BY <2>4, <2>5, <2>6 DEF BrLoopInv
<1>5. CASE WirelessCrash \/ LoopGiveUp
  <2>1. failures' \in 0 .. MaxFailures
    BY <1>5, StepBound DEF WirelessCrash, LoopGiveUp, BrLoopInv, TypeOK
  <2>2. /\ pc' = "exited" /\ pc \in {"wireless", "read"}
        /\ UNCHANGED <<world, switch, check, timing, rotation, mode, causes>>
    BY <1>5 DEF WirelessCrash, LoopGiveUp
  <2>3. TypeOK'
    BY <2>1, <2>2 DEF world, switch, check, timing, rotation, BrLoopInv, TypeOK
  <2>4. CountersOK' /\ ChosenOK'
    BY <2>2 DEF switch, check, rotation, BrLoopInv, CountersOK, ChosenOK
  <2>5. RecordedIsBlocked' /\ NoStaleReport'
    BY <2>2 DEF switch, rotation, BrLoopInv, RecordedIsBlocked, NoStaleReport
  <2> QED BY <2>3, <2>4, <2>5 DEF BrLoopInv
<1>12. CASE LoopNone
  <2>1. failures' \in 0 .. MaxFailures /\ br_loop' \in BOOLEAN
    BY <1>12, StepBound, WrittenBit DEF LoopNone, ReadFlag, BrLoopInv, TypeOK
  <2> QED
    BY <1>12, <2>1 DEF LoopNone, world, switch, check, timing,
       BrLoopInv, TypeOK, CountersOK, ChosenOK, RecordedIsBlocked, NoStaleReport
<1>6. CASE LoopFound
  <2>a. PICK bad \in BOOLEAN :
          /\ Step(bad) /\ ReadFlag(bad)
          /\ ReEnableDisPort(stp, stp', bad) \/ UNCHANGED stp
    BY <1>6, Zenon DEF LoopFound
  <2>1. /\ stp' \in [Ports -> {BLOCK, FORWARD}]
        /\ \A p \in Ports : stp[p] = FORWARD => stp'[p] = FORWARD
    BY <2>a, ReEnableOpens DEF BrLoopInv, TypeOK
  <2>b. failures' \in 0 .. MaxFailures /\ br_loop' \in BOOLEAN
    BY <2>a, StepBound, WrittenBit DEF ReadFlag, BrLoopInv, TypeOK
  <2>2. /\ pc = "read" /\ pc' = "block" /\ disablePort' = cur_dis_port
        /\ initialized' = TRUE
        /\ UNCHANGED <<loopFlag, seen, localTc, cur_dis_port, try>>
        /\ UNCHANGED <<world, check, timing, mode, causes>>
    BY <1>6 DEF LoopFound
  <2>3. TypeOK'
    BY <2>1, <2>b, <2>2 DEF world, check, timing, BrLoopInv, TypeOK
  <2>4. CountersOK' /\ ChosenOK'
    BY <2>2 DEF check, BrLoopInv, TypeOK, CountersOK, ChosenOK, Ports, NoPort
  <2>5. RecordedIsBlocked' /\ NoStaleReport'
    BY <2>1, <2>2 DEF BrLoopInv, TypeOK, ChosenOK, RecordedIsBlocked, NoStaleReport
  <2> QED BY <2>3, <2>4, <2>5 DEF BrLoopInv
<1>7. CASE LoopBlock
  <2>1. PICK bad \in BOOLEAN :
          /\ Step(bad)
          /\ stp' = IF bad THEN stp ELSE [stp EXCEPT ![disablePort] = BLOCK]
          /\ unblocked' = bad
    BY <1>7 DEF LoopBlock
  <2>2. failures' \in 0 .. MaxFailures
    BY <2>1, StepBound DEF BrLoopInv, TypeOK
  <2> QED
    BY <1>7, <2>1, <2>2 DEF LoopBlock, world, check, timing, rotation, BrLoopInv, TypeOK,
       CountersOK, ChosenOK, RecordedIsBlocked, NoStaleReport
<1>8. CASE LoopClear
  <2>1. NextPort(cur_dis_port) \in Ports
    BY DEF NextPort, Ports, BrLoopInv, TypeOK
  <2>2. /\ try' \in 0 .. Tries /\ tp_time_out' \in 0 .. AgingTime
        /\ pc' = "read" => try' < Tries
    BY <1>8 DEF LoopClear, BrLoopInv, TypeOK, CountersOK
  <2>a. PICK bad \in BOOLEAN : /\ Step(bad)
                               /\ loopFlag' = IF bad THEN loopFlag ELSE FALSE
                               /\ uncleared' = bad
    BY <1>8 DEF LoopClear
  <2>b. /\ failures' \in 0 .. MaxFailures
        /\ loopFlag' \in BOOLEAN /\ uncleared' \in BOOLEAN
        /\ loopFlag' => loopFlag /\ uncleared'
    BY <2>a, StepBound DEF BrLoopInv, TypeOK
  <2>3. /\ pc = "clear" /\ pc' \in {"read", "top"}
        /\ tp_change' = TRUE /\ unreset' = FALSE
        /\ cur_dis_port' = NextPort(cur_dis_port)
        /\ UNCHANGED <<stp, seen, localTc, disablePort, initialized, br_loop>>
        /\ UNCHANGED <<world, check, mode, unblocked>>
    BY <1>8 DEF LoopClear
  <2>4. TypeOK'
    <3>1. tp_change' \in BOOLEAN /\ unreset' \in BOOLEAN /\ cur_dis_port' \in Ports
      BY <2>1, <2>3
    <3>2. /\ stp' \in [Ports -> {BLOCK, FORWARD}] /\ seen' \in Ports \cup {NoPort}
          /\ localTc' \in BOOLEAN /\ disablePort' \in Ports \cup {NoPort}
          /\ initialized' \in BOOLEAN /\ br_loop' \in BOOLEAN /\ unblocked' \in BOOLEAN
      BY <2>3 DEF BrLoopInv, TypeOK
    <3> QED BY <2>2, <2>3, <2>b, <3>1, <3>2 DEF world, check, BrLoopInv, TypeOK
  <2>5. CountersOK'
    BY <2>2, <2>3 DEF CountersOK
  <2>6. ChosenOK' /\ RecordedIsBlocked' /\ NoStaleReport'
    BY <2>3, <2>b DEF BrLoopInv, ChosenOK, RecordedIsBlocked, NoStaleReport
  <2> QED BY <2>4, <2>5, <2>6 DEF BrLoopInv
<1>9. CASE BridgeDetect
  <2>1. /\ looped # NoPort /\ stp[looped] = FORWARD /\ loopFlag' = TRUE /\ seen' = looped
        /\ uncleared' = FALSE /\ UNCHANGED <<stp, localTc, world, daemonVars>>
    BY <1>9 DEF BridgeDetect
  <2>2. TypeOK'
    <3>1. loopFlag' \in BOOLEAN /\ uncleared' \in BOOLEAN /\ seen' \in Ports \cup {NoPort}
      BY <2>1 DEF BrLoopInv, TypeOK
    <3>2. localTc' \in BOOLEAN /\ stp' \in [Ports -> {BLOCK, FORWARD}]
      BY <2>1 DEF BrLoopInv, TypeOK
    <3> QED
      BY <2>1, <3>1, <3>2 DEF world, daemonVars, check, timing, rotation, BrLoopInv, TypeOK
  <2>3. CountersOK' /\ ChosenOK'
    BY <2>1 DEF daemonVars, check, rotation, BrLoopInv, CountersOK, ChosenOK
  <2>4. RecordedIsBlocked' /\ NoStaleReport'
    BY <2>1 DEF daemonVars, rotation, BrLoopInv, RecordedIsBlocked, NoStaleReport
  <2> QED BY <2>2, <2>3, <2>4 DEF BrLoopInv
<1>10. CASE World
  <2>1. UNCHANGED <<switch, uncleared, daemonVars>>
    BY <1>10 DEF World, LoopCable, LinkDown, LinkUp, RadioChange, WpsChange
  <2>2. events' \in Nat
    BY <1>10 DEF World, LoopCable, LinkDown, LinkUp, RadioChange, WpsChange,
       Event, BrLoopInv, TypeOK
  <2>3. /\ link' \in [Ports -> BOOLEAN] /\ dropped' \in [Ports -> BOOLEAN]
        /\ looped' \in Ports \cup {NoPort}
    <3>1. CASE RadioChange \/ WpsChange
      BY <3>1 DEF RadioChange, WpsChange, BrLoopInv, TypeOK
    <3>2. ASSUME NEW p \in CablePorts, LoopCable(p) \/ LinkUp(p) \/ LinkDown(p)
          PROVE  /\ link' \in [Ports -> BOOLEAN] /\ dropped' \in [Ports -> BOOLEAN]
                 /\ looped' \in Ports \cup {NoPort}
      BY <3>2, BoundAssumption
      DEF LoopCable, LinkUp, LinkDown, BrLoopInv, TypeOK, Ports
    <3> QED BY <1>10, <3>1, <3>2 DEF World
  <2>4. assoc' \in BOOLEAN /\ joined' \in BOOLEAN /\ wps' \in BOOLEAN
    BY <1>10 DEF World, LoopCable, LinkDown, LinkUp, RadioChange, WpsChange,
       BrLoopInv, TypeOK
  <2> QED BY <2>1, <2>2, <2>3, <2>4 DEF switch, daemonVars, check, timing, rotation,
       BrLoopInv, TypeOK, CountersOK, ChosenOK, RecordedIsBlocked, NoStaleReport
<1>11. CASE UNCHANGED vars
  BY <1>11 DEF vars, world, switch, check, timing, rotation, BrLoopInv, TypeOK,
     CountersOK, ChosenOK, RecordedIsBlocked, NoStaleReport
<1> QED
  BY <1>0, <1>1, <1>2, <1>3, <1>4, <1>5, <1>6, <1>7, <1>8, <1>9, <1>10, <1>11, <1>12
  DEF Next, Daemon

\* The invariant of the daemon holds in every state of every behaviour.
THEOREM BrLoopInvariant == Spec => []BrLoopInv
BY InitBrLoopInv, NextBrLoopInv, PTL DEF Spec

\* Every variable keeps its type: the counters of the rounds, of the aging
\* time and of the tries stay in their ranges.
THEOREM BrLoopTypeCorrect == Spec => []TypeOK
BY BrLoopInvariant, PTL DEF BrLoopInv

\* The port the daemon remembers as disabled is blocked, unless the command that
\* was to block it has failed.
THEOREM BrLoopRecordedIsBlocked == Spec => []RecordedIsBlocked
BY BrLoopInvariant, PTL DEF BrLoopInv

\* The flag the daemon reads was set through a port that is still open, or the
\* command that was to clear it has failed.
THEOREM BrLoopNoStaleReport == Spec => []NoStaleReport
BY BrLoopInvariant, PTL DEF BrLoopInv

-----------------------------------------------------------------------------
(* Which ports are opened again *)

\* What reEnableDisPort makes of the proc file: the byte it takes for port 0 is
\* the state of port 3, port 1 gets its own, port 2 the terminating NUL, and for
\* port 3 there is no byte left.
LEMMA ReEnabledPorts ==
  ASSUME NEW s \in [Ports -> {BLOCK, FORWARD}]
  PROVE  /\ 0 \in ReEnabled(s) <=> s[3] = BLOCK
         /\ 1 \in ReEnabled(s) <=> s[1] = BLOCK
         /\ 2 \in ReEnabled(s)
         /\ 3 \notin ReEnabled(s)
<1> DEFINE text == <<s[3], s[2], s[1], s[0], NUL>>
<1>1. Len(text) = 5 /\ text[1] = s[3] /\ text[3] = s[1] /\ text[5] = NUL
  OBVIOUS
<1>2. NUL # FORWARD /\ BLOCK # FORWARD
  BY DEF NUL, FORWARD, BLOCK
<1>3. s[3] \in {BLOCK, FORWARD} /\ s[1] \in {BLOCK, FORWARD}
  BY DEF Ports
<1>4. ReEnabled(s) = {i \in Ports : 2 * i + 1 <= Len(text) /\ text[2 * i + 1] # FORWARD}
  BY DEF ReEnabled
<1> HIDE DEF text
<1>5. 2 * 0 + 1 = 1 /\ 2 * 1 + 1 = 3 /\ 2 * 2 + 1 = 5 /\ 2 * 3 + 1 = 7
  OBVIOUS
<1> QED
  BY <1>1, <1>2, <1>3, <1>4, <1>5 DEF Ports

\* Each step writes the switch by reEnableDisPort, by blocking the chosen port,
\* or not at all; what it does to the daemon's record of it.
SwitchWritten(bad) ==
  \/ UNCHANGED <<stp, disablePort, initialized>> /\ (pc' = "init" <=> pc = "init")
  \/ /\ ReEnableDisPort(stp, stp', bad) /\ disablePort' = NoPort /\ ~initialized'
     /\ pc' # "init"
  \/ /\ disablePort' = cur_dis_port /\ initialized'
     /\ IF initialized THEN ReEnableDisPort(stp, stp', bad) ELSE UNCHANGED stp
     /\ pc # "init" /\ pc' # "init"
  \/ /\ UNCHANGED <<disablePort, initialized>>
     /\ disablePort \in Ports
     /\ stp' = [stp EXCEPT ![disablePort] = BLOCK]
     /\ pc # "init" /\ pc' # "init"

\* Every step of the specification is one of these, and bad steps are counted.
LEMMA SwitchStep ==
  ASSUME BrLoopInv, [Next]_vars
  PROVE  \E bad \in BOOLEAN :
           SwitchWritten(bad) /\ failures' \in Nat /\ (failures' = 0 => ~bad /\ failures = 0)
<1> USE DEF world, switch, check, timing, rotation, causes, history, daemonVars
<1>a. failures \in Nat
  BY BoundAssumption DEF BrLoopInv, TypeOK
<1>b. ASSUME NEW bad \in BOOLEAN, Step(bad)
      PROVE  failures' \in Nat /\ (failures' = 0 => ~bad /\ failures = 0)
  BY <1>a, <1>b DEF Step
<1>c. failures' = failures => failures' \in Nat /\ (failures' = 0 => failures = 0)
  BY <1>a
<1>0. CASE InitStatus
  <2>1. PICK bad \in BOOLEAN : Step(bad) /\ ReEnableDisPort(stp, stp', bad)
    BY <1>0 DEF InitStatus
  <2>2. disablePort' = NoPort /\ ~initialized' /\ pc' # "init"
    BY <1>0 DEF InitStatus
  <2> QED BY <2>1, <2>2, <1>b DEF SwitchWritten
<1>1. CASE Aging \/ CheckLoop \/ LoopNone \/ LoopClear \/ LoopGiveUp \/ WirelessCrash
  <2>1. UNCHANGED <<stp, disablePort, initialized>> /\ pc # "init" /\ pc' # "init"
    BY <1>1 DEF Aging, CheckLoop, LoopNone, LoopClear, LoopGiveUp, WirelessCrash
  <2>2. failures' = failures \/ \E bad \in BOOLEAN : Step(bad)
    BY <1>1, Zenon DEF Aging, CheckLoop, LoopNone, LoopClear, LoopGiveUp, WirelessCrash
  <2> QED BY <2>1, <2>2, <1>b, <1>c DEF SwitchWritten
<1>2. CASE CheckPorts \/ CheckWireless
  <2>1. PICK bad \in BOOLEAN : Step(bad) /\ (ResetPortmap(bad) \/ KeepPortmap)
    BY <1>2, Zenon DEF CheckPorts, CheckWireless
  <2>2. pc # "init" /\ pc' # "init"
    BY <1>2 DEF CheckPorts, CheckWireless
  <2> QED BY <2>1, <2>2, <1>b DEF ResetPortmap, KeepPortmap, SwitchWritten
<1>3. CASE LoopFound
  <2>1. PICK bad \in BOOLEAN :
          Step(bad) /\ IF initialized THEN ReEnableDisPort(stp, stp', bad) ELSE UNCHANGED stp
    BY <1>3 DEF LoopFound
  <2>2. disablePort' = cur_dis_port /\ initialized' /\ pc = "read" /\ pc' = "block"
    BY <1>3 DEF LoopFound
  <2> QED BY <2>1, <2>2, <1>b DEF SwitchWritten
<1>4. CASE LoopBlock
  <2>1. PICK bad \in BOOLEAN :
          Step(bad) /\ stp' = IF bad THEN stp ELSE [stp EXCEPT ![disablePort] = BLOCK]
    BY <1>4 DEF LoopBlock
  <2>2. /\ UNCHANGED <<disablePort, initialized>> /\ disablePort \in Ports
        /\ pc = "block" /\ pc' = "clear"
    BY <1>4 DEF LoopBlock, BrLoopInv, ChosenOK, TypeOK
  <2> QED BY <2>1, <2>2, <1>b DEF SwitchWritten
<1>5. CASE BridgeDetect \/ World \/ UNCHANGED vars
  <2>1. UNCHANGED <<stp, disablePort, initialized, pc, failures>>
    BY <1>5 DEF BridgeDetect, World, LoopCable, LinkDown, LinkUp, RadioChange, WpsChange, vars
  <2> QED BY <2>1, <1>c DEF SwitchWritten
<1> QED
  BY <1>0, <1>1, <1>2, <1>3, <1>4, <1>5 DEF Next, Daemon

\* Port 3 is blocked.
Port3Shut == stp[3] = BLOCK

\* reEnableDisPort opens every port it reads as closed, but it never gets to the
\* byte of port 3: a port 3 that was blocked once stays blocked for as long as
\* the daemon runs, however often "reset portmap" is done, and over a restart.
THEOREM BrLoopPort3StaysShut == Spec => [](Port3Shut => []Port3Shut)
<1>1. BrLoopInv /\ [Next]_vars /\ Port3Shut => Port3Shut'
  <2> SUFFICES ASSUME BrLoopInv, [Next]_vars, stp[3] = BLOCK
               PROVE  stp'[3] = BLOCK
    BY DEF Port3Shut
  <2>1. stp \in [Ports -> {BLOCK, FORWARD}] /\ 3 \in Ports
    BY DEF BrLoopInv, TypeOK, Ports
  <2>2. PICK bad \in BOOLEAN : SwitchWritten(bad)
    BY SwitchStep
  <2>3. CASE ReEnableDisPort(stp, stp', bad)
    <3>1. 3 \notin ReEnabled(stp)
      BY <2>1, ReEnabledPorts
    <3> QED
      BY <2>1, <2>3, <3>1 DEF ReEnableDisPort
  <2> QED
    BY <2>1, <2>2, <2>3 DEF SwitchWritten
<1> QED
  BY <1>1, BrLoopInvariant, PTL DEF Spec

\* Ports 1 and 2 are blocked only while the daemon remembers them as disabled,
\* as long as no command has failed.
OthersOpen ==
  failures = 0 /\ pc # "init" => \A p \in {1, 2} : stp[p] = BLOCK => disablePort = p

\* The ports whose byte reEnableDisPort reads in the right place, or takes for
\* closed always, are never left blocked but by a command that failed; also when
\* they were blocked as the daemon started.
THEOREM BrLoopOthersOpen == Spec => []OthersOpen
<1> DEFINE Inv == OthersOpen /\ (pc # "init" => (initialized <=> disablePort # NoPort))
<1>1. Init => Inv
  BY DEF Init, OthersOpen
<1>2. BrLoopInv /\ Inv /\ [Next]_vars => Inv'
  <2> SUFFICES ASSUME BrLoopInv, Inv, [Next]_vars PROVE Inv'
    OBVIOUS
  <2>1. /\ stp \in [Ports -> {BLOCK, FORWARD}] /\ cur_dis_port \in Ports
        /\ disablePort \in Ports \cup {NoPort}
    BY DEF BrLoopInv, TypeOK
  <2>2. NoPort \notin Ports /\ {1, 2} \subseteq Ports /\ BLOCK # FORWARD
    BY DEF NoPort, Ports, BLOCK, FORWARD
  <2>a. PICK bad \in BOOLEAN : SwitchWritten(bad) /\ (failures' = 0 => ~bad /\ failures = 0)
    BY SwitchStep
  <2>3. ReEnableDisPort(stp, stp', bad) /\ ~bad => \A p \in {1, 2} : stp'[p] = FORWARD
    <3> SUFFICES ASSUME ReEnableDisPort(stp, stp', bad), ~bad, NEW p \in {1, 2}
                 PROVE  stp'[p] = FORWARD
      OBVIOUS
    <3>1. stp' = [q \in Ports |-> IF q \in ReEnabled(stp) THEN FORWARD ELSE stp[q]]
      BY DEF ReEnableDisPort
    <3>2. p \in ReEnabled(stp) \/ stp[p] = FORWARD
      BY <2>1, <2>2, ReEnabledPorts
    <3> QED
      BY <3>1, <3>2, <2>2
  <2>4. CASE UNCHANGED <<stp, disablePort, initialized>> /\ (pc' = "init" <=> pc = "init")
    BY <2>4, <2>a DEF OthersOpen
  <2>5. CASE ReEnableDisPort(stp, stp', bad) /\ disablePort' = NoPort /\ ~initialized'
    BY <2>5, <2>a, <2>3, <2>2 DEF OthersOpen
  <2>6. CASE /\ disablePort' = cur_dis_port /\ initialized'
             /\ IF initialized THEN ReEnableDisPort(stp, stp', bad) ELSE UNCHANGED stp
             /\ pc # "init" /\ pc' # "init"
    <3>1. failures' = 0 => \A p \in {1, 2} : stp'[p] # BLOCK
      BY <2>6, <2>a, <2>3, <2>2 DEF OthersOpen
    <3> QED
      BY <3>1, <2>6, <2>1, <2>2 DEF OthersOpen
  <2>7. CASE /\ UNCHANGED <<disablePort, initialized>>
             /\ disablePort \in Ports
             /\ stp' = [stp EXCEPT ![disablePort] = BLOCK]
             /\ pc # "init" /\ pc' # "init"
    BY <2>7, <2>a, <2>1, <2>2 DEF OthersOpen
  <2> QED
    BY <2>4, <2>5, <2>6, <2>7, <2>a DEF SwitchWritten
<1>3. Inv => OthersOpen
  OBVIOUS
<1> QED
  BY <1>1, <1>2, <1>3, BrLoopInvariant, PTL DEF Spec

-----------------------------------------------------------------------------
(* The rotation and the aging time *)

\* How many ports the rotation blocks before it comes to port p.
Turns(p) == IF p >= cur_dis_port THEN p - cur_dis_port ELSE p - cur_dis_port + 4

\* The rotation leaves a port only when that port is blocked or the command that
\* was to block it failed, and with each port it leaves it is one closer to every
\* other.
RotationStep ==
  cur_dis_port' # cur_dis_port =>
    \A p \in Ports : IF p = cur_dis_port THEN stp[p] = BLOCK \/ unblocked
                     ELSE Turns(p)' = Turns(p) - 1

\* The safety half of LoopIsBroken: no port is skipped, so the looped port has
\* its turn at the latest with the fourth report, wherever the rotation was, and
\* across rounds, resets and failing commands; only when the very command that
\* blocks it fails is it passed by.
THEOREM BrLoopRotates == Spec => [][RotationStep]_vars
<1> DEFINE Chosen == pc \in {"block", "clear"} => disablePort = cur_dis_port
<1> USE DEF world, switch, check, timing, rotation, causes, history, daemonVars
<1>1. Init => Chosen
  BY DEF Init
<1>2. Chosen /\ [Next]_vars => Chosen'
  <2> SUFFICES ASSUME Chosen, [Next]_vars PROVE Chosen'
    OBVIOUS
  <2>1. CASE InitStatus \/ Aging \/ CheckLoop \/ LoopNone \/ LoopClear \/ LoopGiveUp
             \/ WirelessCrash
    BY <2>1 DEF InitStatus, Aging, CheckLoop, LoopNone, LoopClear, LoopGiveUp, WirelessCrash
  <2>2. CASE CheckPorts \/ CheckWireless \/ LoopFound \/ LoopBlock
    BY <2>2 DEF CheckPorts, CheckWireless, LoopFound, LoopBlock
  <2>3. CASE BridgeDetect \/ World \/ UNCHANGED vars
    BY <2>3 DEF BridgeDetect, World, LoopCable, LinkDown, LinkUp, RadioChange, WpsChange, vars
  <2> QED
    BY <2>1, <2>2, <2>3 DEF Next, Daemon
<1>3. BrLoopInv /\ Chosen /\ [Next]_vars => [RotationStep]_vars
  <2> SUFFICES ASSUME BrLoopInv, Chosen, [Next]_vars, cur_dis_port' # cur_dis_port
               PROVE  \A p \in Ports : IF p = cur_dis_port THEN stp[p] = BLOCK \/ unblocked
                                       ELSE Turns(p)' = Turns(p) - 1
    BY DEF RotationStep
  <2>1. LoopClear
    BY DEF Next, Daemon, InitStatus, WirelessCrash, Aging, CheckPorts, CheckWireless,
       CheckLoop, LoopNone, LoopFound, LoopBlock, LoopGiveUp, ResetPortmap, KeepPortmap, BridgeDetect, World, LoopCable,
       LinkDown, LinkUp, RadioChange, WpsChange, vars
  <2>2. cur_dis_port \in Ports /\ pc = "clear" /\ cur_dis_port' = NextPort(cur_dis_port)
    BY <2>1 DEF LoopClear, BrLoopInv, TypeOK
  <2>3. stp[cur_dis_port] = BLOCK \/ unblocked
    BY <2>2 DEF BrLoopInv, ChosenOK, RecordedIsBlocked
  <2>4. \A p \in Ports : p # cur_dis_port => Turns(p)' = Turns(p) - 1
    BY <2>2 DEF Turns, NextPort, Ports
  <2> QED
    BY <2>3, <2>4
<1> QED
  BY <1>1, <1>2, <1>3, BrLoopInvariant, PTL DEF Spec

\* A local topology change that was reported to the bridge is being timed, or the
\* command that was to end it failed; the count of a new one starts at 0.
ChangeIsTimed ==
  /\ pc # "init" /\ localTc => tp_change \/ unreset
  /\ ~tp_change => tp_time_out = 0

\* The safety half of TopologyChangeEnds: local_topology_change is a file of the
\* bridge and tp_change a variable of main, and no order of resets, blocked ports
\* and rounds leaves the one set without the other, only a failing reset does.
THEOREM BrLoopChangeIsTimed == Spec => []ChangeIsTimed
<1> DEFINE Inv == ChangeIsTimed /\ (pc = "init" => ~tp_change)
<1> USE DEF world, switch, check, timing, rotation, causes, history, daemonVars
<1>1. Init => Inv
  BY DEF Init, ChangeIsTimed
<1>2. BrLoopInv /\ Inv /\ [Next]_vars => Inv'
  <2> SUFFICES ASSUME BrLoopInv, Inv, [Next]_vars PROVE Inv'
    OBVIOUS
  <2>a. ASSUME UNCHANGED <<localTc, tp_change, tp_time_out, unreset>>,
               pc' = pc \/ (pc # "init" /\ pc' # "init")
        PROVE  Inv'
    BY <2>a, Zenon DEF ChangeIsTimed
  <2>0. CASE InitStatus
    <3>1. /\ unreset' = localTc' /\ tp_time_out' = tp_time_out /\ tp_change' = FALSE
          /\ pc = "init" /\ pc' = "top"
      BY <2>0, Zenon DEF InitStatus
    <3>2. tp_time_out = 0
      BY <3>1, Zenon DEF ChangeIsTimed
    <3>3. localTc' => unreset'
      BY <3>1, Zenon
    <3> QED BY <3>1, <3>2, <3>3, Zenon DEF ChangeIsTimed
  <2>1. CASE Aging
    <3>1. pc = "top" /\ pc' # "init"
      BY <2>1 DEF Aging
    <3>2. CASE tp_change /\ tp_time_out + 1 > AgingTime
      <4>1. unreset' = localTc' /\ tp_change' = FALSE /\ tp_time_out' = 0
        BY <2>1, <3>2, Zenon DEF Aging
      <4> QED BY <4>1, <3>1, Zenon DEF ChangeIsTimed
    <3>3. CASE ~(tp_change /\ tp_time_out + 1 > AgingTime)
      <4>1. /\ tp_time_out' = IF tp_change THEN tp_time_out + 1 ELSE tp_time_out
            /\ UNCHANGED <<localTc, tp_change, unreset>>
        BY <2>1, <3>3, Zenon DEF Aging
      <4> QED BY <4>1, <3>1, Zenon DEF ChangeIsTimed
    <3> QED BY <3>2, <3>3
  <2>2. CASE CheckPorts \/ CheckWireless
    <3>1. PICK bad \in BOOLEAN : ResetPortmap(bad) \/ KeepPortmap
      BY <2>2, Zenon DEF CheckPorts, CheckWireless
    <3>2. pc # "init" /\ pc' # "init"
      BY <2>2 DEF CheckPorts, CheckWireless
    <3>3. CASE ResetPortmap(bad)
      <4>1. tp_change' = TRUE
        BY <3>3 DEF ResetPortmap
      <4> QED BY <4>1, <3>2, Zenon DEF ChangeIsTimed
    <3>4. CASE KeepPortmap
      <4>1. UNCHANGED <<localTc, tp_change, tp_time_out, unreset>>
        BY <3>4 DEF KeepPortmap
      <4> QED BY <4>1, <3>2, <2>a
    <3> QED BY <3>1, <3>3, <3>4
  <2>3. CASE CheckLoop \/ LoopNone \/ LoopFound \/ LoopBlock \/ LoopGiveUp \/ WirelessCrash
    <3>1. UNCHANGED <<localTc, tp_change, tp_time_out, unreset>>
      BY <2>3 DEF CheckLoop, LoopNone, LoopFound, LoopBlock, LoopGiveUp, WirelessCrash
    <3>2. pc # "init" /\ pc' # "init"
      BY <2>3 DEF CheckLoop, LoopNone, LoopFound, LoopBlock, LoopGiveUp, WirelessCrash
    <3> QED BY <3>1, <3>2, <2>a
  <2>4. CASE LoopClear
    <3>1. tp_change' = TRUE /\ pc' # "init"
      BY <2>4 DEF LoopClear
    <3> QED BY <3>1, Zenon DEF ChangeIsTimed
  <2>5. CASE BridgeDetect \/ World \/ UNCHANGED vars
    <3>1. UNCHANGED <<localTc, tp_change, tp_time_out, unreset, pc>>
      BY <2>5 DEF BridgeDetect, World, LoopCable, LinkDown, LinkUp, RadioChange, WpsChange, vars
    <3> QED BY <3>1, <2>a
  <2> QED
    BY <2>0, <2>1, <2>2, <2>3, <2>4, <2>5 DEF Next, Daemon
<1>3. Inv => ChangeIsTimed
  OBVIOUS
<1> QED
  BY <1>1, <1>2, <1>3, BrLoopInvariant, PTL DEF Spec

=============================================================================
