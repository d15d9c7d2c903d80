----------------------------- MODULE WpsMonitor -----------------------------
(***************************************************************************)
(* The WPS status monitor (apps/hnap_wps_status_monitor) and the handlers  *)
(* of the web server that start and stop it                                *)
(* (apps/WebServer/hnap_config_metalink.c).  They share files without a    *)
(* lock: the status that HNAP clients read, the monitor's pid file, the    *)
(* two files of the WPS engine, and /var/wpsRunning, which keeps the DHCP  *)
(* client from asking for an address.                                      *)
(*                                                                         *)
(* Every start of the monitor is a process of its own.  The web server     *)
(* serves one request at a time.  The WPS engine and its scripts are not   *)
(* in the tree; they are modelled from the files the monitor reads.        *)
(***************************************************************************)
EXTENDS Integers

CONSTANTS
  MaxStarts,    \* bound: WPS requests, each starts a monitor
  MaxStops,     \* bound: stop requests
  WaitTries,    \* looks for /tmp/wps_current_status before it exists (60)
  MissTries,    \* looks for a file that has gone (10)
  EngineCodes,  \* what the engine writes to /tmp/wps_current_status
  LastCodes,    \* what it writes to /tmp/wps_last_code
  Prompt        \* no load: what takes milliseconds is over within a second

ASSUME BoundsAssumption == MaxStarts \in Nat /\ MaxStops \in Nat
ASSUME TriesAssumption == WaitTries \in Nat /\ MissTries \in Nat
ASSUME CodesAssumption == EngineCodes \subseteq Nat /\ LastCodes \subseteq Nat
ASSUME PromptAssumption == Prompt \in BOOLEAN

\* Values of /tmp/hnap_wps_status (10 to 13: errors the engine reports).
Idle == 0
Searching == 1
Registering == 2
Connecting == 3
WalkTimeout == 10
SessionTimeout == 11
Overlap == 12
ConnectFailure == 14
Connected == 99

EngineErrors == 10 .. 13

Absent == -1     \* a file that does not exist, or no process

Pids == 1 .. MaxStarts

VARIABLES
  mon,         \* the monitor processes
  hnap_wps_status, wps_current_status, wps_last_code,
  wpsRunning,  \* /var/wpsRunning exists
  pidfile,     \* /var/run/hnap_wps_status_monitor
  server,      \* where the web server is in its request
  started, stops,
  unheard,     \* history: a request to start did not signal the monitor that
               \* runs, or too early for it to hear; until all have ended
  engine       \* the WPS engine runs

files == <<hnap_wps_status, wps_current_status, wps_last_code, wpsRunning, pidfile>>
serverVars == <<server, started, stops, unheard>>
vars == <<mon, files, serverVars, engine>>

\* The local variables of a monitor that has not run yet.
NewMonitor ==
  [pc |-> "none", retry |-> 0, wps_status |-> Idle, gotSignal |-> FALSE]

Live(p) == mon[p].pc \notin {"none", "gone", "gaveup"}

\* The latest monitor returned from main without removing the files.
LeftBehind == started > 0 /\ mon[started].pc = "gaveup"

Init ==
  /\ mon = [p \in Pids |-> NewMonitor]
  /\ hnap_wps_status = Absent
  /\ wps_current_status = Absent
  /\ wps_last_code = Absent
  /\ wpsRunning = FALSE
  /\ pidfile = Absent
  /\ server = "idle"
  /\ started = 0
  /\ stops = 0
  /\ unheard = FALSE
  /\ engine = FALSE

-----------------------------------------------------------------------------
(* The web server *)

\* What the server may read from /tmp/hnap_wps_status: nothing when the file is
\* absent, just being written ("echo" empties it first), or cat does not run;
\* that counts as 0.
StatusSeen == {Idle} \cup ({hnap_wps_status} \ {Absent})

\* stop_wps_progress.sh: the engine stops; it "doesn't delete the
\* wps_current_status sometime".
EngineAbort ==
  /\ engine' = FALSE
  /\ wps_current_status' \in {Absent, wps_current_status}

\* A new monitor has written its pid file and the flag before the next request
\* looks for it.
Born == Prompt => \A p \in Pids : mon[p].pc \notin {"start", "flag"}

\* Steps 1 and 2 of hnap_active_wps_monitor: a WPS in progress is aborted.
AbortNeeded(c) == c # Idle /\ c \notin EngineErrors \cup {ConnectFailure}

StartAbort ==
  /\ server = "idle"
  /\ started < MaxStarts
  /\ \E c \in StatusSeen :
       IF AbortNeeded(c)
         THEN EngineAbort
         ELSE UNCHANGED <<engine, wps_current_status>>
  /\ server' = "startkill"
  /\ UNCHANGED <<mon, hnap_wps_status, wps_last_code, wpsRunning, pidfile>>
  /\ UNCHANGED <<started, stops, unheard>>

\* kill(atoi(buf), SIGUSR1).  A process that is gone is not signalled.
Kill(p) ==
  mon' = [mon EXCEPT ![p].gotSignal = @ \/ Live(p)]

\* Where a monitor has looked at the flag and is to sleep for 3 or 5 seconds: a
\* signal ends the sleep, but does not keep it from beginning.
Naps == {"nap", "look"}

\* Step 3: the monitor named by the pid file is told to end.  When popen fails
\* there is neither a signal nor a sleep.
StartKill ==
  /\ server = "startkill"
  /\ Born
  /\ \/ /\ pidfile = Absent
        /\ server' = "startnow"
        /\ UNCHANGED <<mon, unheard>>
     \/ /\ pidfile # Absent
        /\ server' = "startnow"
        /\ unheard' = (unheard \/ Live(pidfile))
        /\ UNCHANGED mon
     \/ /\ pidfile # Absent
        /\ server' = "startwait"
        /\ Kill(pidfile)
        /\ \E early \in BOOLEAN :
             /\ early => mon[pidfile].pc \in Naps
             /\ unheard' = (unheard \/ early)
  /\ UNCHANGED <<files, started, stops, engine>>

\* Mutant: the server does not sleep.
SleptMutant == TRUE

\* sleep(2) is over.  It is long enough for a monitor that hears the signal: its
\* other sleeps are of one second.
Slept ==
  server = "startwait" /\ Prompt /\ ~unheard =>
    \A p \in Pids : mon[p].gotSignal => ~Live(p)

\* Step 4: the old status is removed and a monitor is started.
StartMonitor ==
  /\ server \in {"startnow", "startwait"}
  /\ Slept
  /\ wps_current_status' = Absent
  /\ hnap_wps_status' = Idle
  /\ started' = started + 1
  /\ unheard' = (unheard /\ \E p \in Pids : Live(p))
  /\ mon' = [mon EXCEPT ![started + 1].pc = "start"]
  /\ server' = "launch"
  /\ UNCHANGED <<wps_last_code, wpsRunning, pidfile, stops, engine>>

\* hnap_do_wps_pbc, hnap_do_wps_pin: mtlk_wps_cmd.tcl is run in the
\* background.  It may fail to start the engine.
StartEngine ==
  /\ server = "launch"
  /\ engine' \in {engine, TRUE}
  /\ server' = "mark"
  /\ UNCHANGED <<mon, files, started, stops, unheard>>

\* After at most 15 looks for /tmp/wps_action, whatever they saw.
StartMark ==
  /\ server = "mark"
  /\ hnap_wps_status' = Searching
  /\ server' = "idle"
  /\ UNCHANGED <<mon, wps_current_status, wps_last_code, wpsRunning, pidfile>>
  /\ UNCHANGED <<started, stops, unheard, engine>>

\* hnap_stop_wps.  A status of 0, or none, means that there is nothing to stop.
\* (A popen of the status that fails crashes the server: no request follows.)
StopAbort ==
  /\ server = "idle"
  /\ stops < MaxStops
  /\ stops' = stops + 1
  /\ \E c \in StatusSeen :
       IF c = Idle
         THEN UNCHANGED <<engine, wps_current_status, wps_last_code, server>>
         ELSE EngineAbort /\ wps_last_code' = Absent /\ server' = "stopkill"
  /\ UNCHANGED <<mon, hnap_wps_status, wpsRunning, pidfile, started, unheard>>

\* There is no signal without a pid file, or when popen fails.
StopKill ==
  /\ server = "stopkill"
  /\ Born
  /\ UNCHANGED mon \/ (pidfile # Absent /\ Kill(pidfile))
  /\ server' = "idle"
  /\ UNCHANGED <<files, started, stops, unheard, engine>>

-----------------------------------------------------------------------------
(* The monitor *)

\* The waits of half a minute and more outlast the rest of the request that
\* started the monitor (15 looks, a second apart).
LongWait(p) == Prompt /\ p = started => server \notin {"launch", "mark"}

Goto(p, label) == mon' = [mon EXCEPT ![p].pc = label]

\* expose_wps_status: the monitor's status becomes c and is published.
Expose(p, c, label) ==
  /\ mon' = [mon EXCEPT ![p].wps_status = c, ![p].pc = label]
  /\ hnap_wps_status' = c

WritePid(p) ==
  /\ mon[p].pc = "start"
  /\ pidfile' = p
  /\ Goto(p, "flag")
  /\ UNCHANGED <<hnap_wps_status, wps_current_status, wps_last_code, wpsRunning>>
  /\ UNCHANGED <<serverVars, engine>>

SetRunning(p) ==
  /\ mon[p].pc = "flag"
  /\ wpsRunning' = TRUE
  /\ Goto(p, "wait")
  /\ UNCHANGED <<hnap_wps_status, wps_current_status, wps_last_code, pidfile>>
  /\ UNCHANGED <<serverVars, engine>>

WaitFound(p) ==
  /\ mon[p].pc = "wait"
  /\ wps_current_status # Absent
  /\ Goto(p, "watch")
  /\ UNCHANGED <<files, serverVars, engine>>

\* The file is not there yet.  The count is tested before the signal.
WaitMiss(p) ==
  /\ mon[p].pc = "wait"
  /\ wps_current_status = Absent
  /\ LET retry == mon[p].retry + 1 IN
       /\ retry > WaitTries => LongWait(p)
       /\ mon' = [mon EXCEPT ![p].retry = retry,
                             ![p].pc = IF retry > WaitTries THEN "gaveup"
                                       ELSE IF mon[p].gotSignal THEN "end"
                                       ELSE "wait"]
  /\ UNCHANGED <<files, serverVars, engine>>

\* The loops that look for the signal each time round.
Loops == {"watch", "delay", "connect", "failed", "last"}

\* Mutant: "continue" instead of "goto End".
InterruptedMutant(p) ==
  /\ mon[p].pc \in Loops
  /\ mon[p].gotSignal
  /\ UNCHANGED vars

\* if(gotSignal) goto End
Interrupted(p) ==
  /\ mon[p].pc \in Loops
  /\ mon[p].gotSignal
  /\ Goto(p, "end")
  /\ UNCHANGED <<files, serverVars, engine>>

At(p, label) == mon[p].pc = label /\ ~mon[p].gotSignal

\* The engine's status is passed on; success and errors end the loop.  (popen
\* may fail: then nothing changes and the loop goes on.)
WatchRead(p) ==
  /\ At(p, "watch")
  /\ wps_current_status # Absent
  /\ LET c == wps_current_status IN
       /\ mon' = [mon EXCEPT ![p].retry = 0, ![p].wps_status = c,
                             ![p].pc = IF c = Connecting THEN "connect"
                                       ELSE IF c \in EngineErrors THEN "delay"
                                       ELSE "watch"]
       /\ hnap_wps_status' = c
       /\ wpsRunning' = (wpsRunning /\ c \notin EngineErrors \cup {Connecting})
  /\ UNCHANGED <<wps_current_status, wps_last_code, pidfile, serverVars, engine>>

\* What follows the loop depends on the last status.
AfterWatch(c) ==
  IF c \in EngineErrors \cup {Connected} THEN "delay"
  ELSE IF c = Connecting THEN "connect"
  ELSE IF c \in {Searching, Registering} THEN "last"
  ELSE "end"

\* Mutant: a file that has gone is waited for without a limit.
WatchMissMutant(p) ==
  /\ At(p, "watch")
  /\ wps_current_status = Absent
  /\ UNCHANGED vars

\* The engine's file has gone: too often, or look again.
WatchMiss(p) ==
  /\ At(p, "watch")
  /\ wps_current_status = Absent
  /\ IF mon[p].retry + 1 > MissTries
       THEN /\ LongWait(p)
            /\ mon' = [mon EXCEPT ![p].retry = 0,
                                  ![p].pc = AfterWatch(mon[p].wps_status)]
            /\ wpsRunning' = FALSE
       ELSE /\ mon' = [mon EXCEPT ![p].retry = @ + 1, ![p].pc = "nap"]
            /\ UNCHANGED wpsRunning
  /\ UNCHANGED <<hnap_wps_status, wps_current_status, wps_last_code, pidfile>>
  /\ UNCHANGED <<serverVars, engine>>

\* sleep(3)
WatchNap(p) ==
  /\ mon[p].pc = "nap"
  /\ Goto(p, "watch")
  /\ UNCHANGED <<files, serverVars, engine>>

\* A minute or two for the HNAP client to see the final status.
DelayOver(p) ==
  /\ \/ At(p, "delay")
     \/ At(p, "failed")
  /\ LongWait(p)
  /\ Goto(p, "end")
  /\ UNCHANGED <<files, serverVars, engine>>

\* get_station_link_status() while waiting for the access point.
ConnectUp(p) ==
  /\ At(p, "connect")
  /\ mon[p].wps_status = Connecting
  /\ Expose(p, Connected, "connect")
  /\ UNCHANGED <<wps_current_status, wps_last_code, wpsRunning, pidfile>>
  /\ UNCHANGED <<serverVars, engine>>

\* The minute is over, whether the link came up or not.
ConnectOver(p) ==
  /\ At(p, "connect")
  /\ LongWait(p)
  /\ Expose(p, ConnectFailure, "failed")
  /\ UNCHANGED <<wps_current_status, wps_last_code, wpsRunning, pidfile>>
  /\ UNCHANGED <<serverVars, engine>>

\* The loop goes on to sleep(5); a signal does not keep the monitor from looking once more.
LastSleep(p) ==
  /\ At(p, "last")
  /\ Goto(p, "look")
  /\ UNCHANGED <<files, serverVars, engine>>

\* The reason why the engine ended, from its last code c and the last status.
Reason(c, status) ==
  IF c = 3 THEN Overlap
  ELSE IF status = Registering THEN SessionTimeout
  ELSE WalkTimeout

LastLook(p) ==
  /\ mon[p].pc = "look"
  /\ IF wps_last_code = Absent
       THEN /\ mon' = [mon EXCEPT ![p].retry = @ + 1,
                                  ![p].pc = IF mon[p].retry + 1 > MissTries
                                            THEN "end" ELSE "last"]
            /\ UNCHANGED hnap_wps_status
       ELSE IF wps_last_code \in {3, 4}
         THEN Expose(p, Reason(wps_last_code, mon[p].wps_status), "delay")
         ELSE Goto(p, "end") /\ UNCHANGED hnap_wps_status
  /\ UNCHANGED <<wps_current_status, wps_last_code, wpsRunning, pidfile>>
  /\ UNCHANGED <<serverVars, engine>>

\* Mutant: the last status stays.
EndStatusMutant(p) ==
  /\ mon[p].pc = "end"
  /\ Goto(p, "endfiles")
  /\ UNCHANGED <<files, serverVars, engine>>

\* End: the status, the engine's last code, the flag, the pid file, in this
\* order.
EndStatus(p) ==
  /\ mon[p].pc = "end"
  /\ Expose(p, Idle, "endfiles")
  /\ UNCHANGED <<wps_current_status, wps_last_code, wpsRunning, pidfile>>
  /\ UNCHANGED <<serverVars, engine>>

EndFiles(p) ==
  /\ mon[p].pc = "endfiles"
  /\ wps_last_code' = Absent
  /\ wpsRunning' = FALSE
  /\ Goto(p, "endpid")
  /\ UNCHANGED <<hnap_wps_status, wps_current_status, pidfile, serverVars, engine>>

EndPid(p) ==
  /\ mon[p].pc = "endpid"
  /\ pidfile' = Absent
  /\ Goto(p, "gone")
  /\ UNCHANGED <<hnap_wps_status, wps_current_status, wps_last_code, wpsRunning>>
  /\ UNCHANGED <<serverVars, engine>>

-----------------------------------------------------------------------------
(* The WPS engine *)

EngineReport ==
  /\ engine
  /\ wps_current_status' \in EngineCodes
  /\ UNCHANGED <<mon, hnap_wps_status, wps_last_code, wpsRunning, pidfile>>
  /\ UNCHANGED <<serverVars, engine>>

\* It ends with success, an error or without a status, leaves the file with
\* whatever it wrote last ("doesn't delete the wps_current_status sometime"), and
\* gives a last code or none.
EngineEnd ==
  /\ engine
  /\ engine' = FALSE
  /\ wps_current_status' \in {Absent, wps_current_status} \cup
       {c \in EngineCodes : c \in EngineErrors \cup {Connecting}}
  /\ wps_last_code' \in LastCodes \cup {Absent}
  /\ UNCHANGED <<mon, hnap_wps_status, wpsRunning, pidfile, serverVars>>

-----------------------------------------------------------------------------
StartRequest ==
  StartAbort \/ StartKill \/ StartMonitor \/ StartEngine \/ StartMark

StopRequest == StopAbort \/ StopKill

Monitor(p) ==
  \/ WritePid(p) \/ SetRunning(p) \/ WaitFound(p) \/ WaitMiss(p)
  \/ Interrupted(p) \/ WatchRead(p) \/ WatchMiss(p) \/ WatchNap(p) \/ DelayOver(p)
  \/ ConnectUp(p) \/ ConnectOver(p) \/ LastSleep(p) \/ LastLook(p)
  \/ EndStatus(p) \/ EndFiles(p) \/ EndPid(p)

Next ==
  \/ StartRequest \/ StopRequest
  \/ \E p \in Pids : Monitor(p)
  \/ EngineReport \/ EngineEnd

Spec == Init /\ [][Next]_vars

\* A request that has begun is served to its end, the monitors are scheduled,
\* and the engine ends (its walk time is two minutes).
Fairness ==
  /\ WF_vars(StartKill \/ StartMonitor \/ StartEngine \/ StartMark \/ StopKill)
  /\ WF_vars(EngineEnd)
  /\ \A p \in Pids : WF_vars(Monitor(p))

FairSpec == Spec /\ Fairness

-----------------------------------------------------------------------------
Codes == {Idle, ConnectFailure, Connected, Overlap, SessionTimeout, WalkTimeout}
           \cup EngineCodes \cup {Searching}

TypeOK ==
  /\ mon \in [Pids ->
       [pc : {"none", "start", "flag", "wait", "watch", "nap", "delay", "connect",
              "failed", "last", "look", "end", "endfiles", "endpid", "gone",
              "gaveup"},
        retry : 0 .. WaitTries + MissTries + 1,
        wps_status : Codes, gotSignal : BOOLEAN]]
  /\ hnap_wps_status \in Codes \cup {Absent}
  /\ wps_current_status \in EngineCodes \cup {Absent}
  /\ wps_last_code \in LastCodes \cup {Absent}
  /\ wpsRunning \in BOOLEAN
  /\ pidfile \in Pids \cup {Absent}
  /\ server \in {"idle", "startkill", "startwait", "startnow", "launch", "mark",
                 "stopkill"}
  /\ started \in 0 .. MaxStarts
  /\ stops \in 0 .. MaxStops
  /\ unheard \in BOOLEAN
  /\ engine \in BOOLEAN

\* "Detect whether has another WPS status monitor is running.., If yes, then
\* just kill it": at most one monitor runs, since two would overwrite each
\* other's status and remove each other's files; and the pid file names it from
\* its first step to its last, so that a request to stop finds it.  Two things
\* let two of them run, until both have ended: popen of the pid file fails, so
\* that no signal is sent, or the signal finds the monitor between its look at
\* the flag and a sleep longer than the server's.
OneMonitor ==
  /\ TypeOK
  /\ ~unheard =>
       /\ \A p, q \in Pids : Live(p) /\ Live(q) => p = q
       /\ \A p \in Pids : Live(p) /\ mon[p].pc # "start" => pidfile = p

\* When no monitor runs, nothing holds the DHCP client off, and once the
\* request that is being served is over HNAP clients read IDLE; also after two
\* monitors have run at once.  The exception is a monitor that gave up waiting
\* for the engine, which leaves /var/wpsRunning and the status behind.
RestIsClean ==
  (\A p \in Pids : ~Live(p)) =>
    \/ LeftBehind
    \/ ~wpsRunning /\ (server = "idle" => hnap_wps_status \in {Absent, Idle})

\* A monitor that is told to end ends, in whichever of its waits it is.
SignalledEnds ==
  \A p \in Pids : mon[p].gotSignal ~> ~Live(p)

\* The engine has gone and left a status that is not a final one.
StatusLeft == ~engine /\ wps_current_status \in {Searching, Registering}

\* The DHCP client is let go in the end, unless the monitor gave up or watches a
\* status that the engine has left behind: that loop has no limit.
HoldEnds == wpsRunning ~> (~wpsRunning \/ LeftBehind \/ StatusLeft)
=============================================================================
