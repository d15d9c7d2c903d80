-------------------------- MODULE WpsMonitor_proofs --------------------------
(***************************************************************************)
(* Proofs about the WPS status monitors and the web server's requests, for *)
(* any number of requests, any number of looks at the files and any codes  *)
(* of the engine.                                                          *)
(***************************************************************************)
EXTENDS WpsMonitor, TLAPS

Labels ==
  {"none", "start", "flag", "wait", "watch", "nap", "delay", "connect", "failed", "last",
   "look", "end", "endfiles", "endpid", "gone", "gaveup"}

Retries == 0 .. WaitTries + MissTries + 1

Monitors == [pc : Labels, retry : Retries, wps_status : Codes, gotSignal : BOOLEAN]

\* A step changes the local variables of monitor p and of no other.
Becomes(p, label, n, c, signal) ==
  /\ mon' \in [Pids -> Monitors]
  /\ mon'[p].pc = label
  /\ mon'[p].retry = n
  /\ mon'[p].wps_status = c
  /\ mon'[p].gotSignal = signal
  /\ \A q \in Pids : q # p => mon'[q] = mon[q]

\* The types of a monitor's variables, with the bounds on the count of looks
\* that each of its loops keeps.
Local(r) ==
  /\ r \in Monitors
  /\ r.pc \in {"none", "start", "flag"} => r.retry = 0
  /\ r.pc = "none" => ~r.gotSignal
  /\ r.pc = "wait" => r.retry <= WaitTries
  /\ r.pc \in {"last", "look"} => r.retry <= MissTries

MonitorTypes == mon \in [Pids -> Monitors] /\ \A p \in Pids : Local(mon[p])

FileTypes ==
  /\ hnap_wps_status \in Codes \cup {Absent}
  /\ wps_current_status \in EngineCodes \cup {Absent}
  /\ wps_last_code \in LastCodes \cup {Absent}
  /\ wpsRunning \in BOOLEAN
  /\ pidfile \in Pids \cup {Absent}
  /\ engine \in BOOLEAN

ServerTypes ==
  /\ server \in {"idle", "startkill", "startwait", "startnow", "launch", "mark", "stopkill"}
  /\ started \in 0 .. MaxStarts
  /\ stops \in 0 .. MaxStops
  /\ unheard \in BOOLEAN
  /\ server \in {"startkill", "startwait", "startnow"} => started < MaxStarts

\* The monitors that were not started yet.
Unborn == \A p \in Pids : p > started => mon[p].pc = "none"

TypeInv == MonitorTypes /\ FileTypes /\ ServerTypes /\ Unborn

\* At most one monitor runs and the pid file names it, unless a request to start
\* did not reach the one before; when the server is about to start another, the
\* running one has been signalled.
OneInv ==
  ~unheard =>
    /\ \A p, q \in Pids : Live(p) /\ Live(q) => p = q
    /\ \A p \in Pids : Live(p) /\ mon[p].pc # "start" => pidfile = p
    /\ server = "startnow" => \A p \in Pids : ~Live(p)
    /\ server = "startwait" => \A p \in Pids : Live(p) => mon[p].gotSignal

\* What a monitor may be doing before the request that started it is over.
Young == {"start", "flag", "wait", "watch", "nap", "delay", "connect"}

\* From its first look at the engine's status until it clears its own.
Active == {"watch", "nap", "delay", "connect", "failed", "last", "look", "end"}

\* What a step of monitor p may do to the others, the pid file, the status and
\* the flag.
Effect(p) ==
  /\ UNCHANGED serverVars
  /\ \A q \in Pids : q # p => mon'[q] = mon[q]
  /\ Live(p)
  /\ mon'[p].pc \notin {"none", "start"}
  /\ mon'[p].gotSignal = mon[p].gotSignal
  /\ \/ pidfile' = p
     \/ mon[p].pc # "start" /\ pidfile' = pidfile
     \/ mon'[p].pc = "gone" /\ pidfile' = Absent
  /\ Prompt /\ p = started /\ server \in {"launch", "mark"} =>
       (mon[p].pc \in Young /\ ~mon[p].gotSignal => mon'[p].pc \in Young)
  /\ mon'[p].pc = "flag" => mon[p].pc = "start"
  /\ mon'[p].pc = "gone" => mon[p].pc = "endpid"
  /\ mon'[p].pc = "endpid" => ~wpsRunning'
  /\ wpsRunning' => wpsRunning \/ mon[p].pc = "flag"
  /\ \/ UNCHANGED hnap_wps_status
     \/ hnap_wps_status' = Idle
     \/ mon'[p].pc \in Active
  /\ mon[p].pc \in Active => mon'[p].pc \in Active \/ hnap_wps_status' = Idle
  /\ mon[p].pc \in {"start", "flag", "wait"} =>
       mon'[p].pc \in {"flag", "wait", "gaveup"} \cup Active

\* The request that started a monitor ends before the monitor does, and before
\* the next one the monitor has set its flag; then the flag is that of the latest
\* monitor, and a status that is not IDLE that of some monitor that will clear it.
RestInv ==
  /\ server \in {"launch", "mark"} =>
       started \in Pids /\ mon[started].pc \in Young /\ ~mon[started].gotSignal
  /\ \A p \in Pids :
       mon[p].pc \in {"start", "flag"} => p = started /\ server \notin {"startnow", "startwait"}
  /\ wpsRunning => started \in Pids /\ mon[started].pc \notin {"none", "endpid", "gone"}
  /\ hnap_wps_status \notin {Absent, Idle} =>
       \/ \E p \in Pids : mon[p].pc \in Active
       \/ started \in Pids /\ mon[started].pc \in {"start", "flag", "wait", "gaveup"}

-----------------------------------------------------------------------------
(* What the assignments of a monitor do to the monitors *)

\* goto label
LEMMA PcUpdate ==
  ASSUME MonitorTypes, NEW p \in Pids, NEW label \in Labels,
         mon' = [mon EXCEPT ![p].pc = label]
  PROVE  Becomes(p, label, mon[p].retry, mon[p].wps_status, mon[p].gotSignal)
BY DEF Becomes, MonitorTypes, Monitors

\* expose_wps_status, then goto label
LEMMA StatusUpdate ==
  ASSUME MonitorTypes, NEW p \in Pids, NEW label \in Labels, NEW c \in Codes,
         mon' = [mon EXCEPT ![p].wps_status = c, ![p].pc = label]
  PROVE  Becomes(p, label, mon[p].retry, c, mon[p].gotSignal)
BY DEF Becomes, MonitorTypes, Monitors

\* the count of looks, then goto label
LEMMA RetryPcUpdate ==
  ASSUME MonitorTypes, NEW p \in Pids, NEW label \in Labels, NEW n \in Retries,
         mon' = [mon EXCEPT ![p].retry = n, ![p].pc = label]
  PROVE  Becomes(p, label, n, mon[p].wps_status, mon[p].gotSignal)
BY DEF Becomes, MonitorTypes, Monitors

\* the count is reset and the status read, then goto label
LEMMA WatchUpdate ==
  ASSUME MonitorTypes, NEW p \in Pids, NEW label \in Labels, NEW n \in Retries, NEW c \in Codes,
         mon' = [mon EXCEPT ![p].retry = n, ![p].wps_status = c, ![p].pc = label]
  PROVE  Becomes(p, label, n, c, mon[p].gotSignal)
BY DEF Becomes, MonitorTypes, Monitors

\* the signal handler sets gotSignal
LEMMA SignalUpdate ==
  ASSUME MonitorTypes, NEW p \in Pids, NEW signal \in BOOLEAN,
         mon' = [mon EXCEPT ![p].gotSignal = signal]
  PROVE  Becomes(p, mon[p].pc, mon[p].retry, mon[p].wps_status, signal)
BY DEF Becomes, MonitorTypes, Monitors

\* A monitor whose new variables are in order leaves all of them in order.
LEMMA LocalKept ==
  ASSUME MonitorTypes, NEW p \in Pids, NEW label, NEW n, NEW c, NEW signal,
         Becomes(p, label, n, c, signal),
         label \in {"none", "start", "flag"} => n = 0,
         label = "none" => ~signal,
         label = "wait" => n <= WaitTries,
         label \in {"last", "look"} => n <= MissTries
  PROVE  MonitorTypes'
<1>1. Local(mon'[p])
  BY DEF Becomes, Local
<1>2. \A q \in Pids : q # p => Local(mon'[q])
  BY DEF MonitorTypes, Becomes
<1> QED
  BY <1>1, <1>2 DEF MonitorTypes, Becomes

\* kill(pid, SIGUSR1) keeps the monitors in order.
LEMMA KillKept ==
  ASSUME TypeInv, pidfile # Absent, UNCHANGED started,
         mon' = [mon EXCEPT ![pidfile].gotSignal = @ \/ Live(pidfile)]
  PROVE  /\ Becomes(pidfile, mon[pidfile].pc, mon[pidfile].retry, mon[pidfile].wps_status,
                     mon[pidfile].gotSignal \/ Live(pidfile))
         /\ MonitorTypes'
         /\ Unborn'
<1>1. MonitorTypes /\ pidfile \in Pids
  BY DEF TypeInv, FileTypes
<1>2. mon' = [mon EXCEPT ![pidfile].gotSignal = mon[pidfile].gotSignal \/ Live(pidfile)]
  OBVIOUS
<1>3. Becomes(pidfile, mon[pidfile].pc, mon[pidfile].retry, mon[pidfile].wps_status,
              mon[pidfile].gotSignal \/ Live(pidfile))
  BY <1>1, <1>2, SignalUpdate
<1>4. MonitorTypes'
  BY <1>1, <1>3, LocalKept DEF MonitorTypes, Local, Live
<1>5. Unborn'
  BY <1>1, <1>3 DEF TypeInv, Becomes, Unborn
<1> QED
  BY <1>3, <1>4, <1>5

\* Either request's step of sending the signal: no monitor is moved, and at most
\* the one the pid file names has the signal afterwards.
LEMMA KillStep ==
  ASSUME TypeInv, StartKill \/ StopKill
  PROVE  /\ MonitorTypes' /\ Unborn'
         /\ UNCHANGED <<files, started, stops, engine>>
         /\ \A p \in Pids :
              mon'[p].pc = mon[p].pc /\ (mon[p].gotSignal => mon'[p].gotSignal)
<1>1. UNCHANGED <<files, started, stops, engine>>
  BY DEF StartKill, StopKill
<1>2. UNCHANGED mon \/ (pidfile # Absent /\ Kill(pidfile))
  BY DEF StartKill, StopKill
<1>3. CASE UNCHANGED mon
  BY <1>1, <1>3 DEF TypeInv, MonitorTypes, Unborn
<1>4. CASE pidfile # Absent /\ Kill(pidfile)
  <2>1. /\ Becomes(pidfile, mon[pidfile].pc, mon[pidfile].retry, mon[pidfile].wps_status,
                   mon[pidfile].gotSignal \/ Live(pidfile))
        /\ MonitorTypes' /\ Unborn'
    BY <1>1, <1>4, KillKept DEF Kill
  <2>2. ASSUME NEW p \in Pids
        PROVE  mon'[p].pc = mon[p].pc /\ (mon[p].gotSignal => mon'[p].gotSignal)
    <3>1. CASE p = pidfile
      BY <2>1, <3>1 DEF Becomes
    <3>2. CASE p # pidfile
      BY <2>1, <3>2 DEF Becomes
    <3> QED
      BY <3>1, <3>2
  <2> QED
    BY <1>1, <2>1, <2>2
<1> QED
  BY <1>2, <1>3, <1>4

\* Each step of a monitor keeps the types and has no other effect.
LEMMA MonitorStep ==
  ASSUME TypeInv, NEW p \in Pids, Monitor(p)
  PROVE  MonitorTypes' /\ FileTypes' /\ Effect(p)
<1> USE TriesAssumption, CodesAssumption DEF files
<1>0. MonitorTypes /\ FileTypes
  BY DEF TypeInv
<1> USE <1>0
<1>1. CASE WritePid(p)
  <2>1. Becomes(p, "flag", mon[p].retry, mon[p].wps_status, mon[p].gotSignal)
    BY <1>1, PcUpdate DEF WritePid, Goto, Labels
  <2>2. MonitorTypes'
    BY <1>1, <2>1, LocalKept DEF WritePid, MonitorTypes, Local
  <2>3. FileTypes' /\ UNCHANGED serverVars
    BY <1>1 DEF WritePid, FileTypes
  <2>4. Effect(p)
    BY <1>1, <2>1 DEF WritePid, Goto, Effect, Becomes, Live, Young, Active, LongWait, serverVars
  <2> QED
    BY <2>2, <2>3, <2>4
<1>2. CASE SetRunning(p)
  <2>1. Becomes(p, "wait", mon[p].retry, mon[p].wps_status, mon[p].gotSignal)
    BY <1>2, PcUpdate DEF SetRunning, Goto, Labels
  <2>2. MonitorTypes'
    BY <1>2, <2>1, LocalKept DEF SetRunning, MonitorTypes, Local
  <2>3. FileTypes' /\ UNCHANGED serverVars
    BY <1>2 DEF SetRunning, FileTypes
  <2>4. Effect(p)
    BY <1>2, <2>1 DEF SetRunning, Goto, Effect, Becomes, Live, Young, Active, LongWait, serverVars
  <2> QED
    BY <2>2, <2>3, <2>4
<1>3. CASE WaitFound(p)
  <2>1. Becomes(p, "watch", mon[p].retry, mon[p].wps_status, mon[p].gotSignal)
    BY <1>3, PcUpdate DEF WaitFound, Goto, Labels
  <2>2. MonitorTypes'
    BY <2>1, LocalKept DEF MonitorTypes, Local
  <2>3. FileTypes' /\ UNCHANGED serverVars
    BY <1>3 DEF WaitFound, FileTypes
  <2>4. Effect(p)
    BY <1>3, <2>1 DEF WaitFound, Goto, Effect, Becomes, Live, Young, Active, LongWait, serverVars
  <2> QED
    BY <2>2, <2>3, <2>4
<1>4. CASE WaitMiss(p)
  <2> DEFINE retry == mon[p].retry + 1
             label == IF retry > WaitTries THEN "gaveup"
                      ELSE IF mon[p].gotSignal THEN "end" ELSE "wait"
  <2>1. label \in Labels /\ retry \in Retries
    BY <1>4 DEF WaitMiss, MonitorTypes, Local, Monitors, Labels, Retries
  <2>2. mon' = [mon EXCEPT ![p].retry = retry, ![p].pc = label]
    BY <1>4 DEF WaitMiss
  <2>3. Becomes(p, label, retry, mon[p].wps_status, mon[p].gotSignal)
    BY <2>1, <2>2, RetryPcUpdate
  <2>4. label = "wait" => retry <= WaitTries
    BY <2>1 DEF Retries
  <2>5. MonitorTypes'
    BY <2>3, <2>4, LocalKept
  <2>6. FileTypes' /\ UNCHANGED serverVars
    BY <1>4 DEF WaitMiss, FileTypes
  <2>7. Effect(p)
    BY <1>4, <2>3 DEF WaitMiss, Effect, Becomes, Live, Young, Active, LongWait, serverVars
  <2> QED
    BY <2>5, <2>6, <2>7
<1>5. CASE Interrupted(p)
  <2>1. Becomes(p, "end", mon[p].retry, mon[p].wps_status, mon[p].gotSignal)
    BY <1>5, PcUpdate DEF Interrupted, Goto, Loops, Labels
  <2>2. MonitorTypes'
    BY <2>1, LocalKept DEF MonitorTypes, Local
  <2>3. FileTypes' /\ UNCHANGED serverVars
    BY <1>5 DEF Interrupted, FileTypes
  <2>4. Effect(p)
    BY <1>5, <2>1 DEF Interrupted, Goto, Loops, Effect, Becomes, Live, Young, Active,
       LongWait, serverVars
  <2> QED
    BY <2>2, <2>3, <2>4
<1>6. CASE WatchRead(p)
  <2> DEFINE label == IF wps_current_status = Connecting THEN "connect"
                      ELSE IF wps_current_status \in EngineErrors THEN "delay" ELSE "watch"
  <2>1. label \in Labels /\ 0 \in Retries /\ wps_current_status \in Codes
    BY <1>6 DEF WatchRead, FileTypes, Labels, Retries, Codes
  <2>2. mon' = [mon EXCEPT ![p].retry = 0, ![p].wps_status = wps_current_status, ![p].pc = label]
    BY <1>6 DEF WatchRead
  <2>3. Becomes(p, label, 0, wps_current_status, mon[p].gotSignal)
    BY <2>1, <2>2, WatchUpdate
  <2>4. MonitorTypes'
    BY <2>3, LocalKept
  <2>5. FileTypes' /\ UNCHANGED serverVars
    <3>1. wpsRunning' \in BOOLEAN
      BY <1>6, Zenon DEF WatchRead
    <3> QED
      BY <1>6, <2>1, <3>1 DEF WatchRead, FileTypes
  <2>6. Effect(p)
    <3>1. wpsRunning' => wpsRunning
      BY <1>6, Zenon DEF WatchRead
    <3>2. label \in {"watch", "delay", "connect"}
      OBVIOUS
    <3>3. mon[p].pc = "watch" /\ ~mon[p].gotSignal /\ UNCHANGED <<pidfile, serverVars>>
      BY <1>6 DEF WatchRead, At
    <3> HIDE DEF label
    <3> QED
      BY <2>3, <3>1, <3>2, <3>3 DEF Effect, Becomes, Live, Young, Active, serverVars
  <2> QED
    BY <2>4, <2>5, <2>6
<1>7. CASE WatchMiss(p)
  <2>1. CASE mon[p].retry + 1 > MissTries
    <3> DEFINE label == AfterWatch(mon[p].wps_status)
    <3>1. label \in {"delay", "connect", "last", "end"} /\ label \in Labels /\ 0 \in Retries
      BY DEF AfterWatch, Labels, Retries
    <3> HIDE DEF label
    <3>2. mon' = [mon EXCEPT ![p].retry = 0, ![p].pc = label] /\ LongWait(p)
      BY <1>7, <2>1 DEF WatchMiss, label
    <3>3. Becomes(p, label, 0, mon[p].wps_status, mon[p].gotSignal)
      BY <3>1, <3>2, RetryPcUpdate
    <3>4. MonitorTypes'
      BY <3>1, <3>3, LocalKept
    <3>5. FileTypes' /\ UNCHANGED serverVars
      BY <1>7, <2>1 DEF WatchMiss, FileTypes
    <3>6. Effect(p)
      BY <1>7, <3>1, <3>2, <3>3 DEF WatchMiss, At, Effect, Becomes, Live, Young,
         Active, LongWait, serverVars
    <3> QED
      BY <3>4, <3>5, <3>6
  <2>2. CASE ~(mon[p].retry + 1 > MissTries)
    <3>1. mon[p].retry + 1 \in Retries
      BY <2>2 DEF MonitorTypes, Monitors, Retries
    <3>2. mon' = [mon EXCEPT ![p].retry = mon[p].retry + 1, ![p].pc = "nap"]
      BY <1>7, <2>2 DEF WatchMiss
    <3>3. Becomes(p, "nap", mon[p].retry + 1, mon[p].wps_status, mon[p].gotSignal)
      BY <3>1, <3>2, RetryPcUpdate DEF Labels
    <3>4. MonitorTypes'
      BY <3>3, LocalKept
    <3>5. FileTypes' /\ UNCHANGED serverVars
      BY <1>7, <2>2 DEF WatchMiss, FileTypes
    <3>6. Effect(p)
      BY <1>7, <2>2, <3>3 DEF WatchMiss, At, Effect, Becomes, Live, Young, Active, serverVars
    <3> QED
      BY <3>4, <3>5, <3>6
  <2> QED
    BY <2>1, <2>2
<1>16. CASE WatchNap(p)
  <2>1. Becomes(p, "watch", mon[p].retry, mon[p].wps_status, mon[p].gotSignal)
    BY <1>16, PcUpdate DEF WatchNap, Goto, Labels
  <2>2. MonitorTypes'
    BY <2>1, LocalKept DEF MonitorTypes, Local
  <2>3. FileTypes' /\ UNCHANGED serverVars
    BY <1>16 DEF WatchNap, FileTypes
  <2>4. Effect(p)
    BY <1>16, <2>1 DEF WatchNap, Goto, Effect, Becomes, Live, Young, Active, serverVars
  <2> QED
    BY <2>2, <2>3, <2>4
<1>8. CASE DelayOver(p)
  <2>1. Becomes(p, "end", mon[p].retry, mon[p].wps_status, mon[p].gotSignal)
    BY <1>8, PcUpdate DEF DelayOver, Goto, At, Labels
  <2>2. MonitorTypes'
    BY <2>1, LocalKept DEF MonitorTypes, Local
  <2>3. FileTypes' /\ UNCHANGED serverVars
    BY <1>8 DEF DelayOver, FileTypes
  <2>4. Effect(p)
    BY <1>8, <2>1 DEF DelayOver, Goto, At, Effect, Becomes, Live, Young, Active, LongWait, serverVars
  <2> QED
    BY <2>2, <2>3, <2>4
<1>9. CASE ConnectUp(p)
  <2>1. Becomes(p, "connect", mon[p].retry, Connected, mon[p].gotSignal)
    BY <1>9, StatusUpdate DEF ConnectUp, Expose, At, Codes, Labels
  <2>2. MonitorTypes'
    BY <2>1, LocalKept DEF MonitorTypes, Local
  <2>3. FileTypes' /\ UNCHANGED serverVars
    BY <1>9 DEF ConnectUp, Expose, Codes, FileTypes
  <2>4. Effect(p)
    BY <1>9, <2>1 DEF ConnectUp, Expose, At, Codes, Expose, Codes, Effect, Becomes, Live,
       Young, Active, LongWait, serverVars
  <2> QED
    BY <2>2, <2>3, <2>4
<1>10. CASE ConnectOver(p)
  <2>1. Becomes(p, "failed", mon[p].retry, ConnectFailure, mon[p].gotSignal)
    BY <1>10, StatusUpdate DEF ConnectOver, Expose, At, Codes, Labels
  <2>2. MonitorTypes'
    BY <2>1, LocalKept DEF MonitorTypes, Local
  <2>3. FileTypes' /\ UNCHANGED serverVars
    BY <1>10 DEF ConnectOver, Expose, Codes, FileTypes
  <2>4. Effect(p)
    BY <1>10, <2>1 DEF ConnectOver, Expose, At, Codes, Expose, Codes, Effect, Becomes, Live,
       Young, Active, LongWait, serverVars
  <2> QED
    BY <2>2, <2>3, <2>4
<1>11. CASE LastSleep(p)
  <2>1. Becomes(p, "look", mon[p].retry, mon[p].wps_status, mon[p].gotSignal)
    BY <1>11, PcUpdate DEF LastSleep, Goto, At, Labels
  <2>2. MonitorTypes'
    BY <1>11, <2>1, LocalKept DEF LastSleep, At, MonitorTypes, Local
  <2>3. FileTypes' /\ UNCHANGED serverVars
    BY <1>11 DEF LastSleep, FileTypes
  <2>4. Effect(p)
    BY <1>11, <2>1 DEF LastSleep, Goto, At, Effect, Becomes, Live, Young, Active, LongWait, serverVars
  <2> QED
    BY <2>2, <2>3, <2>4
<1>12. CASE LastLook(p)
  <2>1. CASE wps_last_code = Absent
    <3> DEFINE retry == mon[p].retry + 1
               label == IF retry > MissTries THEN "end" ELSE "last"
    <3>1. label \in Labels /\ retry \in Retries
      BY <1>12 DEF LastLook, MonitorTypes, Local, Monitors, Labels, Retries
    <3>2. mon' = [mon EXCEPT ![p].retry = retry, ![p].pc = label]
      BY <1>12, <2>1 DEF LastLook
    <3>3. Becomes(p, label, retry, mon[p].wps_status, mon[p].gotSignal)
      BY <3>1, <3>2, RetryPcUpdate
    <3>4. label = "last" => retry <= MissTries
      BY <3>1 DEF Retries
    <3>5. MonitorTypes'
      BY <3>3, <3>4, LocalKept
    <3>6. FileTypes' /\ UNCHANGED serverVars
      BY <1>12, <2>1 DEF LastLook, FileTypes
    <3>7. Effect(p)
      BY <1>12, <3>3 DEF LastLook, Effect, Becomes, Live, Young, Active, serverVars
    <3> QED
      BY <3>5, <3>6, <3>7
  <2>2. CASE wps_last_code # Absent /\ wps_last_code \in {3, 4}
    <3> DEFINE c == Reason(wps_last_code, mon[p].wps_status)
    <3>1. c \in Codes
      BY DEF Reason, Codes
    <3> HIDE DEF c
    <3>2. mon' = [mon EXCEPT ![p].wps_status = c, ![p].pc = "delay"] /\ hnap_wps_status' = c
      BY <1>12, <2>2 DEF LastLook, Expose, c
    <3>3. Becomes(p, "delay", mon[p].retry, c, mon[p].gotSignal)
      BY <3>1, <3>2, StatusUpdate DEF Labels
    <3>4. MonitorTypes'
      BY <3>3, LocalKept
    <3>5. FileTypes' /\ UNCHANGED serverVars
      BY <1>12, <3>1, <3>2 DEF LastLook, FileTypes
    <3>6. Effect(p)
      BY <1>12, <3>3 DEF LastLook, Effect, Becomes, Live, Young, Active, serverVars
    <3> QED
      BY <3>4, <3>5, <3>6
  <2>3. CASE wps_last_code # Absent /\ wps_last_code \notin {3, 4}
    <3>1. mon' = [mon EXCEPT ![p].pc = "end"] /\ UNCHANGED hnap_wps_status
      BY <1>12, <2>3 DEF LastLook, Goto
    <3>2. Becomes(p, "end", mon[p].retry, mon[p].wps_status, mon[p].gotSignal)
      BY <3>1, PcUpdate DEF Labels
    <3>3. MonitorTypes'
      BY <3>2, LocalKept
    <3>4. FileTypes' /\ UNCHANGED serverVars
      BY <1>12, <3>1 DEF LastLook, FileTypes
    <3>5. Effect(p)
      BY <1>12, <3>2 DEF LastLook, Effect, Becomes, Live, Young, Active, serverVars
    <3> QED
      BY <3>3, <3>4, <3>5
  <2> QED
    BY <2>1, <2>2, <2>3
<1>13. CASE EndStatus(p)
  <2>1. Becomes(p, "endfiles", mon[p].retry, Idle, mon[p].gotSignal)
    BY <1>13, StatusUpdate DEF EndStatus, Expose, Codes, Labels
  <2>2. MonitorTypes'
    BY <2>1, LocalKept DEF MonitorTypes, Local
  <2>3. FileTypes' /\ UNCHANGED serverVars
    BY <1>13 DEF EndStatus, Expose, Codes, FileTypes
  <2>4. Effect(p)
    BY <1>13, <2>1 DEF EndStatus, Expose, Codes, Expose, Codes, Effect, Becomes, Live,
       Young, Active, LongWait, serverVars
  <2> QED
    BY <2>2, <2>3, <2>4
<1>14. CASE EndFiles(p)
  <2>1. Becomes(p, "endpid", mon[p].retry, mon[p].wps_status, mon[p].gotSignal)
    BY <1>14, PcUpdate DEF EndFiles, Goto, Labels
  <2>2. MonitorTypes'
    BY <2>1, LocalKept DEF MonitorTypes, Local
  <2>3. FileTypes' /\ UNCHANGED serverVars
    BY <1>14 DEF EndFiles, FileTypes
  <2>4. Effect(p)
    BY <1>14, <2>1 DEF EndFiles, Goto, Effect, Becomes, Live, Young, Active, LongWait, serverVars
  <2> QED
    BY <2>2, <2>3, <2>4
<1>15. CASE EndPid(p)
  <2>1. Becomes(p, "gone", mon[p].retry, mon[p].wps_status, mon[p].gotSignal)
    BY <1>15, PcUpdate DEF EndPid, Goto, Labels
  <2>2. MonitorTypes'
    BY <2>1, LocalKept DEF MonitorTypes, Local
  <2>3. FileTypes' /\ UNCHANGED serverVars
    BY <1>15 DEF EndPid, FileTypes
  <2>4. Effect(p)
    BY <1>15, <2>1 DEF EndPid, Goto, Effect, Becomes, Live, Young, Active, LongWait, serverVars
  <2> QED
    BY <2>2, <2>3, <2>4
<1> QED
  BY <1>1, <1>2, <1>3, <1>4, <1>5, <1>6, <1>7, <1>8, <1>9, <1>10, <1>11, <1>12, <1>13, <1>14,
     <1>15, <1>16
  DEF Monitor

-----------------------------------------------------------------------------
(* Types *)

\* Every step of the server, the monitors and the engine keeps the files, the
\* monitors' variables and the counts of looks in their types.
LEMMA TypeInvariant == Spec => []TypeInv
<1> USE BoundsAssumption, TriesAssumption, CodesAssumption
<1>1. Init => TypeInv
  <2> SUFFICES ASSUME Init PROVE TypeInv
    OBVIOUS
  <2>1. NewMonitor \in Monitors /\ Local(NewMonitor)
    BY DEF NewMonitor, Monitors, Local, Labels, Retries, Codes
  <2>2. MonitorTypes
    BY <2>1 DEF Init, MonitorTypes
  <2>3. FileTypes
    BY Zenon DEF Init, FileTypes
  <2>4. ServerTypes
    <3>1. unheard \in BOOLEAN
      BY Zenon DEF Init
    <3> QED
      BY <3>1 DEF Init, ServerTypes
  <2>5. Unborn
    BY DEF Init, NewMonitor, Unborn
  <2> QED
    BY <2>2, <2>3, <2>4, <2>5 DEF TypeInv
<1>2. TypeInv /\ [Next]_vars => TypeInv'
  <2> SUFFICES ASSUME TypeInv, [Next]_vars PROVE TypeInv'
    OBVIOUS
  <2>0. MonitorTypes /\ FileTypes /\ ServerTypes /\ Unborn
    BY DEF TypeInv
  <2> USE <2>0 DEF TypeInv, files, serverVars
  <2>1. CASE StartAbort
    <3>1. MonitorTypes'
      BY <2>1 DEF StartAbort, MonitorTypes
    <3>2. FileTypes'
      BY <2>1 DEF StartAbort, EngineAbort, FileTypes, Codes
    <3>3. ServerTypes' /\ Unborn'
      BY <2>1 DEF StartAbort, ServerTypes, Unborn
    <3> QED
      BY <3>1, <3>2, <3>3
  <2>2. CASE StartKill
    <3>1. MonitorTypes' /\ Unborn'
      BY <2>2, KillStep
    <3>2. FileTypes'
      BY <2>2 DEF StartKill, FileTypes
    <3>3. unheard' \in BOOLEAN
      BY <2>2, Zenon DEF StartKill, ServerTypes
    <3>4. ServerTypes'
      BY <2>2, <3>3 DEF StartKill, ServerTypes
    <3> QED
      BY <3>1, <3>2, <3>4
  <2>3. CASE StartMonitor
    <3>1. started + 1 \in Pids /\ started' = started + 1
      BY <2>3 DEF StartMonitor, ServerTypes, Pids
    <3>2. mon' = [mon EXCEPT ![started + 1].pc = "start"]
      BY <2>3 DEF StartMonitor
    <3>3. mon[started + 1].pc = "none"
      BY <3>1 DEF ServerTypes, Unborn
    <3>4. Becomes(started + 1, "start", mon[started + 1].retry, mon[started + 1].wps_status,
                  mon[started + 1].gotSignal)
      BY <3>1, <3>2, PcUpdate DEF Labels
    <3>5. MonitorTypes'
      BY <3>1, <3>3, <3>4, LocalKept DEF MonitorTypes, Local
    <3>6. Unborn'
      BY <3>1, <3>4 DEF Becomes, ServerTypes, Unborn, Pids
    <3>7. FileTypes'
      BY <2>3 DEF StartMonitor, FileTypes, Codes
    <3>9. unheard' \in BOOLEAN
      BY <2>3, Zenon DEF StartMonitor
    <3>8. ServerTypes'
      BY <2>3, <3>1, <3>9 DEF StartMonitor, ServerTypes, Pids
    <3> QED
      BY <3>5, <3>6, <3>7, <3>8
  <2>4. CASE StartEngine
    <3>1. MonitorTypes'
      BY <2>4 DEF StartEngine, MonitorTypes
    <3>2. FileTypes'
      BY <2>4 DEF StartEngine, EngineAbort, FileTypes, Codes
    <3>3. ServerTypes' /\ Unborn'
      BY <2>4 DEF StartEngine, ServerTypes, Unborn
    <3> QED
      BY <3>1, <3>2, <3>3
  <2>5. CASE StartMark
    <3>1. MonitorTypes'
      BY <2>5 DEF StartMark, MonitorTypes
    <3>2. FileTypes'
      BY <2>5 DEF StartMark, EngineAbort, FileTypes, Codes
    <3>3. ServerTypes' /\ Unborn'
      BY <2>5 DEF StartMark, ServerTypes, Unborn
    <3> QED
      BY <3>1, <3>2, <3>3
  <2>6. CASE StopAbort
    <3>1. MonitorTypes'
      BY <2>6 DEF StopAbort, MonitorTypes
    <3>2. FileTypes'
      BY <2>6 DEF StopAbort, EngineAbort, FileTypes, Codes
    <3>3. ServerTypes' /\ Unborn'
      BY <2>6 DEF StopAbort, ServerTypes, Unborn
    <3> QED
      BY <3>1, <3>2, <3>3
  <2>7. CASE StopKill
    <3>1. MonitorTypes' /\ Unborn'
      BY <2>7, KillStep
    <3>2. FileTypes' /\ ServerTypes'
      BY <2>7 DEF StopKill, FileTypes, ServerTypes
    <3> QED
      BY <3>1, <3>2
  <2>8. CASE EngineReport
    <3>1. MonitorTypes'
      BY <2>8 DEF EngineReport, MonitorTypes
    <3>2. FileTypes'
      BY <2>8 DEF EngineReport, EngineAbort, FileTypes, Codes
    <3>3. ServerTypes' /\ Unborn'
      BY <2>8 DEF EngineReport, ServerTypes, Unborn
    <3> QED
      BY <3>1, <3>2, <3>3
  <2>9. CASE EngineEnd
    <3>1. MonitorTypes'
      BY <2>9 DEF EngineEnd, MonitorTypes
    <3>2. FileTypes'
      BY <2>9 DEF EngineEnd, EngineAbort, FileTypes, Codes
    <3>3. ServerTypes' /\ Unborn'
      BY <2>9 DEF EngineEnd, ServerTypes, Unborn
    <3> QED
      BY <3>1, <3>2, <3>3
  <2>10. ASSUME NEW p \in Pids, Monitor(p) PROVE TypeInv'
    <3>1. MonitorTypes' /\ FileTypes' /\ Effect(p)
      BY <2>10, MonitorStep
    <3>2. ServerTypes'
      BY <3>1 DEF Effect, ServerTypes
    <3>3. Unborn'
      BY <3>1 DEF Effect, Live, Unborn
    <3> QED
      BY <3>1, <3>2, <3>3
  <2>11. CASE UNCHANGED vars
    BY <2>11 DEF vars, MonitorTypes, FileTypes, ServerTypes, Unborn
  <2> QED
    BY <2>1, <2>2, <2>3, <2>4, <2>5, <2>6, <2>7, <2>8, <2>9, <2>10, <2>11
    DEF Next, StartRequest, StopRequest
<1> QED
  BY <1>1, <1>2, PTL DEF Spec

-----------------------------------------------------------------------------
(* One monitor at a time *)

\* Without load the server starts a monitor only when none is left, unless it has
\* not reached the one that runs.
LEMMA OneInvariant == ASSUME Prompt PROVE Spec => []OneInv
<1>1. Init => OneInv
  BY DEF Init, NewMonitor, OneInv, Live
<1>2. TypeInv /\ TypeInv' /\ OneInv /\ [Next]_vars => OneInv'
  <2> SUFFICES ASSUME TypeInv, TypeInv', OneInv, [Next]_vars PROVE OneInv'
    OBVIOUS
  <2> USE DEF Live
  <2>1. CASE StartAbort \/ StartEngine \/ StartMark \/ StopAbort \/ EngineReport \/ EngineEnd
    <3>1. \/ UNCHANGED <<mon, pidfile, unheard>> /\ server' \notin {"startnow", "startwait"}
          \/ UNCHANGED <<mon, pidfile, unheard, server>>
      BY <2>1 DEF StartAbort, StartEngine, StartMark, StopAbort, EngineReport, EngineEnd,
                  files, serverVars
    <3> QED
      BY <3>1 DEF OneInv
  <2>2. CASE StartKill
    <3> SUFFICES ASSUME ~unheard' PROVE OneInv'
      BY DEF OneInv
    <3>1. ~unheard
      BY <2>2 DEF StartKill
    <3>2. /\ \A p, q \in Pids : Live(p) /\ Live(q) => p = q
          /\ \A p \in Pids : Live(p) => pidfile = p
      BY <2>2, <3>1 DEF OneInv, StartKill, Born
    <3>3. UNCHANGED pidfile /\ \A p \in Pids : mon'[p].pc = mon[p].pc
      BY <2>2, KillStep DEF files
    <3>4. CASE server' = "startnow"
      <4>1. \A p \in Pids : ~Live(p)
        <5>1. pidfile = Absent \/ ~Live(pidfile)
          BY <2>2, <3>4 DEF StartKill
        <5>2. Absent \notin Pids
          BY DEF Absent, Pids
        <5> QED
          BY <3>2, <5>1, <5>2
      <4> QED
        BY <4>1, <3>2, <3>3, <3>4 DEF OneInv
    <3>5. CASE server' = "startwait"
      <4>1. pidfile # Absent /\ Kill(pidfile) /\ UNCHANGED started
        BY <2>2, <3>5 DEF StartKill
      <4>2. Becomes(pidfile, mon[pidfile].pc, mon[pidfile].retry, mon[pidfile].wps_status,
                    mon[pidfile].gotSignal \/ Live(pidfile))
        BY <4>1, KillKept DEF Kill
      <4>3. \A p \in Pids : Live(p)' => mon'[p].gotSignal
        BY <3>2, <3>3, <4>2 DEF Becomes
      <4> QED
        BY <3>2, <3>3, <3>5, <4>3 DEF OneInv
    <3> QED
      BY <2>2, <3>4, <3>5 DEF StartKill
  <2>3. CASE StartMonitor
    <3> SUFFICES ASSUME ~unheard' PROVE OneInv'
      BY DEF OneInv
    <3>1. started + 1 \in Pids
      BY <2>3 DEF StartMonitor, TypeInv, ServerTypes, Pids
    <3>2. \A p \in Pids : ~Live(p)
      <4>1. unheard' = (unheard /\ \E p \in Pids : Live(p))
        BY <2>3 DEF StartMonitor
      <4>2. CASE unheard
        BY <4>1, <4>2
      <4>3. CASE ~unheard
        BY <2>3, <4>3 DEF StartMonitor, Slept, OneInv
      <4> QED
        BY <4>2, <4>3
    <3>3. Becomes(started + 1, "start", mon[started + 1].retry, mon[started + 1].wps_status,
                  mon[started + 1].gotSignal)
      BY <2>3, <3>1, PcUpdate DEF StartMonitor, Labels, TypeInv
    <3>4. server' = "launch"
      BY <2>3 DEF StartMonitor
    <3> QED
      BY <3>1, <3>2, <3>3, <3>4 DEF Becomes, OneInv
  <2>4. CASE StopKill
    <3>1. /\ UNCHANGED <<pidfile, unheard>> /\ server' = "idle"
          /\ \A p \in Pids : mon'[p].pc = mon[p].pc
      BY <2>4, KillStep DEF StopKill, files
    <3> QED
      BY <3>1 DEF OneInv
  <2>5. ASSUME NEW p \in Pids, Monitor(p) PROVE OneInv'
    <3>1. Effect(p)
      BY <2>5, MonitorStep
    <3> QED
      BY <3>1 DEF Effect, serverVars, OneInv
  <2>6. CASE UNCHANGED vars
    BY <2>6 DEF vars, files, serverVars, OneInv
  <2> QED
    BY <2>1, <2>2, <2>3, <2>4, <2>5, <2>6 DEF Next, StartRequest, StopRequest
<1> QED
  BY <1>1, <1>2, TypeInvariant, PTL DEF Spec

\* At most one monitor runs, whatever requests and signals overlap, and the pid
\* file names it from its first step to its last, unless a request to start could
\* not signal the monitor or its signal came between the monitor's look at the
\* flag and a sleep longer than the server's; and once all have ended, it is so
\* again.
THEOREM WpsOneMonitor == ASSUME Prompt PROVE Spec => []OneMonitor
<1>1. TypeInv /\ OneInv => OneMonitor
  <2> SUFFICES ASSUME TypeInv, OneInv PROVE OneMonitor
    OBVIOUS
  <2>1. TypeOK
    BY DEF TypeInv, MonitorTypes, FileTypes, ServerTypes, Monitors, Labels, Retries, TypeOK
  <2> QED
    BY <2>1 DEF OneInv, OneMonitor
<1> QED
  BY <1>1, TypeInvariant, OneInvariant, PTL

-----------------------------------------------------------------------------
(* What is left when no monitor runs *)

\* The latest monitor clears the flag, and each monitor the status, after the
\* request that started it is over.
LEMMA RestInvariant == ASSUME Prompt PROVE Spec => []RestInv
<1>1. Init => RestInv
  BY DEF Init, NewMonitor, RestInv
<1>2. TypeInv /\ RestInv /\ [Next]_vars => RestInv'
  <2> SUFFICES ASSUME TypeInv, RestInv, [Next]_vars PROVE RestInv'
    OBVIOUS
  <2>1. CASE StartAbort \/ StartEngine \/ StopAbort \/ EngineReport \/ EngineEnd
    <3>1. /\ UNCHANGED <<mon, hnap_wps_status, wpsRunning, started>>
          /\ server' \in {"launch", "mark"} => server \in {"launch", "mark"}
          /\ server' \in {"startnow", "startwait"} => server \in {"startnow", "startwait"}
      BY <2>1 DEF StartAbort, StartEngine, StopAbort, EngineReport, EngineEnd, files, serverVars
    <3> QED
      BY <3>1 DEF RestInv
  <2>2. CASE StartMark
    <3>1. /\ started \in Pids /\ mon[started].pc \in Young /\ server' = "idle"
          /\ UNCHANGED <<mon, wpsRunning, started>>
      BY <2>2 DEF StartMark, RestInv
    <3> QED
      BY <3>1 DEF Young, Active, RestInv
  <2>3. CASE StartKill \/ StopKill
    <3>1. /\ UNCHANGED <<hnap_wps_status, wpsRunning, started>>
          /\ \A p \in Pids : mon'[p].pc = mon[p].pc
      BY <2>3, KillStep DEF files
    <3>2. /\ server' \notin {"launch", "mark"}
          /\ server' \in {"startnow", "startwait"} =>
               \A p \in Pids : mon[p].pc \notin {"start", "flag"}
      BY <2>3 DEF StartKill, StopKill, Born
    <3> QED
      BY <3>1, <3>2 DEF RestInv
  <2>4. CASE StartMonitor
    <3>1. started + 1 \in Pids /\ started' = started + 1
      BY <2>4, BoundsAssumption DEF StartMonitor, TypeInv, ServerTypes, Pids
    <3>2. /\ hnap_wps_status' = Idle /\ server' = "launch"
          /\ \A p \in Pids : mon[p].pc \notin {"start", "flag"}
      BY <2>4 DEF StartMonitor, RestInv
    <3>3. Becomes(started + 1, "start", mon[started + 1].retry, mon[started + 1].wps_status,
                  mon[started + 1].gotSignal)
      BY <2>4, <3>1, PcUpdate DEF StartMonitor, Labels, TypeInv
    <3>4. ~mon[started + 1].gotSignal
      BY <3>1 DEF TypeInv, MonitorTypes, Local, Unborn, ServerTypes
    <3> QED
      BY <3>1, <3>2, <3>3, <3>4 DEF Becomes, Young, RestInv
  <2>5. ASSUME NEW p \in Pids, Monitor(p) PROVE RestInv'
    <3>1. Effect(p)
      BY <2>5, MonitorStep
    <3>2. UNCHANGED <<server, started>> /\ \A q \in Pids : q # p => mon'[q] = mon[q]
      BY <3>1 DEF Effect, serverVars
    <3>3. server' \in {"launch", "mark"} =>
            started' \in Pids /\ mon'[started'].pc \in Young /\ ~mon'[started'].gotSignal
      BY <3>1, <3>2 DEF Effect, RestInv
    <3>4. \A q \in Pids : mon'[q].pc \in {"start", "flag"} =>
            q = started' /\ server' \notin {"startnow", "startwait"}
      BY <3>1, <3>2 DEF Effect, RestInv
    <3>5. wpsRunning' => started' \in Pids /\ mon'[started'].pc \notin {"none", "endpid", "gone"}
      BY <3>1, <3>2 DEF Effect, RestInv
    <3>6. ASSUME hnap_wps_status' \notin {Absent, Idle}
          PROVE  \/ \E q \in Pids : mon'[q].pc \in Active
                 \/ /\ started' \in Pids
                    /\ mon'[started'].pc \in {"start", "flag", "wait", "gaveup"}
      <4>1. CASE mon'[p].pc \in Active
        BY <4>1
      <4>2. CASE mon'[p].pc \notin Active
        <5>1. UNCHANGED hnap_wps_status /\ mon[p].pc \notin Active
          BY <3>1, <3>6, <4>2 DEF Effect
        <5>2. CASE \E q \in Pids : mon[q].pc \in Active
          BY <3>2, <5>1, <5>2
        <5>3. CASE started \in Pids /\ mon[started].pc \in {"start", "flag", "wait", "gaveup"}
          BY <3>1, <3>2, <4>2, <5>3 DEF Effect, Live
        <5> QED
          BY <3>6, <5>1, <5>2, <5>3 DEF RestInv
      <4> QED
        BY <4>1, <4>2
    <3> QED
      BY <3>3, <3>4, <3>5, <3>6 DEF RestInv
  <2>6. CASE UNCHANGED vars
    BY <2>6 DEF vars, files, serverVars, RestInv
  <2> QED
    BY <2>1, <2>2, <2>3, <2>4, <2>5, <2>6 DEF Next, StartRequest, StopRequest
<1> QED
  BY <1>1, <1>2, TypeInvariant, PTL DEF Spec

\* When no monitor runs, the DHCP client is not held off and HNAP clients read
\* IDLE, unless the latest monitor gave up waiting for the engine; also when a
\* request did not reach the monitor before and several ran at once.
THEOREM WpsRestIsClean == ASSUME Prompt PROVE Spec => []RestIsClean
<1>1. TypeInv /\ RestInv => RestIsClean
  BY DEF TypeInv, MonitorTypes, Monitors, Labels, Active, Live, Pids, LeftBehind, RestInv,
     RestIsClean
<1> QED
  BY <1>1, TypeInvariant, RestInvariant, PTL

-----------------------------------------------------------------------------
(* The signal *)

\* The steps a monitor that was told to end is from its end at most: seven from
\* its first line, since a signal that comes early is not looked at before the
\* loops.
StepsLeft(label) ==
  IF label = "start" THEN 7
  ELSE IF label = "flag" THEN 6
  ELSE IF label \in {"wait", "nap", "look"} THEN 5
  ELSE IF label \in Loops THEN 4
  ELSE IF label = "end" THEN 3
  ELSE IF label = "endfiles" THEN 2
  ELSE IF label = "endpid" THEN 1
  ELSE 0

\* A monitor that was told to end stays told, each of its steps brings it closer
\* to its end, and no step of the server, the engine or another monitor moves it.
SignalledDescends ==
  \A p \in Pids : mon[p].gotSignal =>
    /\ mon'[p].gotSignal
    /\ IF Monitor(p) THEN StepsLeft(mon'[p].pc) < StepsLeft(mon[p].pc) ELSE mon'[p].pc = mon[p].pc

\* A step of a monitor that was told to end brings it closer to its end.
LEMMA SignalledStep ==
  ASSUME TypeInv, NEW p \in Pids, Monitor(p), mon[p].gotSignal
  PROVE  StepsLeft(mon'[p].pc) < StepsLeft(mon[p].pc)
<1>0. MonitorTypes
  BY DEF TypeInv
<1> USE <1>0 DEF StepsLeft, Loops
<1>1. CASE WritePid(p)
  <2>1. mon'[p].pc = "flag"
    BY <1>1, PcUpdate DEF WritePid, Goto, Labels, Becomes
  <2> QED
    BY <1>1, <2>1 DEF WritePid
<1>2. CASE SetRunning(p)
  <2>1. mon'[p].pc = "wait"
    BY <1>2, PcUpdate DEF SetRunning, Goto, Labels, Becomes
  <2> QED
    BY <1>2, <2>1 DEF SetRunning
<1>3. CASE WaitFound(p)
  <2>1. mon'[p].pc = "watch"
    BY <1>3, PcUpdate DEF WaitFound, Goto, Labels, Becomes
  <2> QED
    BY <1>3, <2>1 DEF WaitFound
<1>4. CASE WaitMiss(p)
  <2> DEFINE retry == mon[p].retry + 1
             label == IF retry > WaitTries THEN "gaveup"
                      ELSE IF mon[p].gotSignal THEN "end" ELSE "wait"
  <2>1. label \in Labels /\ label \in {"gaveup", "end"} /\ retry \in Retries
    BY <1>4, TriesAssumption
    DEF WaitMiss, MonitorTypes, Local, Monitors, Labels, Retries
  <2>2. mon' = [mon EXCEPT ![p].retry = retry, ![p].pc = label]
    BY <1>4 DEF WaitMiss
  <2> HIDE DEF label, retry
  <2>3. mon'[p].pc = label
    BY <2>1, <2>2, RetryPcUpdate DEF Becomes
  <2> QED
    BY <1>4, <2>1, <2>3 DEF WaitMiss
<1>5. CASE Interrupted(p)
  <2>1. mon'[p].pc = "end"
    BY <1>5, PcUpdate DEF Interrupted, Goto, Labels, Becomes
  <2> QED
    BY <1>5, <2>1 DEF Interrupted
<1>6. CASE LastLook(p)
  <2>1. mon[p].pc = "look"
    BY <1>6 DEF LastLook
  <2>2. CASE wps_last_code = Absent
    <3> DEFINE label == IF mon[p].retry + 1 > MissTries THEN "end" ELSE "last"
    <3>1. label \in Labels /\ label \in {"end", "last"} /\ mon[p].retry + 1 \in Retries
      BY <2>1, TriesAssumption DEF MonitorTypes, Local, Monitors, Labels, Retries
    <3>2. mon' = [mon EXCEPT ![p].retry = mon[p].retry + 1, ![p].pc = label]
      BY <1>6, <2>2 DEF LastLook
    <3> HIDE DEF label
    <3>3. mon'[p].pc = label
      BY <3>1, <3>2, RetryPcUpdate DEF Becomes
    <3> QED
      BY <2>1, <3>1, <3>3
  <2>3. CASE wps_last_code # Absent /\ wps_last_code \in {3, 4}
    <3> DEFINE c == Reason(wps_last_code, mon[p].wps_status)
    <3>1. c \in Codes
      BY DEF Reason, Codes
    <3>2. mon' = [mon EXCEPT ![p].wps_status = c, ![p].pc = "delay"]
      BY <1>6, <2>3 DEF LastLook, Expose
    <3> HIDE DEF c
    <3>3. mon'[p].pc = "delay"
      BY <3>1, <3>2, StatusUpdate DEF Labels, Becomes
    <3> QED
      BY <2>1, <3>3
  <2>4. CASE wps_last_code # Absent /\ wps_last_code \notin {3, 4}
    <3>1. mon'[p].pc = "end"
      BY <1>6, <2>4, PcUpdate DEF LastLook, Goto, Labels, Becomes
    <3> QED
      BY <2>1, <3>1
  <2> QED
    BY <2>2, <2>3, <2>4
<1>7. CASE EndStatus(p)
  <2>1. mon'[p].pc = "endfiles"
    BY <1>7, StatusUpdate DEF EndStatus, Expose, Labels, Codes, Becomes
  <2> QED
    BY <1>7, <2>1 DEF EndStatus
<1>8. CASE EndFiles(p)
  <2>1. mon'[p].pc = "endpid"
    BY <1>8, PcUpdate DEF EndFiles, Goto, Labels, Becomes
  <2> QED
    BY <1>8, <2>1 DEF EndFiles
<1>9. CASE EndPid(p)
  <2>1. mon'[p].pc = "gone"
    BY <1>9, PcUpdate DEF EndPid, Goto, Labels, Becomes
  <2> QED
    BY <1>9, <2>1 DEF EndPid
<1>11. CASE WatchNap(p)
  <2>1. mon'[p].pc = "watch"
    BY <1>11, PcUpdate DEF WatchNap, Goto, Labels, Becomes
  <2> QED
    BY <1>11, <2>1 DEF WatchNap
<1>10. ~WatchRead(p) /\ ~WatchMiss(p) /\ ~DelayOver(p) /\ ~ConnectUp(p) /\ ~ConnectOver(p)
       /\ ~LastSleep(p)
  BY DEF WatchRead, WatchMiss, DelayOver, ConnectUp, ConnectOver, LastSleep, At
<1> QED
  BY <1>1, <1>2, <1>3, <1>4, <1>5, <1>6, <1>7, <1>8, <1>9, <1>10, <1>11 DEF Monitor

\* The safety half of SignalledEnds, with a bound and for any timing of the
\* server: SIGUSR1 only sets a flag, no loop overlooks it twice, nothing resets it,
\* and the monitor has at most seven steps left wherever the signal finds it.
THEOREM WpsSignalledDescends == Spec => [][SignalledDescends]_vars
<1>1. TypeInv /\ [Next]_vars => [SignalledDescends]_vars
  <2> SUFFICES ASSUME TypeInv, [Next]_vars, NEW p \in Pids, mon[p].gotSignal
               PROVE  /\ mon'[p].gotSignal
                      /\ Monitor(p) => StepsLeft(mon'[p].pc) < StepsLeft(mon[p].pc)
                      /\ ~Monitor(p) => mon'[p].pc = mon[p].pc
    BY DEF SignalledDescends
  <2>1. CASE Monitor(p)
    <3>1. Effect(p)
      BY <2>1, MonitorStep
    <3>2. mon'[p].gotSignal
      BY <3>1 DEF Effect
    <3> QED
      BY <2>1, <3>2, SignalledStep
  <2>2. ASSUME ~Monitor(p) PROVE mon'[p].gotSignal /\ mon'[p].pc = mon[p].pc
    <3>1. CASE StartAbort \/ StartEngine \/ StartMark \/ StopAbort \/ EngineReport \/ EngineEnd
               \/ UNCHANGED vars
      BY <3>1 DEF StartAbort, StartEngine, StartMark, StopAbort, EngineReport, EngineEnd, vars
    <3>2. CASE StartKill \/ StopKill
      BY <3>2, KillStep
    <3>3. CASE StartMonitor
      <4>1. started + 1 \in Pids
        BY <3>3, BoundsAssumption DEF StartMonitor, TypeInv, ServerTypes, Pids
      <4>2. p # started + 1
        BY <4>1 DEF TypeInv, MonitorTypes, Local, Unborn, ServerTypes
      <4>3. Becomes(started + 1, "start", mon[started + 1].retry, mon[started + 1].wps_status,
                    mon[started + 1].gotSignal)
        BY <3>3, <4>1, PcUpdate DEF StartMonitor, Labels, TypeInv
      <4> QED
        BY <4>2, <4>3 DEF Becomes
    <3>4. ASSUME NEW q \in Pids, Monitor(q) PROVE mon'[p] = mon[p]
      <4>1. Effect(q) /\ q # p
        BY <2>2, <3>4, MonitorStep
      <4> QED
        BY <4>1 DEF Effect
    <3> QED
      BY <3>1, <3>2, <3>3, <3>4 DEF Next, StartRequest, StopRequest
  <2> QED
    BY <2>1, <2>2
<1> QED
  BY <1>1, TypeInvariant, PTL DEF Spec
=============================================================================
