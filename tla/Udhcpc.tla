------------------------------- MODULE Udhcpc -------------------------------
(***************************************************************************)
(* The DHCP client of the bridge: the main loop of udhcpc                  *)
(* (apps/busybox-1.8.1/networking/udhcp/dhcpc.c) with its board script     *)
(* /etc/udhcpc/dhcp.tcl, run as "udhcpc -i br0 -s dhcp.tcl -b".            *)
(*                                                                         *)
(* Time is kept as differences: left = timeout - monotonic_sec(), never    *)
(* below 0 because only its sign matters then, and age = now - start.  One *)
(* tick is a second; a timeout or a signal that is due is served before    *)
(* time goes on, unless the loop sleeps (nap).  Packets from the server    *)
(* are late, repeated or lost.                                             *)
(***************************************************************************)
EXTENDS Integers, Sequences, FiniteSets, FiniteSetsExt

CONSTANTS
  IPs,         \* the addresses of the server's pool
  Leases,      \* the lease times it grants
  MaxDelay,    \* bound: seconds a packet may be late
  MaxNet,      \* bound: packets under way
  MaxSigs,     \* bound: signals sent to the client
  ScriptWait,  \* seconds the script may keep the client waiting
  Static,      \* ip_lan, the address of the configuration file
  NoIP         \* no address

ASSUME PoolAssumption == IsFiniteSet(IPs) /\ IPs # {} /\ {Static, NoIP} \cap IPs = {}
ASSUME LeasesAssumption ==
  Leases \subseteq Nat /\ \E longest \in Leases : \A l \in Leases : l <= longest
ASSUME BoundsAssumption == {MaxDelay, MaxNet, MaxSigs, ScriptWait} \subseteq Nat

\* client_config and the constants of the loop, in seconds.
retries == 3
discoverWait == 3
againWait == 30
requestWait(n) == IF n = 2 THEN 10 ELSE 2
nakSleep == 3

MaxLease == Max(Leases)

\* The longest time the client waits, and INT_MAX, which never comes.
MaxLeft == Max({againWait, MaxLease})
Never == MaxLeft + 1

VARIABLES
  state,         \* of the client, "EXITED" when it does not run
  listen_mode, packet_num, requested_ip,
  lease, t1, t2,
  left,          \* timeout - now
  age,           \* now - start, while a lease is held
  nap,           \* seconds the loop sleeps, or waits for the script
  pipe,          \* the signal pipe
  sigs,          \* signals sent so far
  net,           \* packets on their way to the client
  given,         \* seconds for which the server keeps an address for us
  lease_status,  \* /tmp/dhcp_client_lease_status
  addr,          \* the address of br0
  wpsRunning,    \* /var/wpsRunning exists
  sent,          \* the last packet sent, in this second
  forgot         \* a release left the lease as it was

lvars == <<lease, t1, t2, age>>
script == <<lease_status, addr>>
outside == <<sigs, wpsRunning>>
vars == <<state, listen_mode, packet_num, requested_ip, lvars, left, nap, pipe,
          net, given, script, outside, sent, forgot>>

\* The states in which the client believes it has a lease.
Holding == {"BOUND", "RENEWING", "REBINDING", "RENEW_REQUESTED"}

Waiting == {"INIT_SELECTING", "REQUESTING", "RENEWING", "REBINDING", "RENEW_REQUESTED"}

\* A packet; cur: it answers the current xid.
Packets == [type : {"OFFER", "ACK", "NAK"}, ip : IPs, lease : Leases \cup {0},
            cur : BOOLEAN, delay : 0 .. MaxDelay]

Init ==
  /\ state = "INIT_SELECTING"
  /\ listen_mode = "RAW"
  /\ packet_num = 0
  /\ requested_ip = NoIP
  /\ lease = 0 /\ t1 = 0 /\ t2 = 0 /\ age = 0
  /\ left = 0
  /\ nap = 0
  /\ pipe = <<>>
  /\ sigs = 0
  /\ net = {}
  /\ given = [ip \in IPs |-> 0]
  /\ lease_status = "unbind"
  /\ addr = Static
  /\ wpsRunning \in BOOLEAN
  /\ sent = "none"
  /\ forgot = FALSE

-----------------------------------------------------------------------------
(* The script and the server *)

\* dhcp.tcl writes down the kind of event before it acts on it.
EventStatus(status) == lease_status' = status

\* dhcp.tcl bound and renew: the address is set.
ScriptOk(ip) == EventStatus("bind") /\ addr' = ip

\* dhcp.tcl deconfig, leasefail and nak: "On failure, don't replace IP if it
\* was already set".
ScriptFail ==
  /\ EventStatus("unbind")
  /\ addr' = IF addr = NoIP THEN Static ELSE addr

Packet(type, ip, l) == [type |-> type, ip |-> ip, lease |-> l, cur |-> TRUE, delay |-> 0]

\* What is in the air and of the current xid after msgs were sent.
Arrive(old, msgs) ==
  net' = IF Cardinality(old \cup msgs) <= MaxNet THEN old \cup msgs ELSE old

\* The server offers any address of its pool, or does not hear.
ServerDiscover(old) ==
  \E msgs \in {{}} \cup {{Packet("OFFER", ip, 0)} : ip \in IPs} : Arrive(old, msgs)

\* The server grants the address, refuses one it does not keep for us, or does
\* not hear.  It never takes back seconds it has granted.
ServerRequest(ip) ==
  \/ UNCHANGED <<net, given>>
  \/ \E l \in Leases :
       /\ Arrive(net, {Packet("ACK", ip, l)})
       /\ given' = [given EXCEPT ![ip] = Max({@, l})]
  \/ /\ given[ip] = 0
     /\ Arrive(net, {Packet("NAK", ip, 0)})
     /\ UNCHANGED given

\* The release reaches the server or is lost.
ServerRelease(ip) == given' \in {given, [given EXCEPT ![ip] = 0]}

-----------------------------------------------------------------------------
(* Timeouts *)

\* select() is not called when the time is over.
TimedOut == state # "EXITED" /\ nap = 0 /\ left = 0

\* Another packet may be sent.
RetriesLeft == packet_num < retries

\* Mutant: the time is counted from now.
UntilMutant(t) == t

\* timeout = start + t
Until(t) == Max({t - age, 0})

\* Mutant: the socket is kept.
ToInitMutant ==
  /\ state' = "INIT_SELECTING"
  /\ packet_num' = 0
  /\ UNCHANGED listen_mode
  /\ left' = 0
  /\ lease' = 0 /\ t1' = 0 /\ t2' = 0 /\ age' = 0

\* Back to INIT_SELECTING.  The times of the lease are not read again before
\* they are set; they are kept at 0.
ToInit ==
  /\ state' = "INIT_SELECTING"
  /\ packet_num' = 0
  /\ listen_mode' = "RAW"
  /\ left' = 0
  /\ lease' = 0 /\ t1' = 0 /\ t2' = 0 /\ age' = 0

\* Mutant: the xid is kept.
FreshXidMutant(first) == net

\* random_xid(): no packet under way answers the new one.
FreshXid(first) == IF first THEN {[m EXCEPT !.cur = FALSE] : m \in net} ELSE net

\* A discover packet, unless WPS is running.
Discover ==
  /\ TimedOut
  /\ state = "INIT_SELECTING"
  /\ RetriesLeft
  /\ IF wpsRunning
       THEN net' = FreshXid(packet_num = 0) /\ UNCHANGED sent
       ELSE ServerDiscover(FreshXid(packet_num = 0)) /\ sent' = "DISCOVER"
  /\ left' = discoverWait
  /\ packet_num' = packet_num + 1
  /\ UNCHANGED <<state, listen_mode, requested_ip, lvars, nap, pipe, given>>
  /\ UNCHANGED <<script, outside, forgot>>

\* Mutant: packet_num is not reset.
LeaseFailMutant ==
  /\ TimedOut
  /\ state = "INIT_SELECTING"
  /\ ~RetriesLeft
  /\ ScriptFail
  /\ left' = againWait
  /\ UNCHANGED <<state, listen_mode, packet_num, requested_ip, lvars, nap, pipe>>
  /\ UNCHANGED <<net, given, outside, sent, forgot>>

\* No lease; the client goes to the background and tries again later.
LeaseFail ==
  /\ TimedOut
  /\ state = "INIT_SELECTING"
  /\ ~RetriesLeft
  /\ ScriptFail
  /\ packet_num' = 0
  /\ left' = againWait
  /\ UNCHANGED <<state, listen_mode, requested_ip, lvars, nap, pipe, net, given>>
  /\ UNCHANGED <<outside, sent, forgot>>

Request ==
  /\ TimedOut
  /\ state \in {"RENEW_REQUESTED", "REQUESTING"}
  /\ RetriesLeft
  /\ ServerRequest(requested_ip)
  /\ left' = requestWait(packet_num)
  /\ packet_num' = packet_num + 1
  /\ sent' = "REQUEST"
  /\ UNCHANGED <<state, listen_mode, requested_ip, lvars, nap, pipe>>
  /\ UNCHANGED <<script, outside, forgot>>

\* No answer to any request.
GiveUp ==
  /\ TimedOut
  /\ state \in {"RENEW_REQUESTED", "REQUESTING"}
  /\ ~RetriesLeft
  /\ IF state = "RENEW_REQUESTED" THEN ScriptFail ELSE UNCHANGED script
  /\ ToInit
  /\ UNCHANGED <<requested_ip, nap, pipe, net, given, outside, sent, forgot>>

\* A phase of the lease ends this many seconds before the next one.
LastSpan == (lease \div 14400) + 1

\* Mutant: the last second is halved again.
TooShortMutant(span) == span <= LastSpan - 1

\* No more than this is left: the next phase begins.
TooShort(span) == span <= LastSpan

\* BOUND and RENEWING: another request, half way to t2.
Renew ==
  /\ TimedOut
  /\ state \in {"BOUND", "RENEWING"}
  /\ ~TooShort(t2 - t1)
  /\ state' = "RENEWING"
  /\ listen_mode' = "KERNEL"
  /\ ServerRequest(requested_ip)
  /\ t1' = (t2 - t1) \div 2 + t1
  /\ left' = Until(t1')
  /\ sent' = "REQUEST"
  /\ UNCHANGED <<packet_num, requested_ip, lease, t2, age, nap, pipe>>
  /\ UNCHANGED <<script, outside, forgot>>

EnterRebinding ==
  /\ TimedOut
  /\ state \in {"BOUND", "RENEWING"}
  /\ TooShort(t2 - t1)
  /\ state' = "REBINDING"
  /\ listen_mode' = "KERNEL"
  /\ left' = t2 - t1
  /\ UNCHANGED <<packet_num, requested_ip, lvars, nap, pipe, net, given>>
  /\ UNCHANGED <<script, outside, sent, forgot>>

\* REBINDING: another request, half way to the end of the lease.
Rebind ==
  /\ TimedOut
  /\ state = "REBINDING"
  /\ ~TooShort(lease - t2)
  /\ ServerRequest(requested_ip)
  /\ t2' = (lease - t2) \div 2 + t2
  /\ left' = Until(t2')
  /\ sent' = "REQUEST"
  /\ UNCHANGED <<state, listen_mode, packet_num, requested_ip, lease, t1, age>>
  /\ UNCHANGED <<nap, pipe, script, outside, forgot>>

LeaseLost ==
  /\ TimedOut
  /\ state = "REBINDING"
  /\ TooShort(lease - t2)
  /\ ScriptFail
  /\ ToInit
  /\ UNCHANGED <<requested_ip, nap, pipe, net, given, outside, sent, forgot>>

-----------------------------------------------------------------------------
(* Packets *)

\* A packet is read before the signals; it stays under way, so that it may
\* come again.
Received(m) ==
  /\ m \in net
  /\ state # "EXITED" /\ nap = 0 /\ left > 0
  /\ listen_mode # "NONE"
  /\ m.cur

ReceiveOffer ==
  \E m \in net :
    /\ Received(m)
    /\ state = "INIT_SELECTING"
    /\ m.type = "OFFER"
    /\ requested_ip' = m.ip
    /\ state' = "REQUESTING"
    /\ left' = 0
    /\ packet_num' = 0
    /\ UNCHANGED <<listen_mode, lvars, nap, pipe, net, given, script, outside, sent, forgot>>

\* The lease starts now, and its first timeout is set, before the script runs.
ReceiveAck ==
  \E m \in net :
    /\ Received(m)
    /\ state \in Waiting \ {"INIT_SELECTING"}
    /\ m.type = "ACK"
    /\ lease' = m.lease
    /\ t1' = m.lease \div 2
    /\ t2' = (m.lease * 7) \div 8
    /\ age' = 0
    /\ left' = t1'
    /\ requested_ip' = m.ip
    /\ ScriptOk(m.ip)
    /\ nap' \in {0, ScriptWait}
    /\ state' = "BOUND"
    /\ listen_mode' = "NONE"
    /\ UNCHANGED <<packet_num, pipe, net, given, outside, sent, forgot>>

ReceiveNak ==
  \E m \in net :
    /\ Received(m)
    /\ state \in Waiting \ {"INIT_SELECTING"}
    /\ m.type = "NAK"
    /\ ScriptFail
    /\ ToInit
    /\ requested_ip' = NoIP
    /\ nap' = nakSleep
    /\ UNCHANGED <<pipe, net, given, outside, sent, forgot>>

-----------------------------------------------------------------------------
(* Signals *)

\* A signal waits in the pipe.  It ends sleep(), but not the wait for the
\* script, which signal() has the kernel take up again.
Raise ==
  \E s \in {"USR1", "USR2", "TERM"} :
    /\ state # "EXITED"
    /\ sigs < MaxSigs
    /\ sigs' = sigs + 1
    /\ pipe' = Append(pipe, s)
    /\ nap' = IF state = "BOUND" THEN nap ELSE 0
    /\ UNCHANGED <<state, listen_mode, packet_num, requested_ip, lvars, left>>
    /\ UNCHANGED <<net, given, script, wpsRunning, sent, forgot>>

\* udhcp_sp_read
Signalled(s) ==
  /\ state # "EXITED" /\ nap = 0 /\ left > 0
  /\ pipe # <<>> /\ Head(pipe) = s
  /\ pipe' = Tail(pipe)

PerformRenewHolding ==
  /\ Signalled("USR1")
  /\ state \in {"BOUND", "RENEWING", "REBINDING"}
  /\ listen_mode' = IF state = "BOUND" THEN "KERNEL" ELSE listen_mode
  /\ state' = "RENEW_REQUESTED"
  /\ packet_num' = 0
  /\ left' = 0
  /\ UNCHANGED <<requested_ip, lvars, nap, net, given, script, outside, sent, forgot>>

\* From RENEW_REQUESTED, "impatient are we? fine, square 1".  In
\* INIT_SELECTING the client listens raw already.
PerformRenewAnew ==
  /\ Signalled("USR1")
  /\ state \in {"RENEW_REQUESTED", "REQUESTING", "RELEASED", "INIT_SELECTING"}
  /\ IF state = "RENEW_REQUESTED" THEN ScriptFail ELSE UNCHANGED script
  /\ ToInit
  /\ UNCHANGED <<requested_ip, nap, net, given, outside, sent, forgot>>

\* Mutant: only a quiet lease is given back.
ReleasesMutant == {"BOUND"}

\* The lease is given back in three of the four states that hold one.
Releases == {"BOUND", "RENEWING", "REBINDING"}

PerformRelease ==
  /\ Signalled("USR2")
  /\ IF state \in Releases
       THEN ScriptFail /\ ServerRelease(requested_ip) /\ UNCHANGED forgot
       ELSE UNCHANGED <<script, given>> /\ forgot' = (forgot \/ state = "RENEW_REQUESTED")
  /\ listen_mode' = "NONE"
  /\ state' = "RELEASED"
  /\ left' = Never
  /\ UNCHANGED <<packet_num, requested_ip, nap, net, outside, sent>>
  /\ lease' = 0 /\ t1' = 0 /\ t2' = 0 /\ age' = 0

\* The client is not run with -R: it ends and leaves everything as it is.
Terminate ==
  /\ Signalled("TERM")
  /\ state' = "EXITED"
  /\ UNCHANGED <<listen_mode, packet_num, requested_ip, lvars, left, nap>>
  /\ UNCHANGED <<net, given, script, outside, sent, forgot>>

\* dhcp.tcl startup, after the web server killed the client.
Startup ==
  /\ state = "EXITED"
  /\ ScriptFail
  /\ ToInit
  /\ requested_ip' = NoIP
  /\ pipe' = <<>>
  /\ net' = {[m EXCEPT !.cur = FALSE] : m \in net}
  /\ nap' = 0
  /\ UNCHANGED <<given, outside, sent>>
  /\ forgot' = FALSE

-----------------------------------------------------------------------------
(* The surroundings *)

\* A second passes.
Tick ==
  /\ nap > 0 \/ state = "EXITED" \/ (left > 0 /\ pipe = <<>>)
  /\ left' = IF left = Never THEN Never ELSE Max({left - 1, 0})
  /\ age' = IF state \in Holding THEN age + 1 ELSE age
  /\ nap' = Max({nap - 1, 0})
  /\ net' = {[m EXCEPT !.delay = @ + 1] : m \in {n \in net : n.delay < MaxDelay}}
  /\ given' = [ip \in IPs |-> Max({given[ip] - 1, 0})]
  /\ sent' = "none"
  /\ UNCHANGED <<state, listen_mode, packet_num, requested_ip, lease, t1, t2>>
  /\ UNCHANGED <<pipe, script, outside, forgot>>

\* WPS starts or ends (WpsMonitor).
WpsChanges ==
  /\ wpsRunning' = ~wpsRunning
  /\ UNCHANGED <<state, listen_mode, packet_num, requested_ip, lvars, left, nap>>
  /\ UNCHANGED <<pipe, net, given, script, sigs, sent, forgot>>

\* One turn of the client's loop.
Client ==
  \/ Discover \/ LeaseFail \/ Request \/ GiveUp
  \/ Renew \/ EnterRebinding \/ Rebind \/ LeaseLost
  \/ ReceiveOffer \/ ReceiveAck \/ ReceiveNak
  \/ PerformRenewHolding \/ PerformRenewAnew \/ PerformRelease \/ Terminate

Next == Client \/ Raise \/ Startup \/ Tick \/ WpsChanges

Spec == Init /\ [][Next]_vars

\* The kernel runs the client, and time passes.
FairSpec == Spec /\ WF_vars(Client) /\ WF_vars(Tick)

-----------------------------------------------------------------------------
(* Properties *)

\* Every variable has its type.
TypeOK ==
  /\ state \in Waiting \cup {"BOUND", "RELEASED", "EXITED"}
  /\ listen_mode \in {"NONE", "KERNEL", "RAW"}
  /\ packet_num \in 0 .. retries
  /\ requested_ip \in IPs \cup {NoIP}
  /\ lease \in Leases \cup {0}
  /\ 0 <= t1 /\ t1 <= lease /\ 0 <= t2 /\ t2 <= lease
  /\ left \in 0 .. MaxLeft \cup {Never}
  /\ age \in Nat
  /\ nap \in 0 .. Max({nakSleep, ScriptWait})
  /\ pipe \in Seq({"USR1", "USR2", "TERM"})
  /\ sigs \in 0 .. MaxSigs
  /\ net \subseteq Packets
  /\ given \in [IPs -> 0 .. MaxLease]
  /\ lease_status \in {"bind", "unbind"}
  /\ addr \in IPs \cup {Static, NoIP}
  /\ wpsRunning \in BOOLEAN
  /\ sent \in {"none", "DISCOVER", "REQUEST"}
  /\ forgot \in BOOLEAN

\* The socket fits the state: a client that waits for an answer has one open,
\* bound to its address only while it has an address (change_mode is called
\* far from the assignments to state).  Counters and times stay in range.
ListensForAnswer ==
  /\ TypeOK
  /\ state \in {"INIT_SELECTING", "REQUESTING"} => listen_mode = "RAW"
  /\ state \in Waiting \cap Holding => listen_mode = "KERNEL"
  /\ state \in {"BOUND", "RELEASED"} => listen_mode = "NONE"

\* What the script was last told agrees with the client: the lease file says
\* "bind" exactly while a lease is held, and br0 has the address the client
\* will ask to renew.  The exceptions are a client that was killed, and a
\* release that came in RENEW_REQUESTED.
StatusIsTrue ==
  \/ state = "EXITED" \/ forgot
  \/ IF state \in Holding
       THEN lease_status = "bind" /\ addr = requested_ip
       ELSE lease_status = "unbind"

\* Whatever timeouts, packets and signals come, and however t1 and t2 are
\* halved, a client that believes it has a lease is not past its end.  Two
\* things can take longer: a renewal asked for by a signal, until its three
\* requests have failed, and a script that outlasts a short lease, after which
\* REBINDING still takes the rest of a phase.
LeaseHonoured ==
  state \in Holding =>
    age <= Max({lease, ScriptWait + LastSpan})
             + (IF state = "RENEW_REQUESTED" THEN 14 ELSE 0)

\* The client never counts on an address for longer than the server keeps it,
\* apart from the time the packet took: no answer to an earlier exchange is
\* taken for an answer to the current one.
HeldWithinGrant ==
  state \in Holding => lease - age <= given[requested_ip] + MaxDelay

\* A client without a lease goes on asking: once WPS is over it sends a
\* discover packet or is doing something else.
KeepsAsking ==
  (state = "INIT_SELECTING" /\ ~wpsRunning)
    ~> (sent = "DISCOVER" \/ wpsRunning \/ state # "INIT_SELECTING")

\* A request is answered or given up: halving t1 and t2 comes to an end.
RequestEnds ==
  (state \in Waiting \ {"INIT_SELECTING"})
    ~> (state \in {"BOUND", "INIT_SELECTING", "RELEASED", "EXITED"})
=============================================================================
