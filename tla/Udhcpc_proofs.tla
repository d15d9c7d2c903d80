--------------------------- MODULE Udhcpc_proofs ----------------------------
(***************************************************************************)
(* Proofs about the DHCP client, for any pool of addresses, any lease      *)
(* times, any delay and number of packets under way, any number of signals *)
(* and any time the script may take.                                       *)
(***************************************************************************)
EXTENDS Udhcpc, TLAPS

\* The variables' types with what they rest on: the socket fits the state, a
\* client that asks for an address has one to ask for, t1 comes before t2, the
\* loop sleeps only after a NAK or an ACK, and only a client that was told to
\* release never wakes up.
TypeInv ==
  /\ ListensForAnswer
  /\ state \in Holding \cup {"REQUESTING"} => requested_ip \in IPs
  /\ t1 \in Int /\ t2 \in Int /\ t1 <= t2
  /\ nap > 0 => state \in {"BOUND", "INIT_SELECTING"}
  /\ left = Never => state \in {"RELEASED", "EXITED"}

\* Seconds the requests after the first n of RENEW_REQUESTED may take.
RequestsAfter(n) == IF n < retries THEN 14 - 2 * n ELSE 0

\* When the client wakes up next it is not past the end of its phase, or the
\* script has kept it.
TimeInv ==
  /\ state = "BOUND" /\ nap > 0 => age + nap <= ScriptWait
  /\ state \in {"BOUND", "RENEWING"} => age + left <= t1 \/ age + left <= ScriptWait
  /\ state = "REBINDING" => age + left <= t2 \/ age + left <= ScriptWait + LastSpan
  /\ state = "RENEW_REQUESTED" =>
       LET last == age + left + RequestsAfter(packet_num) - 14
       IN  last <= lease \/ last <= ScriptWait + LastSpan

\* Before the client takes an ACK again it has sent a discover packet with a new
\* xid.
XidOver ==
  \/ state \in {"RELEASED", "EXITED"}
  \/ state = "INIT_SELECTING" /\ packet_num = 0 /\ left = 0

\* The server keeps an address for as long as an ACK of the current xid grants
\* it, less the time the packet has been under way.  A release ends that, and
\* the xid too.
GrantInv ==
  /\ HeldWithinGrant
  /\ ~XidOver => \A m \in net : m.type = "ACK" /\ m.cur => m.lease <= given[m.ip] + m.delay

-----------------------------------------------------------------------------
(* Operators *)

\* The larger of two numbers.
LEMMA MaxPair ==
  ASSUME NEW a \in Int, NEW b \in Int
  PROVE  Max({a, b}) = IF a >= b THEN a ELSE b
<1> DEFINE m == IF a >= b THEN a ELSE b
<1>1. m \in {a, b} /\ \A y \in {a, b} : m >= y
  OBVIOUS
<1>2. \A x \in {a, b} : (\A y \in {a, b} : x >= y) => x = m
  OBVIOUS
<1> QED BY <1>1, <1>2 DEF Max

\* There is a longest lease, and no wait is longer than MaxLeft.
LEMMA LongestLease ==
  /\ MaxLease \in Nat /\ \A l \in Leases \cup {0} : l \in Nat /\ l <= MaxLease
  /\ MaxLeft \in Nat /\ MaxLeft >= 30 /\ MaxLeft >= MaxLease /\ Never = MaxLeft + 1
<1>1. MaxLease \in Leases /\ \A l \in Leases : MaxLease >= l
  BY LeasesAssumption DEF MaxLease, Max
<1>2. MaxLease \in Nat
  BY <1>1, LeasesAssumption
<1>3. MaxLeft = IF 30 >= MaxLease THEN 30 ELSE MaxLease
  BY <1>2, MaxPair DEF MaxLeft, againWait
<1> QED BY <1>1, <1>2, <1>3, LeasesAssumption DEF Never

\* The longest the loop sleeps, or waits for the script.
LEMMA LongestNap ==
  /\ ScriptWait \in Nat
  /\ Max({nakSleep, ScriptWait}) = IF 3 >= ScriptWait THEN 3 ELSE ScriptWait
BY BoundsAssumption, MaxPair DEF nakSleep

\* A timeout counted from the start of the lease, or at once when it is over.
LEMMA UntilIs ==
  ASSUME NEW t \in Nat, age \in Nat
  PROVE  /\ Until(t) \in Nat /\ Until(t) <= t
         /\ age + Until(t) = IF t >= age THEN t ELSE age
<1>1. Until(t) = IF t - age >= 0 THEN t - age ELSE 0
  BY MaxPair DEF Until
<1>2. CASE t >= age
  <2>1. Until(t) = t - age
    BY <1>1, <1>2
  <2> QED BY <1>2, <2>1
<1>3. CASE t < age
  <2>1. Until(t) = 0
    BY <1>1, <1>3
  <2> QED BY <1>3, <2>1
<1> QED BY <1>2, <1>3

\* What the server sends is a packet.
LEMMA PacketType ==
  ASSUME NEW type \in {"OFFER", "ACK", "NAK"}, NEW ip \in IPs, NEW l \in Leases \cup {0}
  PROVE  /\ Packet(type, ip, l) \in Packets
         /\ Packet(type, ip, l).type = type /\ Packet(type, ip, l).ip = ip
         /\ Packet(type, ip, l).lease = l /\ Packet(type, ip, l).delay = 0
BY BoundsAssumption DEF Packet, Packets

\* A packet that no longer answers the current xid.
LEMMA StalePackets ==
  ASSUME NEW S \in SUBSET Packets
  PROVE  /\ {[m EXCEPT !.cur = FALSE] : m \in S} \subseteq Packets
         /\ \A m \in {[n EXCEPT !.cur = FALSE] : n \in S} : m.cur = FALSE
<1>1. ASSUME NEW m \in S
      PROVE  [m EXCEPT !.cur = FALSE] \in Packets /\ [m EXCEPT !.cur = FALSE].cur = FALSE
  BY DEF Packets
<1> QED BY <1>1

\* A packet that is a second later.
LEMMA LatePackets ==
  ASSUME NEW S \in SUBSET Packets,
         NEW m \in {[n EXCEPT !.delay = @ + 1] : n \in {n \in S : n.delay < MaxDelay}}
  PROVE  /\ m \in Packets
         /\ \E n \in S : /\ m.type = n.type /\ m.ip = n.ip /\ m.lease = n.lease
                         /\ m.cur = n.cur /\ m.delay = n.delay + 1
<1>1. PICK n \in S : n.delay < MaxDelay /\ m = [n EXCEPT !.delay = @ + 1]
  OBVIOUS
<1>2. n \in Packets /\ n.delay \in 0 .. MaxDelay /\ MaxDelay \in Nat
  BY BoundsAssumption DEF Packets
<1>3. n.delay + 1 \in 0 .. MaxDelay
  BY <1>1, <1>2
<1>4. m.type = n.type /\ m.ip = n.ip /\ m.lease = n.lease /\ m.cur = n.cur /\ m.delay = n.delay + 1
  BY <1>1, <1>2 DEF Packets
<1>5. m \in Packets
  BY <1>1, <1>2, <1>3 DEF Packets
<1> QED BY <1>4, <1>5

\* What a discover packet brings: nothing, or an offer.
LEMMA ServerDiscoverEffect ==
  ASSUME NEW old \in SUBSET Packets, ServerDiscover(old)
  PROVE  /\ net' \subseteq Packets
         /\ \A m \in net' : m \in old \/ m.type = "OFFER"
<1>1. PICK msgs \in {{}} \cup {{Packet("OFFER", ip, 0)} : ip \in IPs} : Arrive(old, msgs)
  BY DEF ServerDiscover
<1>2. \A m \in msgs : m \in Packets /\ m.type = "OFFER"
  BY PacketType
<1>3. net' \subseteq old \cup msgs
  BY <1>1 DEF Arrive
<1> QED BY <1>2, <1>3

\* What a request brings: the server's grants only grow, an ACK is covered by
\* them.
LEMMA ServerRequestEffect ==
  ASSUME NEW ip \in IPs, net \subseteq Packets, given \in [IPs -> 0 .. MaxLease],
         ServerRequest(ip)
  PROVE  /\ net' \subseteq Packets /\ given' \in [IPs -> 0 .. MaxLease]
         /\ \A i \in IPs : given[i] <= given'[i]
         /\ \A m \in net' : m \in net \/ m.type # "ACK" \/ m.lease <= given'[m.ip] + m.delay
<1>1. CASE UNCHANGED <<net, given>>
  BY <1>1, LongestLease
<1>2. ASSUME NEW l \in Leases, Arrive(net, {Packet("ACK", ip, l)}),
             given' = [given EXCEPT ![ip] = Max({@, l})]
      PROVE  /\ net' \subseteq Packets /\ given' \in [IPs -> 0 .. MaxLease]
             /\ \A i \in IPs : given[i] <= given'[i]
             /\ \A m \in net' : m \in net \/ m.type # "ACK" \/ m.lease <= given'[m.ip] + m.delay
  <2>1. given[ip] \in 0 .. MaxLease /\ l \in 0 .. MaxLease
    BY LongestLease
  <2>2. Max({given[ip], l}) = IF given[ip] >= l THEN given[ip] ELSE l
    BY <2>1, MaxPair, LongestLease
  <2>3. given' = [given EXCEPT ![ip] = IF given[ip] >= l THEN given[ip] ELSE l]
    BY <1>2, <2>2
  <2>4. /\ given' \in [IPs -> 0 .. MaxLease] /\ l <= given'[ip]
        /\ \A i \in IPs : given[i] <= given'[i]
    BY <2>1, <2>3, LongestLease
  <2>5. net' \subseteq net \cup {Packet("ACK", ip, l)}
    BY <1>2 DEF Arrive
  <2>6. /\ Packet("ACK", ip, l) \in Packets /\ Packet("ACK", ip, l).ip = ip
        /\ Packet("ACK", ip, l).lease = l /\ Packet("ACK", ip, l).delay = 0
    BY PacketType
  <2>7. l <= given'[ip] + 0
    BY <2>1, <2>4
  <2> QED BY <2>4, <2>5, <2>6, <2>7
<1>3. CASE Arrive(net, {Packet("NAK", ip, 0)}) /\ UNCHANGED given
  <2>1. net' \subseteq net \cup {Packet("NAK", ip, 0)}
    BY <1>3 DEF Arrive
  <2>2. Packet("NAK", ip, 0) \in Packets /\ Packet("NAK", ip, 0).type = "NAK"
    BY PacketType
  <2> QED BY <1>3, <2>1, <2>2, LongestLease
<1> QED BY <1>1, <1>2, <1>3 DEF ServerRequest

-----------------------------------------------------------------------------
(* Types and the socket *)

\* The client starts in INIT_SELECTING with a raw socket and no lease.
LEMMA InitTypeInv == Init => TypeInv
<1> SUFFICES ASSUME Init PROVE TypeInv
  OBVIOUS
<1>1. given \in [IPs -> 0 .. MaxLease] /\ 0 \in 0 .. MaxLeft /\ 0 # Never
  BY LongestLease DEF Init
<1>2. 0 \in 0 .. Max({nakSleep, ScriptWait}) /\ 0 \in 0 .. MaxSigs
  BY LongestNap, BoundsAssumption
<1>3. TypeOK
  <2>1. packet_num \in 0 .. retries /\ lease \in Leases \cup {0} /\ age \in Nat
        /\ 0 <= t1 /\ t1 <= lease /\ 0 <= t2 /\ t2 <= lease
    BY DEF Init, retries
  <2>2. net \subseteq Packets /\ forgot \in BOOLEAN
    BY Zenon DEF Init
  <2>3. pipe \in Seq({"USR1", "USR2", "TERM"})
    BY DEF Init
  <2> QED BY <1>1, <1>2, <2>1, <2>2, <2>3 DEF Init, TypeOK, Waiting
<1> QED BY <1>1, <1>3 DEF Init, TypeInv, ListensForAnswer, Waiting, Holding

\* Every step keeps them.
LEMMA NextTypeInv == TypeInv /\ [Next]_vars => TypeInv'
<1> SUFFICES ASSUME TypeInv, [Next]_vars PROVE TypeInv'
  OBVIOUS
<1> USE DEF TypeInv, ListensForAnswer
<1>c. /\ MaxLease \in Nat /\ \A l \in Leases \cup {0} : l \in Nat /\ l <= MaxLease
      /\ MaxLeft \in Nat /\ MaxLeft >= 30 /\ MaxLeft >= MaxLease /\ Never = MaxLeft + 1
  BY LongestLease
<1>n. /\ ScriptWait \in 0 .. Max({nakSleep, ScriptWait}) /\ 3 \in 0 .. Max({nakSleep, ScriptWait})
      /\ 0 \in 0 .. Max({nakSleep, ScriptWait}) /\ Max({nakSleep, ScriptWait}) \in Nat
  BY LongestNap
<1>t. /\ lease \in Nat /\ lease <= MaxLease /\ t1 \in Nat /\ t2 \in Nat
      /\ t1 <= t2 /\ t2 <= lease /\ left \in Nat /\ age \in Nat
      /\ nap \in Nat /\ packet_num \in 0 .. 3
  BY <1>c, <1>n DEF TypeOK, retries
<1>1. CASE Discover
  <2>1. net' \subseteq Packets /\ sent' \in {"none", "DISCOVER", "REQUEST"}
    <3>1. FreshXid(packet_num = 0) \in SUBSET Packets
      BY StalePackets DEF FreshXid, TypeOK
    <3> QED BY <1>1, <3>1, ServerDiscoverEffect DEF Discover, TypeOK
  <2>2. /\ state = "INIT_SELECTING" /\ nap = 0 /\ left' = 3 /\ packet_num' \in 0 .. 3
        /\ UNCHANGED <<state, listen_mode, requested_ip, lvars, nap, pipe, given>>
        /\ UNCHANGED <<script, outside, forgot>>
    BY <1>1, <1>t DEF Discover, TimedOut, RetriesLeft, discoverWait, retries
  <2>3. left' \in 0 .. MaxLeft /\ left' # Never
    BY <1>c, <2>2
  <2> QED BY <2>1, <2>2, <2>3 DEF TypeOK, lvars, script, outside, Waiting, Holding, retries
<1>2. CASE LeaseFail
  <2>1. /\ state = "INIT_SELECTING" /\ left' = 30 /\ packet_num' = 0
        /\ lease_status' = "unbind" /\ addr' \in {addr, Static}
        /\ UNCHANGED <<state, listen_mode, requested_ip, lvars, nap, pipe, net, given>>
        /\ UNCHANGED <<outside, sent, forgot>>
    BY <1>2 DEF LeaseFail, ScriptFail, EventStatus, againWait
  <2>2. left' \in 0 .. MaxLeft /\ left' # Never /\ packet_num' \in 0 .. 3
    BY <1>c, <2>1
  <2> QED BY <2>1, <2>2 DEF TypeOK, lvars, outside, Waiting, Holding, retries
<1>3. CASE Request
  <2>1. /\ state \in {"RENEW_REQUESTED", "REQUESTING"} /\ ServerRequest(requested_ip)
        /\ left' \in {2, 10} /\ packet_num' \in 0 .. 3 /\ sent' = "REQUEST"
        /\ UNCHANGED <<state, listen_mode, requested_ip, lvars, nap, pipe>>
        /\ UNCHANGED <<script, outside, forgot>>
    BY <1>3, <1>t DEF Request, RetriesLeft, requestWait, retries
  <2>2. net' \subseteq Packets /\ given' \in [IPs -> 0 .. MaxLease]
    BY <2>1, ServerRequestEffect DEF TypeOK, Holding
  <2>3. left' \in 0 .. MaxLeft /\ left' # Never
    BY <1>c, <2>1
  <2> QED BY <2>1, <2>2, <2>3 DEF TypeOK, lvars, script, outside, Waiting, Holding, retries
<1>a. ASSUME ToInit, lease_status' \in {"bind", "unbind"}, addr' \in {addr, Static},
             requested_ip' \in {requested_ip, NoIP}, nap' \in {0, 3, nap}, sent' = sent,
             nap' > 0 => nap' # nap \/ state \in {"BOUND", "INIT_SELECTING"},
             pipe' \in Seq({"USR1", "USR2", "TERM"}), UNCHANGED <<given, outside>>,
             net' \subseteq Packets, forgot' \in BOOLEAN
      PROVE  TypeInv'
  <2>1. /\ state' = "INIT_SELECTING" /\ listen_mode' = "RAW" /\ packet_num' = 0
        /\ left' = 0 /\ lease' = 0 /\ t1' = 0 /\ t2' = 0 /\ age' = 0
    BY <1>a DEF ToInit
  <2>2. left' \in 0 .. MaxLeft /\ left' # Never /\ packet_num' \in 0 .. 3
    BY <1>c, <2>1
  <2>3. nap' \in 0 .. Max({nakSleep, ScriptWait})
    BY <1>a, <1>n DEF TypeOK
  <2> QED BY <1>a, <2>1, <2>2, <2>3 DEF TypeOK, outside, Waiting, Holding, retries
<1>b. ScriptFail => lease_status' \in {"bind", "unbind"} /\ addr' \in {addr, Static}
  BY DEF ScriptFail, EventStatus
<1>s. UNCHANGED script => lease_status' \in {"bind", "unbind"} /\ addr' \in {addr, Static}
  BY DEF script, TypeOK
<1>4. CASE GiveUp
  <2>1. /\ ToInit /\ nap = 0
        /\ UNCHANGED <<requested_ip, nap, pipe, net, given, outside, sent, forgot>>
    BY <1>4 DEF GiveUp, TimedOut
  <2> QED BY <1>4, <1>a, <1>b, <1>s, <2>1 DEF GiveUp, TypeOK
<1>5. CASE Renew
  <2>1. /\ state \in {"BOUND", "RENEWING"} /\ state' = "RENEWING" /\ listen_mode' = "KERNEL"
        /\ ServerRequest(requested_ip) /\ nap = 0 /\ sent' = "REQUEST"
        /\ t1' = (t2 - t1) \div 2 + t1 /\ left' = Until(t1')
        /\ UNCHANGED <<packet_num, requested_ip, lease, t2, age, nap, pipe>>
        /\ UNCHANGED <<script, outside, forgot>>
    BY <1>5 DEF Renew, TimedOut
  <2>2. net' \subseteq Packets /\ given' \in [IPs -> 0 .. MaxLease]
    BY <2>1, ServerRequestEffect DEF TypeOK, Holding
  <2>3. t1' \in Nat /\ t1' <= t2
    BY <1>t, <2>1
  <2>4. left' \in Nat /\ left' <= t1'
    BY <1>t, <2>1, <2>3, UntilIs
  <2>5. left' \in 0 .. MaxLeft /\ left' # Never
    BY <1>c, <1>t, <2>3, <2>4
  <2>6. /\ 0 <= t1' /\ t1' <= lease' /\ 0 <= t2' /\ t2' <= lease' /\ t1' \in Int /\ t2' \in Int
        /\ t1' <= t2'
    BY <1>t, <2>1, <2>3
  <2> QED BY <2>1, <2>2, <2>5, <2>6 DEF TypeOK, script, outside, Waiting, Holding
<1>6. CASE EnterRebinding
  <2>1. /\ state \in {"BOUND", "RENEWING"} /\ state' = "REBINDING" /\ listen_mode' = "KERNEL"
        /\ left' = t2 - t1 /\ nap = 0
        /\ UNCHANGED <<packet_num, requested_ip, lvars, nap, pipe, net, given>>
        /\ UNCHANGED <<script, outside, sent, forgot>>
    BY <1>6 DEF EnterRebinding, TimedOut
  <2>2. left' \in 0 .. MaxLeft /\ left' # Never
    BY <1>c, <1>t, <2>1
  <2> QED BY <2>1, <2>2 DEF TypeOK, lvars, script, outside, Waiting, Holding
<1>7. CASE Rebind
  <2>1. /\ state = "REBINDING" /\ ServerRequest(requested_ip) /\ nap = 0 /\ sent' = "REQUEST"
        /\ t2' = (lease - t2) \div 2 + t2 /\ left' = Until(t2')
        /\ UNCHANGED <<state, listen_mode, packet_num, requested_ip, lease, t1, age>>
        /\ UNCHANGED <<nap, pipe, script, outside, forgot>>
    BY <1>7 DEF Rebind, TimedOut
  <2>2. net' \subseteq Packets /\ given' \in [IPs -> 0 .. MaxLease]
    BY <2>1, ServerRequestEffect DEF TypeOK, Holding
  <2>3. t2' \in Nat /\ t2 <= t2' /\ t2' <= lease
    BY <1>t, <2>1
  <2>4. left' \in Nat /\ left' <= t2'
    BY <1>t, <2>1, <2>3, UntilIs
  <2>5. left' \in 0 .. MaxLeft /\ left' # Never
    BY <1>c, <1>t, <2>3, <2>4
  <2>6. /\ 0 <= t1' /\ t1' <= lease' /\ 0 <= t2' /\ t2' <= lease' /\ t1' \in Int /\ t2' \in Int
        /\ t1' <= t2'
    BY <1>t, <2>1, <2>3
  <2> QED BY <2>1, <2>2, <2>5, <2>6 DEF TypeOK, script, outside, Waiting, Holding
<1>8. CASE LeaseLost
  <2>1. /\ ToInit /\ nap = 0
        /\ UNCHANGED <<requested_ip, nap, pipe, net, given, outside, sent, forgot>>
    BY <1>8 DEF LeaseLost, TimedOut
  <2> QED BY <1>8, <1>a, <1>b, <2>1 DEF LeaseLost, TypeOK
<1>9. CASE ReceiveOffer
  <2>1. PICK m \in net :
          /\ state = "INIT_SELECTING" /\ requested_ip' = m.ip /\ state' = "REQUESTING"
          /\ left' = 0 /\ packet_num' = 0 /\ nap = 0
          /\ UNCHANGED <<listen_mode, lvars, nap, pipe, net, given, script, outside, sent, forgot>>
    BY <1>9 DEF ReceiveOffer, Received
  <2>2. requested_ip' \in IPs
    BY <2>1 DEF TypeOK, Packets
  <2>3. left' \in 0 .. MaxLeft /\ left' # Never /\ packet_num' \in 0 .. 3
    BY <1>c, <2>1
  <2> QED BY <2>1, <2>2, <2>3 DEF TypeOK, lvars, script, outside, Waiting, Holding, retries
<1>10. CASE ReceiveAck
  <2>1. PICK m \in net :
          /\ lease' = m.lease /\ t1' = m.lease \div 2 /\ t2' = (m.lease * 7) \div 8
          /\ age' = 0 /\ left' = t1' /\ requested_ip' = m.ip /\ ScriptOk(m.ip)
          /\ nap' \in {0, ScriptWait} /\ state' = "BOUND" /\ listen_mode' = "NONE"
          /\ UNCHANGED <<packet_num, pipe, net, given, outside, sent, forgot>>
    BY <1>10 DEF ReceiveAck
  <2>2. m.ip \in IPs /\ m.lease \in Leases \cup {0}
    BY <2>1 DEF TypeOK, Packets
  <2>3. m.lease \in Nat /\ m.lease <= MaxLease
    BY <1>c, <2>2
  <2>4. /\ 0 <= t1' /\ t1' <= t2' /\ t2' <= lease' /\ t1' \in Int /\ t2' \in Int
        /\ t1' <= lease' /\ 0 <= t2'
    BY <2>1, <2>3
  <2>5. left' \in 0 .. MaxLeft /\ left' # Never
    BY <1>c, <2>1, <2>3
  <2>6. nap' \in 0 .. Max({nakSleep, ScriptWait})
    BY <1>n, <2>1
  <2>7. lease_status' \in {"bind", "unbind"} /\ addr' \in IPs
    BY <2>1, <2>2 DEF ScriptOk, EventStatus
  <2>8. lease' \in Leases \cup {0} /\ requested_ip' \in IPs /\ age' \in Nat
    BY <2>1, <2>2
  <2>9. /\ state' = "BOUND" /\ listen_mode' = "NONE"
        /\ UNCHANGED <<packet_num, pipe, net, given, outside, sent, forgot>>
    BY <2>1
  <2> QED BY <2>4, <2>5, <2>6, <2>7, <2>8, <2>9 DEF TypeOK, outside, Waiting, Holding
<1>11. CASE ReceiveNak
  <2>1. /\ ToInit /\ ScriptFail /\ requested_ip' = NoIP /\ nap' = 3 /\ nap = 0
        /\ UNCHANGED <<pipe, net, given, outside, sent, forgot>>
    BY <1>11 DEF ReceiveNak, Received, nakSleep
  <2> QED BY <1>a, <1>b, <2>1 DEF TypeOK
<1>12. CASE Raise
  <2>1. sigs' \in 0 .. MaxSigs
    BY <1>12, BoundsAssumption DEF Raise, TypeOK
  <2>2. pipe' \in Seq({"USR1", "USR2", "TERM"})
    BY <1>12 DEF Raise, TypeOK
  <2>3. /\ nap' = IF state = "BOUND" THEN nap ELSE 0
        /\ UNCHANGED <<state, listen_mode, packet_num, requested_ip, lvars, left>>
        /\ UNCHANGED <<net, given, script, wpsRunning, sent, forgot>>
    BY <1>12 DEF Raise
  <2> QED BY <1>n, <2>1, <2>2, <2>3 DEF TypeOK, lvars, script
<1>p. ASSUME NEW sig, Signalled(sig) PROVE pipe' \in Seq({"USR1", "USR2", "TERM"}) /\ nap = 0
  BY <1>p DEF Signalled, TypeOK
<1>13. CASE PerformRenewHolding
  <2>1. pipe' \in Seq({"USR1", "USR2", "TERM"}) /\ nap = 0
    BY <1>13, <1>p DEF PerformRenewHolding
  <2>2. /\ state \in {"BOUND", "RENEWING", "REBINDING"} /\ state' = "RENEW_REQUESTED"
        /\ listen_mode' = IF state = "BOUND" THEN "KERNEL" ELSE listen_mode
        /\ packet_num' = 0 /\ left' = 0
        /\ UNCHANGED <<requested_ip, lvars, nap, net, given, script, outside, sent, forgot>>
    BY <1>13 DEF PerformRenewHolding
  <2>3. left' \in 0 .. MaxLeft /\ left' # Never /\ packet_num' \in 0 .. 3
    BY <1>c, <2>2
  <2> QED BY <2>1, <2>2, <2>3 DEF TypeOK, lvars, script, outside, Waiting, Holding, retries
<1>14. CASE PerformRenewAnew
  <2>1. pipe' \in Seq({"USR1", "USR2", "TERM"}) /\ nap = 0
    BY <1>14, <1>p DEF PerformRenewAnew
  <2>2. ToInit /\ UNCHANGED <<requested_ip, nap, net, given, outside, sent, forgot>>
    BY <1>14 DEF PerformRenewAnew
  <2> QED BY <1>14, <1>a, <1>b, <1>s, <2>1, <2>2 DEF PerformRenewAnew, TypeOK
<1>15. CASE PerformRelease
  <2>1. pipe' \in Seq({"USR1", "USR2", "TERM"}) /\ nap = 0
    BY <1>15, <1>p DEF PerformRelease
  <2>2. /\ listen_mode' = "NONE" /\ state' = "RELEASED" /\ left' = Never
        /\ UNCHANGED <<packet_num, requested_ip, nap, net, outside, sent>>
        /\ lease' = 0 /\ t1' = 0 /\ t2' = 0 /\ age' = 0
    BY <1>15 DEF PerformRelease
  <2>3. given' \in [IPs -> 0 .. MaxLease]
    BY <1>15, <1>c DEF PerformRelease, ServerRelease, TypeOK
  <2>4. forgot' \in BOOLEAN
    BY <1>15 DEF PerformRelease, TypeOK
  <2>5. lease_status' \in {"bind", "unbind"} /\ addr' \in {addr, Static}
    BY <1>15, <1>b, <1>s DEF PerformRelease
  <2> QED BY <2>1, <2>2, <2>3, <2>4, <2>5 DEF TypeOK, outside, Waiting, Holding
<1>16. CASE Terminate
  <2>1. pipe' \in Seq({"USR1", "USR2", "TERM"}) /\ nap = 0
    BY <1>16, <1>p DEF Terminate
  <2>2. /\ state' = "EXITED"
        /\ UNCHANGED <<listen_mode, packet_num, requested_ip, lvars, left, nap>>
        /\ UNCHANGED <<net, given, script, outside, sent, forgot>>
    BY <1>16 DEF Terminate
  <2> QED BY <2>1, <2>2 DEF TypeOK, lvars, script, outside, Waiting, Holding
<1>17. CASE Startup
  <2>1. /\ ToInit /\ ScriptFail /\ requested_ip' = NoIP /\ pipe' = <<>> /\ nap' = 0
        /\ net' = {[m EXCEPT !.cur = FALSE] : m \in net}
        /\ UNCHANGED <<given, outside, sent>> /\ forgot' = FALSE
    BY <1>17 DEF Startup
  <2>2. net' \subseteq Packets
    BY <2>1, StalePackets DEF TypeOK
  <2>3. pipe' \in Seq({"USR1", "USR2", "TERM"})
    BY <2>1
  <2>4. forgot' \in BOOLEAN
    BY <2>1
  <2> QED BY <1>a, <1>b, <2>1, <2>2, <2>3, <2>4
<1>18. CASE Tick
  <2>1. /\ left' = IF left = Never THEN Never ELSE Max({left - 1, 0})
        /\ age' = IF state \in Holding THEN age + 1 ELSE age
        /\ nap' = Max({nap - 1, 0})
        /\ net' = {[m EXCEPT !.delay = @ + 1] : m \in {n \in net : n.delay < MaxDelay}}
        /\ given' = [ip \in IPs |-> Max({given[ip] - 1, 0})] /\ sent' = "none"
        /\ UNCHANGED <<state, listen_mode, packet_num, requested_ip, lease, t1, t2>>
        /\ UNCHANGED <<pipe, script, outside, forgot>>
    BY <1>18 DEF Tick
  <2>2. /\ Max({left - 1, 0}) = IF left - 1 >= 0 THEN left - 1 ELSE 0
        /\ Max({nap - 1, 0}) = IF nap - 1 >= 0 THEN nap - 1 ELSE 0
    BY <1>t, MaxPair
  <2>3. left' \in 0 .. MaxLeft \cup {Never} /\ (left' = Never => left = Never)
    BY <1>c, <1>t, <2>1, <2>2 DEF TypeOK
  <2>4. nap' \in 0 .. Max({nakSleep, ScriptWait}) /\ (nap' > 0 => nap > 0)
    BY <1>n, <1>t, <2>1, <2>2 DEF TypeOK
  <2>5. net' \subseteq Packets
    BY <2>1, LatePackets DEF TypeOK
  <2>6. ASSUME NEW ip \in IPs PROVE Max({given[ip] - 1, 0}) \in 0 .. MaxLease
    <3>1. given[ip] \in 0 .. MaxLease
      BY DEF TypeOK
    <3>2. Max({given[ip] - 1, 0}) = IF given[ip] - 1 >= 0 THEN given[ip] - 1 ELSE 0
      BY <1>c, <3>1, MaxPair
    <3> QED BY <1>c, <3>1, <3>2
  <2>7. given' \in [IPs -> 0 .. MaxLease]
    BY <2>1, <2>6
  <2>8. age' \in Nat
    BY <1>t, <2>1
  <2>9. /\ UNCHANGED <<state, listen_mode, packet_num, requested_ip, lease, t1, t2>>
        /\ UNCHANGED <<pipe, script, outside, forgot>> /\ sent' = "none"
    BY <2>1
  <2> QED BY <2>3, <2>4, <2>5, <2>7, <2>8, <2>9 DEF TypeOK, script, outside
<1>19. CASE WpsChanges
  <2>1. /\ wpsRunning' \in BOOLEAN
        /\ UNCHANGED <<state, listen_mode, packet_num, requested_ip, lvars, left, nap>>
        /\ UNCHANGED <<pipe, net, given, script, sigs, sent, forgot>>
    BY <1>19 DEF WpsChanges, TypeOK
  <2> QED BY <2>1 DEF TypeOK, lvars, script
<1>20. CASE UNCHANGED vars
  BY <1>20 DEF vars, lvars, script, outside, TypeOK
<1> QED BY <1>1, <1>2, <1>3, <1>4, <1>5, <1>6, <1>7, <1>8, <1>9, <1>10, <1>11, <1>12, <1>13,
           <1>14, <1>15, <1>16, <1>17, <1>18, <1>19, <1>20 DEF Next, Client

\* They hold in every turn of the loop.
LEMMA ClientTypes == Spec => []TypeInv
BY InitTypeInv, NextTypeInv, PTL DEF Spec

-----------------------------------------------------------------------------
(* The lease file *)

\* Whatever ends a lease runs the script first, or is the release that forgets.
LEMMA NextStatus == StatusIsTrue /\ [Next]_vars => StatusIsTrue'
<1> SUFFICES ASSUME StatusIsTrue, [Next]_vars PROVE StatusIsTrue'
  OBVIOUS
<1> USE DEF StatusIsTrue, Holding
<1>1. ASSUME UNCHANGED <<state, requested_ip, script, forgot>> PROVE StatusIsTrue'
  BY <1>1 DEF script
<1>2. CASE Discover \/ Request \/ Rebind \/ Raise \/ Tick \/ WpsChanges \/ UNCHANGED vars
  BY <1>1, <1>2 DEF Discover, Request, Rebind, Raise, Tick, WpsChanges, vars, script
<1>3. ASSUME state' = "INIT_SELECTING", UNCHANGED script, UNCHANGED forgot,
             state \notin Holding, state # "EXITED"
      PROVE  StatusIsTrue'
  BY <1>3 DEF script
<1>4. ASSUME state' = "INIT_SELECTING", ScriptFail PROVE StatusIsTrue'
  BY <1>4 DEF ScriptFail, EventStatus
<1>5. CASE LeaseFail
  BY <1>4, <1>5 DEF LeaseFail
<1>6. CASE GiveUp
  BY <1>3, <1>4, <1>6 DEF GiveUp, ToInit
<1>7. CASE Renew \/ EnterRebinding
  <2>1. state \in Holding /\ state' \in Holding /\ UNCHANGED <<requested_ip, script, forgot>>
    BY <1>7 DEF Renew, EnterRebinding
  <2> QED BY <2>1 DEF script
<1>8. CASE LeaseLost \/ Startup \/ ReceiveNak
  BY <1>4, <1>8 DEF LeaseLost, Startup, ReceiveNak, ToInit
<1>9. CASE ReceiveOffer
  BY <1>9 DEF ReceiveOffer, script
<1>10. CASE ReceiveAck
  BY <1>10 DEF ReceiveAck, ScriptOk, EventStatus
<1>11. CASE PerformRenewHolding
  <2>1. state \in Holding /\ state' \in Holding /\ state # "EXITED"
        /\ UNCHANGED <<requested_ip, script, forgot>>
    BY <1>11 DEF PerformRenewHolding
  <2> QED BY <2>1 DEF script
<1>12. CASE PerformRenewAnew
  BY <1>3, <1>4, <1>12 DEF PerformRenewAnew, ToInit
<1>13. CASE PerformRelease
  BY <1>13 DEF PerformRelease, Signalled, Releases, ScriptFail, EventStatus, script
<1>14. CASE Terminate
  BY <1>14 DEF Terminate
<1> QED BY <1>2, <1>5, <1>6, <1>7, <1>8, <1>9, <1>10, <1>11, <1>12, <1>13, <1>14 DEF Next, Client

-----------------------------------------------------------------------------
(* Times *)

\* The times are natural numbers, in the order in which they come.
LEMMA TimeNumbers ==
  ASSUME TypeInv
  PROVE  /\ lease \in Nat /\ t1 \in Nat /\ t2 \in Nat /\ t1 <= t2 /\ t2 <= lease
         /\ left \in Nat /\ age \in Nat /\ nap \in Nat /\ packet_num \in 0 .. 3
         /\ ScriptWait \in Nat /\ LastSpan \in Nat
<1>1. lease \in Nat
  BY LongestLease DEF TypeInv, ListensForAnswer, TypeOK
<1>2. LastSpan \in Nat
  BY <1>1 DEF LastSpan
<1>3. left \in Nat
  BY LongestLease DEF TypeInv, ListensForAnswer, TypeOK
<1>4. nap \in Nat /\ ScriptWait \in Nat
  BY LongestNap DEF TypeInv, ListensForAnswer, TypeOK
<1> QED BY <1>1, <1>2, <1>3, <1>4 DEF TypeInv, ListensForAnswer, TypeOK, retries

\* Every timeout is set within the phase, and time stops for a timeout that is
\* due, unless the script keeps the client.
LEMMA NextTimeInv == TypeInv /\ TypeInv' /\ TimeInv /\ [Next]_vars => TimeInv'
<1> SUFFICES ASSUME TypeInv, TypeInv', TimeInv, [Next]_vars PROVE TimeInv'
  OBVIOUS
<1>t. /\ lease \in Nat /\ t1 \in Nat /\ t2 \in Nat /\ t1 <= t2 /\ t2 <= lease
      /\ left \in Nat /\ age \in Nat /\ nap \in Nat /\ packet_num \in 0 .. 3
      /\ ScriptWait \in Nat /\ LastSpan \in Nat
  BY TimeNumbers
<1>n. nap > 0 => state \in {"BOUND", "INIT_SELECTING"}
  BY DEF TypeInv
<1>l. lease' = lease => LastSpan' = LastSpan
  BY DEF LastSpan
<1>1. CASE state' \notin Holding
  BY <1>1 DEF TimeInv, Holding
<1>2. ASSUME UNCHANGED <<state, lvars, left, packet_num>>, nap' <= nap, nap' \in Nat
      PROVE  TimeInv'
  <2>1. /\ UNCHANGED <<state, lease, t1, t2, age, left>> /\ LastSpan' = LastSpan
        /\ RequestsAfter(packet_num') = RequestsAfter(packet_num)
    BY <1>2, <1>l DEF lvars
  <2>2. ASSUME nap' > 0 PROVE nap > 0
    BY <1>2, <1>t, <2>2
  <2>3. \A x, y, z, w \in Int : x <= y /\ z + y <= w => z + x <= w
    OBVIOUS
  <2>4. ASSUME state = "BOUND", nap' > 0 PROVE age + nap' <= ScriptWait
    <3>1. age + nap <= ScriptWait
      BY <2>2, <2>4 DEF TimeInv
    <3>2. nap \in Int /\ nap' \in Int /\ age \in Int /\ ScriptWait \in Int /\ nap' <= nap
      BY <1>2, <1>t
    <3> QED BY <2>3, <3>1, <3>2, Zenon
  <2> QED BY <2>1, <2>4 DEF TimeInv
<1>3. CASE Raise
  <2>1. UNCHANGED <<state, lvars, left, packet_num>> /\ nap' \in {0, nap}
    BY <1>3 DEF Raise
  <2> QED BY <1>2, <1>t, <2>1
<1>4. CASE WpsChanges \/ UNCHANGED vars
  <2>1. UNCHANGED <<state, lvars, left, packet_num>> /\ nap' = nap
    BY <1>4 DEF WpsChanges, vars
  <2> QED BY <1>2, <1>t, <2>1
<1>5. CASE Discover \/ LeaseFail \/ GiveUp \/ LeaseLost \/ ReceiveOffer \/ ReceiveNak
           \/ PerformRenewAnew \/ PerformRelease \/ Terminate \/ Startup
  BY <1>1, <1>5 DEF Discover, LeaseFail, GiveUp, LeaseLost, ReceiveOffer, ReceiveNak,
     PerformRenewAnew, PerformRelease, Terminate, Startup, ToInit, Holding
<1>6. CASE Request
  <2>1. /\ left = 0 /\ packet_num < 3 /\ left' = IF packet_num = 2 THEN 10 ELSE 2
        /\ packet_num' = packet_num + 1 /\ state \in {"RENEW_REQUESTED", "REQUESTING"}
        /\ UNCHANGED <<state, lvars>>
    BY <1>6 DEF Request, TimedOut, RetriesLeft, requestWait, retries
  <2>2. left' + RequestsAfter(packet_num') = RequestsAfter(packet_num)
    BY <1>t, <2>1 DEF RequestsAfter, retries
  <2>3. left' \in Nat /\ RequestsAfter(packet_num') \in Int /\ RequestsAfter(packet_num) \in Int
    BY <1>t, <2>1 DEF RequestsAfter, retries
  <2>4. age' + left' + RequestsAfter(packet_num') - 14
            = age + left + RequestsAfter(packet_num) - 14
    BY <1>t, <2>1, <2>2, <2>3 DEF lvars
  <2> QED BY <1>l, <2>1, <2>4 DEF TimeInv, lvars
<1>7. CASE Renew
  <2>1. /\ left = 0 /\ state \in {"BOUND", "RENEWING"} /\ state' = "RENEWING"
        /\ t1' = (t2 - t1) \div 2 + t1 /\ left' = Until(t1') /\ UNCHANGED <<t2, age>>
    BY <1>7 DEF Renew, TimedOut
  <2>2. t1' \in Nat /\ t1 <= t1'
    BY <1>t, <2>1
  <2>3. age + left' = IF t1' >= age THEN t1' ELSE age
    BY <1>t, <2>1, <2>2, UntilIs
  <2>4. age <= t1 \/ age <= ScriptWait
    BY <1>t, <2>1 DEF TimeInv
  <2>5. age' + left' <= t1' \/ age' + left' <= ScriptWait
    BY <1>t, <2>1, <2>2, <2>3, <2>4
  <2> QED BY <2>1, <2>5 DEF TimeInv
<1>8. CASE EnterRebinding
  <2>1. /\ left = 0 /\ state \in {"BOUND", "RENEWING"} /\ state' = "REBINDING"
        /\ t2 - t1 <= LastSpan /\ left' = t2 - t1 /\ UNCHANGED lvars
    BY <1>8 DEF EnterRebinding, TimedOut, TooShort
  <2>2. age <= t1 \/ age <= ScriptWait
    BY <1>t, <2>1 DEF TimeInv
  <2>3. age + left' <= t2 \/ age + left' <= ScriptWait + LastSpan
    BY <1>t, <2>1, <2>2
  <2> QED BY <1>l, <2>1, <2>3 DEF TimeInv, lvars
<1>9. CASE Rebind
  <2>1. /\ left = 0 /\ state = "REBINDING" /\ state' = "REBINDING"
        /\ t2' = (lease - t2) \div 2 + t2 /\ left' = Until(t2') /\ UNCHANGED <<lease, t1, age>>
    BY <1>9 DEF Rebind, TimedOut
  <2>2. t2' \in Nat /\ t2 <= t2'
    BY <1>t, <2>1
  <2>3. age + left' = IF t2' >= age THEN t2' ELSE age
    BY <1>t, <2>1, <2>2, UntilIs
  <2>4. age <= t2 \/ age <= ScriptWait + LastSpan
    BY <1>t, <2>1 DEF TimeInv
  <2>5. age' + left' <= t2' \/ age' + left' <= ScriptWait + LastSpan
    BY <1>t, <2>1, <2>2, <2>3, <2>4
  <2> QED BY <1>l, <2>1, <2>5 DEF TimeInv
<1>10. CASE ReceiveAck
  <2>1. state' = "BOUND" /\ age' = 0 /\ left' = t1' /\ nap' \in {0, ScriptWait}
    BY <1>10 DEF ReceiveAck
  <2>2. t1' \in Int
    BY DEF TypeInv
  <2>3. \A x, y \in Int : x <= y => 0 + x <= y
    OBVIOUS
  <2>4. nap' \in Int /\ nap' <= ScriptWait /\ t1' <= t1' /\ ScriptWait \in Int
    BY <1>t, <2>1, <2>2
  <2>5. 0 + t1' <= t1' /\ 0 + nap' <= ScriptWait
    BY <2>2, <2>3, <2>4, Zenon
  <2>6. age' + left' <= t1' /\ age' + nap' <= ScriptWait
    BY <2>1, <2>5, Zenon
  <2> QED BY <2>1, <2>6 DEF TimeInv
<1>11. CASE PerformRenewHolding
  <2>1. /\ state \in {"BOUND", "RENEWING", "REBINDING"} /\ state' = "RENEW_REQUESTED"
        /\ packet_num' = 0 /\ left' = 0 /\ UNCHANGED lvars
    BY <1>11 DEF PerformRenewHolding
  <2>2. RequestsAfter(packet_num') = 14
    BY <2>1 DEF RequestsAfter, retries
  <2>3. age <= lease \/ age <= ScriptWait + LastSpan
    BY <1>t, <2>1 DEF TimeInv
  <2>4. age' + left' + RequestsAfter(packet_num') - 14 = age
    BY <1>t, <2>1, <2>2 DEF lvars
  <2> QED BY <1>l, <2>1, <2>3, <2>4 DEF TimeInv, lvars
<1>12. CASE Tick
  <2>1. /\ nap > 0 \/ state = "EXITED" \/ left > 0
        /\ left' = IF left = Never THEN Never ELSE Max({left - 1, 0})
        /\ age' = IF state \in Holding THEN age + 1 ELSE age
        /\ nap' = Max({nap - 1, 0})
        /\ UNCHANGED <<state, packet_num, lease, t1, t2>>
    BY <1>12 DEF Tick
  <2>2. SUFFICES ASSUME state \in Holding PROVE TimeInv'
    BY <1>1, <2>1
  <2>3. left # Never
    BY <2>2 DEF TypeInv, Holding
  <2>4. /\ left' = IF left - 1 >= 0 THEN left - 1 ELSE 0
        /\ nap' = IF nap - 1 >= 0 THEN nap - 1 ELSE 0
    BY <1>t, <2>1, <2>3, MaxPair
  <2>5. CASE left > 0
    <3>1. left' = left - 1 /\ age' = age + 1 /\ (nap' > 0 => nap' = nap - 1 /\ nap > 0)
      BY <1>t, <2>1, <2>2, <2>4, <2>5
    <3>2. age' + left' = age + left /\ (nap' > 0 => age' + nap' = age + nap)
      BY <1>t, <3>1
    <3>3. age' + left' + RequestsAfter(packet_num') - 14
            = age + left + RequestsAfter(packet_num) - 14
      BY <2>1, <3>2 DEF RequestsAfter
    <3> QED BY <1>l, <2>1, <3>1, <3>2, <3>3 DEF TimeInv
  <2>6. CASE left = 0
    <3>1. nap > 0 /\ state = "BOUND"
      BY <1>n, <1>t, <2>1, <2>2, <2>6 DEF Holding
    <3>2. left' = 0 /\ age' = age + 1 /\ nap' = nap - 1
      BY <1>t, <2>1, <2>2, <2>4, <2>6, <3>1
    <3>3. age + nap <= ScriptWait
      BY <3>1 DEF TimeInv
    <3>4. age' + nap' <= ScriptWait /\ age' + left' <= ScriptWait
      BY <1>t, <3>1, <3>2, <3>3
    <3> QED BY <2>1, <3>1, <3>4 DEF TimeInv
  <2> QED BY <1>t, <2>5, <2>6
<1> QED BY <1>3, <1>4, <1>5, <1>6, <1>7, <1>8, <1>9, <1>10, <1>11, <1>12 DEF Next, Client

\* It holds in every turn of the loop.
LEMMA ClientTimes == Spec => []TimeInv
<1>1. Init => TimeInv
  BY DEF Init, TimeInv
<1>2. TypeInv /\ TypeInv' /\ TimeInv /\ [Next]_vars => TimeInv'
  BY NextTimeInv
<1> QED BY ClientTypes, <1>1, <1>2, PTL DEF Spec

-----------------------------------------------------------------------------
(* The server's grants *)

\* The client relies on a grant only while the server does, and takes only an
\* ACK of the current xid.
LEMMA NextGrantInv == TypeInv /\ GrantInv /\ [Next]_vars => GrantInv'
<1> SUFFICES ASSUME TypeInv, GrantInv, [Next]_vars PROVE GrantInv'
  OBVIOUS
<1>t. /\ net \subseteq Packets /\ given \in [IPs -> 0 .. MaxLease]
      /\ lease \in Nat /\ age \in Nat /\ left \in Nat /\ MaxDelay \in Nat /\ MaxLease \in Nat
  BY TimeNumbers, LongestLease, BoundsAssumption DEF TypeInv, ListensForAnswer, TypeOK
<1>g. \A i \in IPs : given[i] \in Nat
  BY <1>t
<1>i. state \in Holding \cup {"REQUESTING"} => requested_ip \in IPs
  BY DEF TypeInv
<1>p. \A m \in Packets : /\ m.ip \in IPs /\ m.lease \in Nat
                         /\ m.delay \in Nat /\ m.delay <= MaxDelay /\ m.cur \in BOOLEAN
  BY <1>t, LongestLease DEF Packets
\* A step that leaves grants and packets alone and does not take up the xid again.
<1>1. ASSUME UNCHANGED <<net, given>>, XidOver => XidOver',
             state' \in Holding =>
               state \in Holding /\ UNCHANGED <<lease, age, requested_ip>>
      PROVE  GrantInv'
  BY <1>1 DEF GrantInv, HeldWithinGrant
<1>2. ASSUME UNCHANGED <<net, given>>, XidOver', state' \notin Holding PROVE GrantInv'
  BY <1>2 DEF GrantInv, HeldWithinGrant
<1>3. ASSUME ToInit PROVE XidOver' /\ state' \notin Holding
  BY <1>3 DEF ToInit, XidOver, Holding
<1>4. CASE Discover
  <2>1. /\ state = "INIT_SELECTING" /\ left = 0 /\ state' = state /\ UNCHANGED given
        /\ net' = FreshXid(packet_num = 0) \/ ServerDiscover(FreshXid(packet_num = 0))
    BY <1>4 DEF Discover, TimedOut
  <2>2. FreshXid(packet_num = 0) \in SUBSET Packets
    BY <1>t, StalePackets DEF FreshXid
  <2>3. \A m \in net' : m \in FreshXid(packet_num = 0) \/ m.type = "OFFER"
    BY <2>1, <2>2, ServerDiscoverEffect
  <2>4. CASE packet_num = 0
    <3>1. \A m \in FreshXid(packet_num = 0) : m.cur = FALSE
      BY <1>t, <2>4, StalePackets DEF FreshXid
    <3>2. \A m \in net' : ~(m.type = "ACK" /\ m.cur)
      BY <2>3, <3>1
    <3> QED BY <2>1, <3>2 DEF GrantInv, HeldWithinGrant, Holding
  <2>5. CASE packet_num # 0
    <3>1. ~XidOver /\ FreshXid(packet_num = 0) = net
      BY <2>1, <2>5 DEF XidOver, FreshXid
    <3> QED BY <2>1, <2>3, <3>1 DEF GrantInv, HeldWithinGrant, Holding
  <2> QED BY <2>4, <2>5
<1>5. CASE LeaseFail
  <2>1. /\ UNCHANGED <<net, given, state>> /\ state = "INIT_SELECTING"
        /\ packet_num \notin {0, 1, 2} /\ left = 0
    BY <1>5 DEF LeaseFail, TimedOut, RetriesLeft, retries
  <2>2. ~XidOver
    BY <2>1 DEF XidOver
  <2> QED BY <2>1, <2>2 DEF GrantInv, HeldWithinGrant, Holding
\* A request: grants only grow, and the new ACK is covered.
<1>6. ASSUME ServerRequest(requested_ip), state \in Holding \cup {"REQUESTING"},
             UNCHANGED <<requested_ip, lease, age>>,
             state' \in Holding => state \in Holding
      PROVE  GrantInv'
  <2>1. /\ given' \in [IPs -> 0 .. MaxLease] /\ \A i \in IPs : given[i] <= given'[i]
        /\ net' \subseteq Packets
        /\ \A m \in net' : m \in net \/ m.type # "ACK" \/ m.lease <= given'[m.ip] + m.delay
    BY <1>6, <1>i, <1>t, ServerRequestEffect
  <2>2. ~XidOver
    BY <1>6 DEF XidOver, Holding
  <2>3. \A x, y, z, w \in Int : w <= x + z /\ x <= y => w <= y + z
    OBVIOUS
  <2>4. ASSUME NEW m \in net', m.type = "ACK", m.cur PROVE m.lease <= given'[m.ip] + m.delay
    <3>1. CASE m \in net
      <4>1. m.lease <= given[m.ip] + m.delay
        BY <2>2, <2>4, <3>1 DEF GrantInv
      <4>2. given[m.ip] <= given'[m.ip] /\ given[m.ip] \in Int /\ given'[m.ip] \in Int
            /\ m.lease \in Int /\ m.delay \in Int
        BY <1>p, <1>t, <2>1, <3>1
      <4> QED BY <2>3, <4>1, <4>2, Zenon
    <3> QED BY <2>1, <2>4, <3>1
  <2>5. state' \in Holding => lease - age <= given'[requested_ip] + MaxDelay
    <3>1. state \in Holding => lease - age <= given[requested_ip] + MaxDelay
      BY DEF GrantInv, HeldWithinGrant
    <3>2. given[requested_ip] <= given'[requested_ip] /\ given[requested_ip] \in Int
          /\ given'[requested_ip] \in Int /\ lease - age \in Int /\ MaxDelay \in Int
      BY <1>6, <1>i, <1>t, <2>1
    <3> QED BY <1>6, <2>3, <3>1, <3>2, Zenon
  <2> QED BY <1>6, <2>4, <2>5 DEF GrantInv, HeldWithinGrant
<1>7. CASE Request
  BY <1>6, <1>7 DEF Request, Holding, lvars
<1>8. CASE Renew
  BY <1>6, <1>8 DEF Renew, Holding
<1>9. CASE Rebind
  BY <1>6, <1>9 DEF Rebind, Holding
<1>10. CASE GiveUp \/ LeaseLost \/ ReceiveNak \/ PerformRenewAnew
  BY <1>2, <1>3, <1>10 DEF GiveUp, LeaseLost, ReceiveNak, PerformRenewAnew
<1>11. CASE EnterRebinding
  <2>1. /\ UNCHANGED <<net, given, lvars, requested_ip>> /\ state \in Holding
        /\ state \notin {"RELEASED", "EXITED", "INIT_SELECTING"}
    BY <1>11 DEF EnterRebinding, Holding
  <2> QED BY <1>1, <2>1 DEF XidOver, lvars
<1>12. CASE ReceiveOffer
  <2>1. /\ UNCHANGED <<net, given>> /\ state = "INIT_SELECTING" /\ left > 0
        /\ state' = "REQUESTING"
    BY <1>12 DEF ReceiveOffer, Received
  <2>2. ~XidOver
    BY <1>t, <2>1 DEF XidOver
  <2> QED BY <1>1, <2>1, <2>2 DEF Holding
<1>13. CASE ReceiveAck
  <2>1. PICK m \in net :
          /\ m.cur /\ m.type = "ACK" /\ state \in Waiting \ {"INIT_SELECTING"}
          /\ lease' = m.lease /\ age' = 0 /\ requested_ip' = m.ip /\ state' = "BOUND"
          /\ UNCHANGED <<net, given>>
    BY <1>13 DEF ReceiveAck, Received
  <2>2. ~XidOver
    BY <2>1 DEF XidOver, Waiting
  <2>3. m.lease <= given[m.ip] + m.delay
    BY <2>1, <2>2 DEF GrantInv
  <2>4. /\ m.lease \in Nat /\ given[m.ip] \in Nat /\ m.delay \in Nat /\ m.delay <= MaxDelay
        /\ m.ip \in IPs
    BY <1>g, <1>p, <1>t, <2>1
  <2>5. m.lease - 0 <= given[m.ip] + MaxDelay
    BY <1>t, <2>3, <2>4
  <2>6. lease' - age' <= given'[requested_ip'] + MaxDelay
    BY <2>1, <2>5, Zenon
  <2> QED BY <2>1, <2>2, <2>6 DEF GrantInv, HeldWithinGrant
<1>14. CASE Raise \/ WpsChanges \/ UNCHANGED vars
  <2>1. UNCHANGED <<net, given, lease, age, requested_ip, state, packet_num, left>>
    BY <1>14 DEF Raise, WpsChanges, vars, lvars
  <2> QED BY <1>1, <2>1 DEF XidOver
<1>15. CASE PerformRenewHolding
  <2>1. /\ UNCHANGED <<net, given, lvars, requested_ip>> /\ state \in Holding
        /\ state \notin {"RELEASED", "EXITED", "INIT_SELECTING"}
    BY <1>15 DEF PerformRenewHolding, Holding
  <2> QED BY <1>1, <2>1 DEF XidOver, lvars
<1>16. CASE PerformRelease \/ Terminate
  <2>1. state' \in {"RELEASED", "EXITED"}
    BY <1>16 DEF PerformRelease, Terminate
  <2> QED BY <2>1 DEF GrantInv, HeldWithinGrant, XidOver, Holding
<1>17. CASE Startup
  BY <1>3, <1>17 DEF Startup, GrantInv, HeldWithinGrant
<1>18. CASE Tick
  <2>1. /\ age' = IF state \in Holding THEN age + 1 ELSE age
        /\ net' = {[m EXCEPT !.delay = @ + 1] : m \in {n \in net : n.delay < MaxDelay}}
        /\ given' = [ip \in IPs |-> Max({given[ip] - 1, 0})]
        /\ left' = IF left = Never THEN Never ELSE Max({left - 1, 0})
        /\ UNCHANGED <<state, requested_ip, lease, packet_num>>
    BY <1>18 DEF Tick
  <2>2. ASSUME NEW i \in IPs PROVE given'[i] \in Int /\ given[i] - 1 <= given'[i] /\ 0 <= given'[i]
    <3>1. given'[i] = Max({given[i] - 1, 0}) /\ given[i] \in Nat
      BY <1>g, <2>1
    <3> QED BY <3>1, MaxPair
  <2>3. \A x, y, z, w \in Int : w <= x + z /\ x - 1 <= y => w <= y + (z + 1) /\ w - 1 <= y + z
    OBVIOUS
  <2>4. XidOver => XidOver'
    <3>1. left = 0 => left' = 0
      <4>1. Max({0 - 1, 0}) = 0
        BY MaxPair
      <4> QED BY <2>1, <4>1, LongestLease
    <3> QED BY <2>1, <3>1 DEF XidOver
  <2>5. ASSUME NEW m \in net', m.type = "ACK", m.cur, ~XidOver
        PROVE  m.lease <= given'[m.ip] + m.delay
    <3>1. PICK n \in net : /\ m.type = n.type /\ m.ip = n.ip /\ m.lease = n.lease
                           /\ m.cur = n.cur /\ m.delay = n.delay + 1
      BY <1>t, <2>1, LatePackets
    <3>2. n.lease <= given[n.ip] + n.delay
      BY <2>5, <3>1 DEF GrantInv
    <3>3. n.lease \in Int /\ n.delay \in Int /\ given[n.ip] \in Int /\ n.ip \in IPs
      BY <1>g, <1>p, <1>t
    <3>4. n.lease <= given'[n.ip] + (n.delay + 1)
      BY <2>2, <2>3, <3>2, <3>3, Zenon
    <3> QED BY <3>1, <3>4, Zenon
  <2>6. ASSUME state \in Holding PROVE lease' - age' <= given'[requested_ip'] + MaxDelay
    <3>1. lease - age <= given[requested_ip] + MaxDelay
      BY <2>6 DEF GrantInv, HeldWithinGrant
    <3>2. requested_ip \in IPs /\ given[requested_ip] \in Int
          /\ lease - age \in Int /\ MaxDelay \in Int
      BY <1>g, <1>i, <1>t, <2>6
    <3>3. (lease - age) - 1 <= given'[requested_ip] + MaxDelay
      BY <2>2, <2>3, <3>1, <3>2, Zenon
    <3>4. lease' - age' = (lease - age) - 1
      BY <1>t, <2>1, <2>6
    <3> QED BY <2>1, <3>3, <3>4
  <2> QED BY <2>1, <2>4, <2>5, <2>6 DEF GrantInv, HeldWithinGrant
<1> QED BY <1>4, <1>5, <1>7, <1>8, <1>9, <1>10, <1>11, <1>12, <1>13, <1>14, <1>15, <1>16, <1>17,
           <1>18 DEF Next, Client

\* It holds from the first discover packet on.
LEMMA ClientGrants == Spec => []GrantInv
<1>1. Init => GrantInv
  BY DEF Init, GrantInv, HeldWithinGrant, Holding
<1>2. TypeInv /\ GrantInv /\ [Next]_vars => GrantInv'
  BY NextGrantInv
<1> QED BY ClientTypes, <1>1, <1>2, PTL DEF Spec

-----------------------------------------------------------------------------
(* Theorems *)

\* The socket fits the state of the client in every turn of its loop, and
\* every counter and time stays in its range.
THEOREM ClientListensForAnswer == Spec => []ListensForAnswer
<1>1. TypeInv => ListensForAnswer
  BY DEF TypeInv
<1> QED BY <1>1, ClientTypes, PTL

\* The lease file and the address of br0 agree with the client, whatever ends
\* a lease.
THEOREM ClientStatusIsTrue == Spec => []StatusIsTrue
<1>1. Init => StatusIsTrue
  BY DEF Init, StatusIsTrue, Holding
<1>2. StatusIsTrue /\ [Next]_vars => StatusIsTrue'
  BY NextStatus
<1> QED BY <1>1, <1>2, PTL DEF Spec

\* No sequence of timeouts, answers and signals makes the client keep a lease
\* past its end, for any lease time: halving t1 and t2 adds nothing.
THEOREM ClientLeaseHonoured == Spec => []LeaseHonoured
<1>1. TypeInv /\ TimeInv => LeaseHonoured
  <2> SUFFICES ASSUME TypeInv, TimeInv, state \in Holding
               PROVE  age <= Max({lease, ScriptWait + LastSpan})
                               + (IF state = "RENEW_REQUESTED" THEN 14 ELSE 0)
    BY DEF LeaseHonoured
  <2>1. /\ lease \in Nat /\ t1 \in Nat /\ t2 \in Nat /\ t1 <= t2 /\ t2 <= lease
        /\ left \in Nat /\ age \in Nat /\ packet_num \in 0 .. 3
        /\ ScriptWait \in Nat /\ LastSpan \in Nat
    BY TimeNumbers
  <2>2. Max({lease, ScriptWait + LastSpan}) =
          IF lease >= ScriptWait + LastSpan THEN lease ELSE ScriptWait + LastSpan
    BY <2>1, MaxPair
  <2>3. CASE state # "RENEW_REQUESTED"
    <3>1. age <= lease \/ age <= ScriptWait + LastSpan
      BY <2>1, <2>3 DEF TimeInv, Holding
    <3> QED BY <2>1, <2>2, <2>3, <3>1
  <2>4. CASE state = "RENEW_REQUESTED"
    <3>1. RequestsAfter(packet_num) \in Nat
      BY <2>1 DEF RequestsAfter, retries
    <3>2. age <= lease + 14 \/ age <= ScriptWait + LastSpan + 14
      BY <2>1, <2>4, <3>1 DEF TimeInv
    <3> QED BY <2>1, <2>2, <2>4, <3>2
  <2> QED BY <2>3, <2>4
<1> QED BY <1>1, ClientTypes, ClientTimes, PTL

\* The client never counts on an address longer than the server keeps it for
\* it, apart from the delay of the packet that granted it.
THEOREM ClientHeldWithinGrant == Spec => []HeldWithinGrant
<1>1. GrantInv => HeldWithinGrant
  BY DEF GrantInv
<1> QED BY <1>1, ClientGrants, PTL


-----------------------------------------------------------------------------
(* Requests come to an end *)

\* The states RequestEnds is about: the client waits for the answer to a request.
Asking == {"REQUESTING", "RENEWING", "REBINDING", "RENEW_REQUESTED"}

\* The order in which a client passes through them, the last one lowest.
Phase ==
  IF state = "RENEWING" THEN 3 ELSE IF state = "REBINDING" THEN 2 ELSE 1

\* What a turn of the loop uses up of the phase: the seconds left of it, or the
\* requests.
Span ==
  IF state = "RENEWING" THEN t2 - t1
  ELSE IF state = "REBINDING" THEN lease - t2
  ELSE retries - packet_num

\* The client waits for the answer to a request no longer, or a turn of its loop
\* has brought it to a later phase or used up part of the present one, or a
\* second has passed, or the step was somebody else's.
RequestDescends ==
  state \in Asking =>
    /\ Span \in Nat /\ left \in Nat
    /\ \/ state' \notin Asking
       \/ Phase' < Phase
       \/ Phase' = Phase /\ Span' < Span
       \/ Phase' = Phase /\ Span' = Span /\ left' < left
       \/ (Raise \/ WpsChanges) /\ UNCHANGED <<state, Span, left>>

\* KeepsAsking has not been fulfilled yet.
Silent == state = "INIT_SELECTING" /\ ~wpsRunning /\ sent # "DISCOVER"

\* The client breaks its silence, or a signal comes, or one is read, or packet_num
\* starts again after the last retry, or a second passes.
SilenceDescends ==
  Silent =>
    \/ ~Silent'
    \/ sigs < sigs' /\ sigs' <= MaxSigs
    \/ sigs' = sigs /\ Len(pipe') < Len(pipe)
    \/ UNCHANGED <<sigs, pipe>> /\ packet_num = retries /\ packet_num' = 0
    \/ /\ UNCHANGED <<sigs, pipe, packet_num>>
       /\ nap \in Nat /\ nap' \in Nat /\ left \in Nat /\ left' \in Nat
       /\ \/ nap' < nap /\ left' <= left
          \/ nap' = nap /\ left' < left

\* Half of a span that is not too short is at least a second of it, and not all.
LEMMA HalfIsLess ==
  ASSUME NEW a \in Nat, NEW b \in Nat, NEW l \in Nat, a <= b, ~(b - a <= (l \div 14400) + 1)
  PROVE  /\ (b - a) \div 2 + a \in Nat
         /\ b - ((b - a) \div 2 + a) < b - a
         /\ b - ((b - a) \div 2 + a) >= 0
<1>1. l \div 14400 >= 0
  OBVIOUS
<1>2. b - a >= 2
  BY <1>1
<1> DEFINE h == (b - a) \div 2
<1>3. h \in Nat /\ h >= 1 /\ h <= b - a
  BY <1>2
<1> HIDE DEF h
<1>4. h + a \in Nat /\ b - (h + a) < b - a /\ b - (h + a) >= 0
  BY <1>3
<1> QED
  BY <1>4 DEF h

\* The safety half of RequestEnds.  A waiting client goes from RENEWING to
\* REBINDING to RENEW_REQUESTED and never back, each turn of its loop halves
\* what is left of a phase by at least a second or uses up a retry, the signals
\* it reads take it to a later phase or out of it, and the clock runs down in
\* between: the turns and the seconds of a wait are bounded, for every lease.
THEOREM ClientRequestDescends == Spec => [][RequestDescends]_vars
<1>1. TypeInv /\ TypeInv' /\ [Next]_vars => [RequestDescends]_vars
  <2> SUFFICES ASSUME TypeInv, TypeInv', [Next]_vars, state \in Asking
               PROVE  /\ Span \in Nat /\ left \in Nat
                      /\ \/ UNCHANGED vars
                         \/ state' \notin Asking
                         \/ Phase' < Phase
                         \/ Phase' = Phase /\ Span' < Span
                         \/ Phase' = Phase /\ Span' = Span /\ left' < left
                         \/ (Raise \/ WpsChanges) /\ UNCHANGED <<state, Span, left>>
    BY DEF RequestDescends
  <2>t. /\ lease \in Nat /\ t1 \in Nat /\ t2 \in Nat /\ t1 <= t2 /\ t2 <= lease
        /\ left \in Nat /\ packet_num \in 0 .. 3
    BY TimeNumbers
  <2>n. nap \in Nat /\ ~(nap > 0) /\ left # Never
    BY TimeNumbers DEF TypeInv, Asking
  <2>s. Span \in Nat
    BY <2>t DEF Span, retries
  <2>1. CASE Discover \/ LeaseFail \/ ReceiveOffer \/ Startup
    BY <2>1 DEF Discover, LeaseFail, ReceiveOffer, Startup, Asking
  <2>2. CASE GiveUp \/ LeaseLost \/ ReceiveAck \/ ReceiveNak \/ PerformRenewAnew
             \/ PerformRelease \/ Terminate
    <3>1. state' \notin Asking
      BY <2>2 DEF GiveUp, LeaseLost, ReceiveAck, ReceiveNak, PerformRenewAnew, PerformRelease,
         Terminate, ToInit, Asking
    <3> QED BY <3>1, <2>s, <2>t
  <2>3. CASE Request
    <3>1. /\ state \in {"RENEW_REQUESTED", "REQUESTING"} /\ state' = state
          /\ packet_num' = packet_num + 1
      BY <2>3 DEF Request
    <3>2. Phase' = Phase
      BY <3>1 DEF Phase
    <3>3. Span = 3 - packet_num /\ Span' = 3 - packet_num'
      BY <3>1 DEF Span, retries
    <3>4. Span' < Span
      BY <3>1, <3>3, <2>t
    <3> QED BY <3>2, <3>4, <2>s, <2>t
  <2>4. CASE Renew
    <3>1. /\ state = "RENEWING" /\ state' = "RENEWING" /\ t2' = t2
          /\ t1' = (t2 - t1) \div 2 + t1 /\ ~(t2 - t1 <= (lease \div 14400) + 1)
      BY <2>4 DEF Renew, TooShort, LastSpan, Asking
    <3>2. Phase' = Phase /\ Span = t2 - t1 /\ Span' = t2' - t1'
      BY <3>1 DEF Phase, Span
    <3>3. t2 - t1' < t2 - t1
      BY <3>1, <2>t, HalfIsLess
    <3>4. Span' < Span
      BY <3>1, <3>2, <3>3
    <3> QED BY <3>2, <3>4, <2>s, <2>t
  <2>5. CASE EnterRebinding
    <3>1. state = "RENEWING" /\ state' = "REBINDING"
      BY <2>5 DEF EnterRebinding, Asking
    <3>2. Phase' < Phase
      BY <3>1 DEF Phase
    <3> QED BY <3>2, <2>s, <2>t
  <2>6. CASE Rebind
    <3>1. /\ state = "REBINDING" /\ state' = "REBINDING" /\ lease' = lease
          /\ t2' = (lease - t2) \div 2 + t2 /\ ~(lease - t2 <= (lease \div 14400) + 1)
      BY <2>6 DEF Rebind, TooShort, LastSpan
    <3>2. Phase' = Phase /\ Span = lease - t2 /\ Span' = lease' - t2'
      BY <3>1 DEF Phase, Span
    <3>3. lease - t2' < lease - t2
      BY <3>1, <2>t, HalfIsLess
    <3>4. Span' < Span
      BY <3>1, <3>2, <3>3
    <3> QED BY <3>2, <3>4, <2>s, <2>t
  <2>7. CASE PerformRenewHolding
    <3>1. state \in {"RENEWING", "REBINDING"} /\ state' = "RENEW_REQUESTED"
      BY <2>7 DEF PerformRenewHolding, Asking
    <3>2. Phase' < Phase
      BY <3>1 DEF Phase
    <3> QED BY <3>2, <2>s, <2>t
  <2>8. CASE Raise \/ WpsChanges
    <3>1. UNCHANGED <<state, lease, t1, t2, packet_num, left>>
      BY <2>8 DEF Raise, WpsChanges, lvars
    <3>2. Span' = Span
      BY <3>1 DEF Span
    <3> QED BY <2>8, <3>1, <3>2, <2>s, <2>t
  <2>9. CASE Tick
    <3>1. /\ UNCHANGED <<state, lease, t1, t2, packet_num>> /\ left > 0
          /\ left' = Max({left - 1, 0})
      BY <2>9, <2>n DEF Tick, Asking
    <3>2. Phase' = Phase /\ Span' = Span
      BY <3>1 DEF Phase, Span
    <3>3. left' = left - 1
      BY <3>1, <2>t, MaxPair
    <3>4. left' < left
      BY <3>3, <2>t
    <3> QED BY <3>2, <3>4, <2>s, <2>t
  <2>10. CASE UNCHANGED vars
    BY <2>10, <2>s, <2>t
  <2> QED BY <2>1, <2>2, <2>3, <2>4, <2>5, <2>6, <2>7, <2>8, <2>9, <2>10 DEF Next, Client
<1> QED BY <1>1, ClientTypes, PTL DEF Spec

\* The safety half of KeepsAsking.  A client in INIT_SELECTING that WPS does not
\* hold off only lets time pass, reads the signals that were sent, or starts to
\* count its retries again; the pause after the last retry does not repeat, since
\* the turn that follows it has retries left.
THEOREM ClientSilenceDescends == Spec => [][SilenceDescends]_vars
<1>1. TypeInv /\ TypeInv' /\ [Next]_vars => [SilenceDescends]_vars
  <2> SUFFICES ASSUME TypeInv, TypeInv', [Next]_vars, Silent, Silent', ~UNCHANGED vars
               PROVE  \/ sigs < sigs' /\ sigs' <= MaxSigs
                      \/ sigs' = sigs /\ Len(pipe') < Len(pipe)
                      \/ UNCHANGED <<sigs, pipe>> /\ packet_num = retries /\ packet_num' = 0
                      \/ /\ UNCHANGED <<sigs, pipe, packet_num>>
                         /\ nap \in Nat /\ nap' \in Nat /\ left \in Nat /\ left' \in Nat
                         /\ \/ nap' < nap /\ left' <= left
                            \/ nap' = nap /\ left' < left
    BY DEF SilenceDescends
  <2>t. /\ left \in Nat /\ nap \in Nat /\ packet_num \in 0 .. 3 /\ sigs \in Nat /\ MaxSigs \in Nat
        /\ pipe \in Seq({"USR1", "USR2", "TERM"}) /\ left # Never
    <3>1. TypeOK /\ (left = Never => state \in {"RELEASED", "EXITED"}) /\ MaxSigs \in Nat
      BY BoundsAssumption DEF TypeInv, ListensForAnswer
    <3>2. sigs \in Nat /\ pipe \in Seq({"USR1", "USR2", "TERM"})
      BY <3>1 DEF TypeOK
    <3> QED BY <3>1, <3>2, TimeNumbers DEF Silent
  <2>s. state = "INIT_SELECTING" /\ state' = "INIT_SELECTING" /\ ~wpsRunning /\ ~wpsRunning'
        /\ sent # "DISCOVER" /\ sent' # "DISCOVER"
    BY DEF Silent
  <2>1. CASE Raise
    BY <2>1, <2>t DEF Raise
  <2>2. CASE PerformRenewAnew
    <3>1. pipe # <<>> /\ pipe' = Tail(pipe) /\ sigs' = sigs
      BY <2>2 DEF PerformRenewAnew, Signalled, outside
    <3>2. Len(pipe') < Len(pipe)
      BY <3>1, <2>t
    <3> QED BY <3>1, <3>2
  <2>3. CASE LeaseFail
    BY <2>3, <2>t DEF LeaseFail, RetriesLeft, retries, outside
  <2>4. CASE Tick
    <3>1. /\ UNCHANGED <<sigs, pipe, packet_num>> /\ (nap > 0 \/ left > 0)
          /\ left' = Max({left - 1, 0}) /\ nap' = Max({nap - 1, 0})
      BY <2>4, <2>s, <2>t DEF Tick, outside
    <3>2. /\ left' = IF left - 1 >= 0 THEN left - 1 ELSE 0
          /\ nap' = IF nap - 1 >= 0 THEN nap - 1 ELSE 0
      BY <3>1, <2>t, MaxPair
    <3>3. /\ left' \in Nat /\ nap' \in Nat /\ left' <= left
      BY <3>2, <2>t
    <3>4. CASE nap > 0
      <4>1. nap' < nap
        BY <3>2, <3>4, <2>t
      <4> QED BY <3>1, <3>3, <4>1, <2>t
    <3>5. CASE nap = 0
      <4>1. nap' = nap
        BY <3>2, <3>5
      <4>2. left' < left
        BY <3>1, <3>2, <3>5, <2>t
      <4> QED BY <3>1, <3>3, <4>1, <4>2, <2>t
    <3> QED BY <3>4, <3>5, <2>t
  <2>5. ~Discover /\ ~WpsChanges
    BY <2>s DEF Discover, WpsChanges
  <2>6. ~Request /\ ~GiveUp /\ ~Renew /\ ~EnterRebinding /\ ~Rebind /\ ~LeaseLost
    BY <2>s DEF Request, GiveUp, Renew, EnterRebinding, Rebind, LeaseLost
  <2>7. ~ReceiveOffer /\ ~ReceiveAck /\ ~ReceiveNak
    BY <2>s DEF ReceiveOffer, ReceiveAck, ReceiveNak
  <2>8. ~PerformRenewHolding /\ ~PerformRelease /\ ~Terminate /\ ~Startup
    BY <2>s DEF PerformRenewHolding, PerformRelease, Terminate, Startup
  <2> QED BY <2>1, <2>2, <2>3, <2>4, <2>5, <2>6, <2>7, <2>8 DEF Next, Client
<1> QED BY <1>1, ClientTypes, PTL DEF Spec
=============================================================================
