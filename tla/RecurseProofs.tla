--------------------------- MODULE RecurseProofs ---------------------------
(***************************************************************************)
(* The iterative resolver for every number of servers, referrals, name       *)
(* servers and reads and every choice of timeouts: how far a resolution can  *)
(* run past its deadline (OInv), what its stack of walks looks like and how  *)
(* much work the replies can make it do (SInv), and failover (FInv).         *)
(***************************************************************************)
EXTENDS Recurse, SequenceTheorems, TLAPS

\* The latest moment at which a read of an exchange with timeout t can begin, when k
\* reads are done: connecting and each of them may take t after the deadline.
Latest(k, t) == Budget + (1 + k) * t

\* The bound of OverrunBounded.
Limit == Budget + (1 + TcpReads) * Probe

Wires == [phase : {"none", "udp", "connect", "read"}, timeout : 0..Probe,
          reads : 0..(TcpReads - 1)]

\* At time c exchange w, which began before the deadline with a timeout clipped to it,
\* has spent no more than one timeout per socket operation.
InTime(w, c) ==
    /\ c \in Nat /\ c <= Limit /\ w \in Wires
    /\ w.phase = "udp" => c + w.timeout <= Budget /\ w.reads = 0
    /\ w.phase = "connect" => c <= Budget /\ w.reads = 0
    /\ w.phase = "read" => c <= Latest(w.reads, w.timeout)

\* Every reply was paid for with time, that of the exchange under way included.
Paid(w, c, n) ==
    /\ n \in Nat /\ n <= c
    /\ w.phase \in {"connect", "read"} => n + 1 <= c

\* Only the loop over the servers has an exchange under way.
WireOwned == wire.phase # "none" => stack # <<>> /\ Top.at = "query"

OInv == InTime(wire, clock) /\ Paid(wire, clock, answered) /\ WireOwned

----------------------------------------------------------------------------
(* Arithmetic: what one socket operation of d <= t ticks adds. *)

LEMMA LatestNat ==
    ASSUME NEW k \in Nat, NEW t \in Nat
    PROVE  Latest(k, t) \in Nat
  BY RecurseAssumption DEF Latest

LEMMA OneMoreRead ==
    ASSUME NEW k \in Nat, NEW t \in Nat, NEW c \in Nat, NEW d \in 0..t,
           c <= Latest(k, t)
    PROVE  c + d <= Latest(k + 1, t)
  <1>1. (1 + (k + 1)) * t = (1 + k) * t + t
    OBVIOUS
  <1>2. (1 + k) * t \in Nat
    OBVIOUS
  <1> QED  BY <1>1, <1>2, RecurseAssumption DEF Latest

LEMMA FirstRead ==
    ASSUME NEW t \in Nat, NEW c \in Nat, NEW d \in 0..t, c <= Budget
    PROVE  c + d <= Latest(0, t)
  BY RecurseAssumption DEF Latest

LEMMA LimitNat == Limit \in Nat /\ Budget \in Nat /\ Probe \in Nat /\ TcpReads \in Nat
  BY RecurseAssumption DEF Limit

LEMMA ProductMonotone ==
    ASSUME NEW a \in Nat, NEW b \in Nat, NEW x \in Nat, NEW y \in Nat, a <= b, x <= y
    PROVE  a * x <= b * y /\ a * x \in Nat /\ b * y \in Nat
  <1>1. PICK e \in Nat : b = a + e
    <2>1. b - a \in Nat /\ b = a + (b - a)
      OBVIOUS
    <2> QED  BY <2>1
  <1>2. PICK f \in Nat : y = x + f
    <2>1. y - x \in Nat /\ y = x + (y - x)
      OBVIOUS
    <2> QED  BY <2>1
  <1>3. (a + e) * (x + f) = a * x + a * f + e * x + e * f
    OBVIOUS
  <1>4. a * f \in Nat /\ e * x \in Nat /\ e * f \in Nat /\ a * x \in Nat
    OBVIOUS
  <1> QED  BY <1>1, <1>2, <1>3, <1>4

\* An exchange is over at the latest one timeout after its last read began.
LEMMA LastRead ==
    ASSUME NEW k \in 0..(TcpReads - 1), NEW t \in 0..Probe
    PROVE  Latest(k + 1, t) <= Limit /\ Latest(0, t) <= Limit /\ Budget <= Limit
  <1>0. /\ k \in Nat /\ t \in Nat /\ Probe \in Nat /\ TcpReads \in Nat
        /\ 1 + (k + 1) <= 1 + TcpReads /\ t <= Probe /\ Budget \in Nat
    BY RecurseAssumption
  <1>2. /\ (1 + (k + 1)) * t <= (1 + TcpReads) * Probe
        /\ (1 + 0) * t <= (1 + TcpReads) * Probe
    BY <1>0, ProductMonotone
  <1>3. (1 + TcpReads) * Probe \in Nat
    BY <1>0
  <1>4. Budget <= Limit
    BY <1>0, <1>3 DEF Limit
  <1>5. (1 + (k + 1)) * t \in Nat /\ (1 + 0) * t \in Nat
    BY <1>0
  <1>6. Latest(k + 1, t) <= Limit
    BY <1>0, <1>2, <1>3, <1>5 DEF Latest, Limit
  <1>7. Latest(0, t) <= Limit
    BY <1>0, <1>2, <1>3, <1>5 DEF Latest, Limit
  <1> QED  BY <1>4, <1>6, <1>7

----------------------------------------------------------------------------
(* The life of one exchange. *)

LEMMA Idle ==
    ASSUME NEW c \in Nat, c <= Limit
    PROVE  InTime(NoWire, c)
  BY LimitNat, RecurseAssumption DEF InTime, Wires, NoWire

\* The timeout is clipped to what is left.
LEMMA Begins ==
    ASSUME NEW c \in Nat, c < Budget
    PROVE  InTime([phase |-> "udp", timeout |-> Smaller(Budget - c, Probe), reads |-> 0], c)
  <1>1. /\ Smaller(Budget - c, Probe) \in 0..Probe /\ c + Smaller(Budget - c, Probe) <= Budget
    BY RecurseAssumption DEF Smaller
  <1>2. c <= Limit
    <2>1. 0 \in 0..(TcpReads - 1) /\ 0 \in 0..Probe
      BY RecurseAssumption
    <2> QED  BY <2>1, LastRead, LimitNat
  <1> QED  BY <1>1, <1>2, RecurseAssumption DEF InTime, Wires

\* One more socket operation, whatever comes of it, ends within the limit.
LEMMA Ends ==
    ASSUME NEW w, NEW c, InTime(w, c), w.phase # "none", NEW d \in 0..w.timeout
    PROVE  c + d \in Nat /\ c + d <= Limit
  <1>0. /\ w.reads \in 0..(TcpReads - 1) /\ w.timeout \in 0..Probe
        /\ w.reads \in Nat /\ w.timeout \in Nat /\ c \in Nat /\ d \in Nat
        /\ w.phase \in {"none", "udp", "connect", "read"}
    BY RecurseAssumption DEF InTime, Wires
  <1>a. /\ Latest(w.reads + 1, w.timeout) <= Limit /\ Latest(0, w.timeout) <= Limit
        /\ Budget <= Limit
    BY <1>0, LastRead
  <1>b. Latest(w.reads + 1, w.timeout) \in Nat /\ Latest(0, w.timeout) \in Nat
    <2>1. w.reads + 1 \in Nat /\ 0 \in Nat
      BY <1>0
    <2>2. Latest(w.reads + 1, w.timeout) \in Nat
      BY <1>0, <2>1, LatestNat
    <2>3. Latest(0, w.timeout) \in Nat
      BY <1>0, <2>1, LatestNat
    <2> QED  BY <2>2, <2>3
  <1>1. CASE w.phase = "udp"
    BY <1>0, <1>1, <1>a, LimitNat DEF InTime
  <1>2. CASE w.phase = "connect"
    <2>1. c + d <= Latest(0, w.timeout)
      BY <1>0, <1>2, FirstRead DEF InTime
    <2> QED  BY <1>0, <2>1, <1>a, <1>b, LimitNat
  <1>3. CASE w.phase = "read"
    <2>1. c + d <= Latest(w.reads + 1, w.timeout)
      BY <1>0, <1>3, OneMoreRead DEF InTime
    <2> QED  BY <1>0, <2>1, <1>a, <1>b, LimitNat
  <1> QED  BY <1>0, <1>1, <1>2, <1>3

LEMMA Connects ==
    ASSUME NEW w, NEW c, InTime(w, c), w.phase = "udp", NEW d \in 0..w.timeout
    PROVE  InTime([w EXCEPT !.phase = "connect"], c + d)
  <1>1. c + d \in Nat /\ c + d <= Limit
    BY Ends
  <1>2. c + d <= Budget /\ w.reads = 0
    BY RecurseAssumption DEF InTime, Wires
  <1> QED  BY <1>1, <1>2 DEF InTime, Wires

LEMMA Reads ==
    ASSUME NEW w, NEW c, InTime(w, c), w.phase = "connect", NEW d \in 0..w.timeout
    PROVE  InTime([w EXCEPT !.phase = "read"], c + d)
  <1>1. c + d \in Nat /\ c + d <= Limit
    BY Ends
  <1>2. w.reads = 0 /\ w.timeout \in Nat /\ c \in Nat /\ c <= Budget
    BY RecurseAssumption DEF InTime, Wires
  <1>3. c + d <= Latest(0, w.timeout)
    BY <1>2, FirstRead
  <1> QED  BY <1>1, <1>2, <1>3 DEF InTime, Wires

LEMMA ReadsOn ==
    ASSUME NEW w, NEW c, InTime(w, c), w.phase = "read", NEW d \in 0..w.timeout,
           w.reads + 1 < TcpReads
    PROVE  InTime([w EXCEPT !.reads = @ + 1], c + d)
  <1>1. c + d \in Nat /\ c + d <= Limit
    BY Ends
  <1>2. w.reads + 1 \in 0..(TcpReads - 1) /\ w.reads \in Nat /\ w.timeout \in Nat
    BY RecurseAssumption DEF InTime, Wires
  <1>3. c + d <= Latest(w.reads + 1, w.timeout)
    BY <1>2, OneMoreRead DEF InTime
  <1> QED  BY <1>1, <1>2, <1>3 DEF InTime, Wires

----------------------------------------------------------------------------
(* The invariant. *)

LEMMA OInvInit == Init => OInv
  <1> SUFFICES ASSUME Init PROVE OInv
    OBVIOUS
  <1>1. clock \in Nat /\ clock <= Limit
    BY LimitNat DEF Init
  <1>2. InTime(wire, clock)
    BY <1>1, Idle DEF Init
  <1> QED  BY <1>2 DEF Init, OInv, Paid, WireOwned, NoWire

LEMMA OInvAsk == OInv /\ Ask => OInv'
  <1> SUFFICES ASSUME OInv, Ask PROVE OInv'
    OBVIOUS
  <1>1. wire.phase = "none" /\ wire' = wire /\ clock' = 0 /\ answered' = 0
    BY DEF Ask, OInv, WireOwned
  <1>2. InTime(wire', clock')
    BY <1>1, LimitNat DEF InTime, OInv
  <1>3. Paid(wire', clock', answered')
    BY <1>1 DEF Paid
  <1> QED  BY <1>1, <1>2, <1>3 DEF OInv, WireOwned

\* Steps of the loops around the exchanges take no time.
LEMMA OInvLoops == OInv /\ (Turn \/ NameServers) => OInv'
  <1> SUFFICES ASSUME OInv, Turn \/ NameServers PROVE OInv'
    OBVIOUS
  <1>1. wire.phase = "none" /\ UNCHANGED <<wire, clock, answered>>
    BY DEF OInv, WireOwned, Turn, NameServers
  <1> QED  BY <1>1 DEF OInv, WireOwned

LEMMA OInvQuery == OInv /\ QueryServer => OInv'
  <1> SUFFICES ASSUME OInv, QueryServer PROVE OInv'
    OBVIOUS
  <1>1. UNCHANGED <<clock, answered>> /\ wire.phase = "none" /\ stack # <<>>
        /\ Top.at = "query"
    BY DEF QueryServer
  <1>2. CASE UNCHANGED wire
    BY <1>1, <1>2 DEF OInv, WireOwned
  <1>3. CASE /\ clock < Budget /\ UNCHANGED stack
             /\ wire' = [phase |-> "udp", timeout |-> Timeout, reads |-> 0]
    <2>1. InTime(wire', clock')
      BY <1>1, <1>3, Begins DEF Timeout, OInv, InTime
    <2>2. Paid(wire', clock', answered')
      BY <1>1, <1>3 DEF Paid, OInv
    <2>3. WireOwned'
      BY <1>1, <1>3 DEF WireOwned, Top
    <2> QED  BY <2>1, <2>2, <2>3 DEF OInv
  <1> QED  BY <1>2, <1>3 DEF QueryServer

\* The end of an exchange.
LEMMA OInvEnds ==
    ASSUME OInv, NEW d \in 0..wire.timeout,
           Failed(d) \/ \E r \in Replies : Replied(d, r)
    PROVE  OInv'
  <1>1. wire.phase # "none" /\ clock' = clock + d /\ wire' = NoWire
    BY DEF Failed, Replied
  <1>2. clock' \in Nat /\ clock' <= Limit
    BY <1>1, Ends DEF OInv
  <1>3. InTime(wire', clock')
    BY <1>1, <1>2, Idle
  <1>4. \/ answered' = answered
        \/ answered' = answered + 1 /\ (wire.phase = "read" \/ d > 0)
    BY DEF Failed, Replied
  <1>5. d \in Nat /\ clock \in Nat
    BY RecurseAssumption DEF OInv, InTime, Wires
  <1>6. answered' \in Nat /\ answered' <= clock'
    BY <1>1, <1>4, <1>5 DEF OInv, Paid
  <1> QED  BY <1>1, <1>3, <1>6 DEF OInv, Paid, WireOwned, NoWire

\* The steps of an exchange over TCP.
LEMMA OInvTcp ==
    ASSUME OInv, NEW d \in 0..wire.timeout, Truncated(d) \/ Connected(d) \/ ReadPart(d)
    PROVE  OInv'
  <1>1. /\ clock' = clock + d /\ answered' = answered /\ wire.phase # "none"
        /\ UNCHANGED stack
    BY DEF Truncated, Connected, ReadPart
  <1>2. d \in Nat /\ clock \in Nat /\ wire \in Wires
    BY RecurseAssumption DEF OInv, InTime, Wires
  <1>3. WireOwned'
    BY <1>1 DEF OInv, WireOwned, Top
  <1>4. CASE Truncated(d)
    <2>1. InTime(wire', clock')
      BY <1>4, Connects DEF Truncated, OInv
    <2>2. d > 0
      BY <1>4 DEF Truncated
    <2>3. Paid(wire', clock', answered')
      BY <1>1, <1>2, <2>2 DEF Paid, OInv
    <2> QED  BY <1>3, <2>1, <2>3 DEF OInv
  <1>5. CASE Connected(d)
    <2>1. InTime(wire', clock')
      BY <1>5, Reads DEF Connected, OInv
    <2>2. wire.phase = "connect"
      BY <1>5 DEF Connected
    <2>3. Paid(wire', clock', answered')
      BY <1>1, <1>2, <2>2 DEF Paid, OInv
    <2> QED  BY <1>3, <2>1, <2>3 DEF OInv
  <1>6. CASE ReadPart(d)
    <2>1. InTime(wire', clock')
      BY <1>6, ReadsOn DEF ReadPart, OInv
    <2>2. wire.phase = "read"
      BY <1>6 DEF ReadPart
    <2>3. Paid(wire', clock', answered')
      BY <1>1, <1>2, <2>2 DEF Paid, OInv
    <2> QED  BY <1>3, <2>1, <2>3 DEF OInv
  <1> QED  BY <1>4, <1>5, <1>6

LEMMA OInvNext == OInv /\ [Next]_vars => OInv'
  <1> SUFFICES ASSUME OInv, [Next]_vars PROVE OInv'
    OBVIOUS
  <1>1. CASE Network
    BY <1>1, OInvEnds, OInvTcp DEF Network
  <1>2. CASE UNCHANGED vars
    BY <1>2 DEF vars, OInv, WireOwned, Top
  <1> QED  BY <1>1, <1>2, OInvAsk, OInvLoops, OInvQuery DEF Next, Step

\* However truncation, slow connections and slow reads combine, and whatever the
\* configured timeouts are, no resolution runs further past its deadline than one
\* connect and TcpReads reads of ns_probe_timeout (query_servers, exchange_tcp).
THEOREM DeadlineOverrun == Spec => []OverrunBounded
  <1>1. OInv => OverrunBounded
    BY DEF OInv, InTime, OverrunBounded, Limit
  <1> QED  BY <1>1, OInvInit, OInvNext, PTL DEF Spec

\* Replies are paid for with time: the number of replies a resolution follows is bounded
\* by the same limit, whatever the servers say.
THEOREM RepliesTakeTime == Spec => [](answered <= clock /\ answered <= Limit)
  <1>1. OInv => answered <= clock /\ answered <= Limit
    BY LimitNat DEF OInv, InTime, Paid
  <1> QED  BY <1>1, OInvInit, OInvNext, PTL DEF Spec

----------------------------------------------------------------------------
(* The stack of walks.  Share is what the addresses of one name server may     *)
(* take up in the list of the next servers.                                    *)

Share == MaxList \div MaxNs

LEMMA ShareFits ==
    /\ Share \in Nat /\ MaxNs * Share <= MaxList /\ MaxList \in Nat /\ MaxNs \in Nat
    /\ \A r \in Replies : Share >= 1 /\ Len(r.ns) <= MaxNs /\ Len(r.addrs) <= Share
  <1>1. MaxList \in Nat /\ MaxNs \in Nat \ {0}
    BY RecurseAssumption
  <1>2. Share \in Nat /\ MaxNs * Share <= MaxList /\ MaxList < MaxNs * (Share + 1)
    BY <1>1 DEF Share
  <1>3. ASSUME NEW x \in Nat, MaxNs * x <= MaxList PROVE x <= Share
    <2> SUFFICES ASSUME x > Share PROVE FALSE
      BY <1>2
    <2>1. Share + 1 \in Nat /\ Share + 1 <= x /\ MaxNs <= MaxNs
      BY <1>1, <1>2
    <2>2. MaxNs * (Share + 1) <= MaxNs * x /\ MaxNs * x \in Nat /\ MaxNs * (Share + 1) \in Nat
      BY <1>1, <2>1, ProductMonotone
    <2> QED  BY <1>1, <1>2, <1>3, <2>2
  <1>4. ASSUME NEW r \in Replies
        PROVE  Share >= 1 /\ Len(r.ns) <= MaxNs /\ Len(r.addrs) <= Share
    <2>1. /\ Len(r.ns) <= MaxNs /\ MaxNs * Len(r.addrs) <= MaxList /\ MaxNs <= MaxList
          /\ r.addrs \in Seq(Servers)
      BY RecurseAssumption
    <2>2. MaxNs * 1 <= MaxList /\ 1 \in Nat /\ Len(r.addrs) \in Nat
      BY <1>1, <2>1
    <2>3. 1 <= Share
      BY <1>3, <2>2
    <2>4. Len(r.addrs) <= Share
      BY <1>3, <2>1, <2>2
    <2> QED  BY <2>1, <2>3, <2>4, <1>2
  <1> QED  BY <1>1, <1>2, <1>4

FrameOK(f) ==
    /\ f \in Frames /\ Len(f.servers) \in 1..MaxList
    /\ f.at # "names" => f.ns = <<>> /\ f.next = <<>> /\ f.asked = "none"
    /\ f.at = "query" => f.i <= Len(f.servers) + 1
    /\ f.at # "turn" => f.depth < MaxDepth
    /\ f.at = "names" => Share >= 1 /\ Len(f.next) + Len(f.ns) * Share <= MaxList
    /\ f.asked # "none" => f.ns # <<>>

LEMMA WalkOK == FrameOK(Walk) /\ Walk.asked = "none" /\ Walk.at = "turn"
  <1>1. /\ Roots \in Seq(Servers) /\ Len(Roots) \in 1..MaxList /\ 1 \in 1..MaxList + 1
        /\ MaxDepth \in Nat
    BY RecurseAssumption
  <1>2. <<>> \in Seq(Servers \cup {None}) /\ <<>> \in Seq(Servers)
    OBVIOUS
  <1> QED  BY <1>1, <1>2 DEF Walk, FrameOK, Frames

LEMMA FrameTurn ==
    ASSUME NEW f, FrameOK(f), f.at = "turn", f.depth < MaxDepth
    PROVE  FrameOK([f EXCEPT !.at = "query", !.i = 1])
  <1>1. 1 \in 1..MaxList + 1 /\ Len(f.servers) \in Nat /\ f \in Frames
    BY ShareFits DEF FrameOK
  <1> DEFINE g == [f EXCEPT !.at = "query", !.i = 1]
  <1>2. /\ g \in Frames /\ g.at = "query" /\ g.ns = f.ns /\ g.next = f.next /\ g.i = 1
        /\ g.asked = f.asked /\ g.depth = f.depth /\ g.servers = f.servers
    BY <1>1 DEF Frames
  <1> QED  BY <1>1, <1>2 DEF FrameOK

LEMMA FrameReferred ==
    ASSUME NEW f, FrameOK(f), f.at = "query", NEW r \in Replies
    PROVE  FrameOK([f EXCEPT !.at = "names", !.ns = r.ns])
  <1>1. r.ns \in Seq(Servers \cup {None}) /\ Len(r.ns) \in Nat /\ Len(r.ns) <= MaxNs
        /\ Share >= 1 /\ Share \in Nat /\ MaxNs \in Nat /\ MaxNs * Share <= MaxList
        /\ MaxList \in Nat
    BY ShareFits, RecurseAssumption
  <1>2. Len(r.ns) * Share <= MaxNs * Share /\ Len(r.ns) * Share \in Nat /\ MaxNs * Share \in Nat
    BY <1>1, ProductMonotone
  <1>3. f.next = <<>> /\ Len(f.next) = 0 /\ f.asked = "none"
    BY DEF FrameOK
  <1>4. Len(f.next) + Len(r.ns) * Share <= MaxList
    BY <1>1, <1>2, <1>3
  <1> DEFINE g == [f EXCEPT !.at = "names", !.ns = r.ns]
  <1>5. /\ g \in Frames /\ g.at = "names" /\ g.ns = r.ns /\ g.next = f.next
        /\ g.asked = "none" /\ g.depth = f.depth /\ g.servers = f.servers
    BY <1>1, <1>3 DEF FrameOK, Frames
  <1> QED  BY <1>1, <1>4, <1>5 DEF FrameOK

LEMMA FrameNextServer ==
    ASSUME NEW f, FrameOK(f), f.at = "query", f.i <= Len(f.servers)
    PROVE  FrameOK([f EXCEPT !.i = @ + 1])
  <1>1. /\ f \in Frames /\ f.i \in 1..MaxList + 1 /\ Len(f.servers) \in 1..MaxList
        /\ MaxList \in Nat
    BY ShareFits DEF FrameOK, Frames
  <1>2. f.i + 1 \in 1..MaxList + 1 /\ f.i + 1 <= Len(f.servers) + 1
    BY <1>1
  <1> QED  BY <1>1, <1>2 DEF FrameOK, Frames

\* The addresses of the first name server of the list join the next servers.
LEMMA FrameJoined ==
    ASSUME NEW f, FrameOK(f), f.at = "names", f.ns # <<>>,
           NEW a \in Seq(Servers), Len(a) <= Share
    PROVE  FrameOK([f EXCEPT !.next = @ \o a, !.ns = Tail(@), !.asked = "none"])
  <1>1. /\ f \in Frames /\ f.ns \in Seq(Servers \cup {None}) /\ f.next \in Seq(Servers)
        /\ Len(f.next) + Len(f.ns) * Share <= MaxList /\ Share \in Nat
        /\ Len(f.next) \in Nat /\ Len(f.ns) \in Nat /\ Len(a) \in Nat /\ MaxList \in Nat
    BY ShareFits, LenProperties DEF FrameOK, Frames
  <1>2. Tail(f.ns) \in Seq(Servers \cup {None}) /\ Len(Tail(f.ns)) = Len(f.ns) - 1
    BY <1>1, HeadTailProperties
  <1>3. f.next \o a \in Seq(Servers) /\ Len(f.next \o a) = Len(f.next) + Len(a)
    BY <1>1, ConcatProperties
  <1>4. PICK n \in Nat : Len(f.ns) = n + 1
    <2>1. Len(f.ns) - 1 \in Nat /\ Len(f.ns) = (Len(f.ns) - 1) + 1
      BY <1>1, EmptySeq
    <2> QED  BY <2>1
  <1>5. (n + 1) * Share = n * Share + Share /\ n * Share \in Nat
    BY <1>1
  <1>6. Len(f.next \o a) + Len(Tail(f.ns)) * Share <= MaxList
    <2>1. Len(Tail(f.ns)) = n
      BY <1>2, <1>4
    <2>2. PICK p \in Nat : p = n * Share
      BY <1>5
    <2>3. Len(f.ns) * Share = p + Share /\ Len(Tail(f.ns)) * Share = p
      BY <1>4, <1>5, <2>1, <2>2
    <2>4. Len(f.next) + (p + Share) <= MaxList
      BY <1>1, <2>3
    <2>5. (Len(f.next) + Len(a)) + p <= MaxList
      <3>1. Len(f.next) \in Nat /\ Len(a) \in Nat /\ MaxList \in Nat /\ Share \in Nat
        BY <1>1
      <3>2. ASSUME NEW x \in Nat, NEW y \in Nat, NEW z \in Nat, NEW m \in Nat,
                   x + (p + z) <= m, y <= z
            PROVE  (x + y) + p <= m
        BY <3>2
      <3> QED  BY <2>4, <3>1, <3>2
    <2> QED  BY <1>3, <2>3, <2>5
  <1> DEFINE g == [f EXCEPT !.next = @ \o a, !.ns = Tail(@), !.asked = "none"]
  <1>7. /\ g \in Frames /\ g.at = "names" /\ g.ns = Tail(f.ns) /\ g.next = f.next \o a
        /\ g.asked = "none" /\ g.depth = f.depth /\ g.servers = f.servers
    BY <1>1, <1>2, <1>3 DEF Frames
  <1> QED  BY <1>6, <1>7 DEF FrameOK

LEMMA FrameGlue ==
    ASSUME NEW f, FrameOK(f), f.at = "names", f.asked = "none", f.ns # <<>>, Head(f.ns) # None
    PROVE  FrameOK([f EXCEPT !.next = Append(@, Head(f.ns)), !.ns = Tail(@)])
  <1> DEFINE a == <<Head(f.ns)>>
             g == [f EXCEPT !.next = Append(@, Head(f.ns)), !.ns = Tail(@)]
             h == [f EXCEPT !.next = @ \o a, !.ns = Tail(@), !.asked = "none"]
  <1>1. f \in Frames /\ f.ns \in Seq(Servers \cup {None}) /\ f.next \in Seq(Servers) /\ Share >= 1
    BY DEF FrameOK, Frames
  <1>2. Head(f.ns) \in Servers
    BY <1>1, HeadTailProperties
  <1>3. a \in Seq(Servers) /\ Len(a) <= Share
    BY <1>1, <1>2, ShareFits
  <1>4. FrameOK(h)
    BY <1>3, FrameJoined
  <1>5. Append(f.next, Head(f.ns)) = f.next \o a
    BY <1>1, <1>2, AppendIsConcat
  <1>6. g = h
    BY <1>1, <1>5 DEF Frames
  <1> QED  BY <1>4, <1>6

LEMMA FrameNextTurn ==
    ASSUME NEW f, FrameOK(f), f.at = "names", f.asked = "none", f.ns = <<>>, f.next # <<>>
    PROVE  FrameOK([f EXCEPT !.at = "turn", !.depth = @ + 1, !.servers = f.next, !.next = <<>>])
  <1>1. /\ f \in Frames /\ f.next \in Seq(Servers) /\ Len(f.next) \in Nat \ {0}
        /\ Len(f.ns) = 0 /\ f.depth \in 0..MaxDepth /\ f.depth < MaxDepth /\ MaxDepth \in Nat
        /\ Len(f.next) + Len(f.ns) * Share <= MaxList /\ Share \in Nat /\ MaxList \in Nat
    <2>1. f.next \in Seq(Servers) /\ f.depth \in 0..MaxDepth
      BY DEF FrameOK, Frames
    <2>2. Len(f.next) \in Nat \ {0} /\ Len(f.ns) = 0
      BY <2>1, EmptySeq
    <2> QED  BY <2>1, <2>2, ShareFits, RecurseAssumption DEF FrameOK
  <1>2. Len(f.next) \in 1..MaxList /\ f.depth + 1 \in 0..MaxDepth
    <2>1. Len(f.ns) * Share = 0
      BY <1>1
    <2>2. Len(f.next) + 0 <= MaxList
      BY <1>1, <2>1
    <2>3. /\ Len(f.next) \in Nat \ {0} /\ MaxList \in Nat
          /\ f.depth \in 0..MaxDepth /\ f.depth < MaxDepth /\ MaxDepth \in Nat
      BY <1>1
    <2> QED  BY <2>2, <2>3
  <1>3. <<>> \in Seq(Servers)
    OBVIOUS
  <1> QED  BY <1>1, <1>2, <1>3 DEF FrameOK, Frames

LEMMA FrameAsks ==
    ASSUME NEW f, FrameOK(f), f.at = "names", f.ns # <<>>, NEW t \in {"A", "AAAA"}
    PROVE  FrameOK([f EXCEPT !.asked = t])
  BY DEF FrameOK, Frames

\* The caller of a nested walk that has ended.
LEMMA FrameWithAddresses ==
    ASSUME NEW f, FrameOK(f), f.asked # "none", NEW a \in Seq(Servers), Len(a) <= Share
    PROVE  /\ FrameOK(WithAddresses(f, a)) /\ WithAddresses(f, a).at = "names"
           /\ WithAddresses(f, a).asked \in {"none", "AAAA"}
  <1>1. f \in Frames /\ f.at = "names" /\ f.ns # <<>>
    BY DEF FrameOK
  <1>2. CASE a = <<>> /\ f.asked = "A"
    BY <1>1, <1>2, FrameAsks DEF WithAddresses, Frames
  <1>3. CASE ~(a = <<>> /\ f.asked = "A")
    <2>1. WithAddresses(f, a) = [f EXCEPT !.next = @ \o a, !.ns = Tail(@), !.asked = "none"]
      BY <1>3 DEF WithAddresses
    <2>2. FrameOK(WithAddresses(f, a))
      BY <1>1, <2>1, FrameJoined
    <2> QED  BY <1>1, <2>1, <2>2 DEF Frames
  <1> QED  BY <1>2, <1>3

\* Every call but the innermost waits for a nested walk.
StackOK(s) ==
    /\ s \in Seq(Frames)
    /\ \A k \in 1..Len(s) : FrameOK(s[k]) /\ (s[k].asked # "none" <=> k < Len(s))

\* A stack cut to its first k frames, with others put on top.
LEMMA Cut ==
    ASSUME NEW S, NEW s \in Seq(S), NEW k \in 0..Len(s), NEW t \in Seq(S)
    PROVE  /\ SubSeq(s, 1, k) \o t \in Seq(S) /\ Len(SubSeq(s, 1, k) \o t) = k + Len(t)
           /\ \A i \in 1..k : (SubSeq(s, 1, k) \o t)[i] = s[i]
           /\ \A i \in 1..Len(t) : (SubSeq(s, 1, k) \o t)[k + i] = t[i]
  <1>1. Len(s) \in Nat /\ k \in Nat /\ k \in Int /\ 1 \in Int /\ Len(t) \in Nat
    BY LenProperties
  <1>2. \A i \in 1..k : s[i] \in S
    BY <1>1, ElementOfSeq
  <1> DEFINE u == SubSeq(s, 1, k)
  <1>3. u \in Seq(S) /\ Len(u) = k /\ \A i \in 1..k : u[i] = s[i]
    <2>1. /\ SubSeq(s, 1, k) \in Seq(S) /\ Len(SubSeq(s, 1, k)) = IF 1 <= k THEN k - 1 + 1 ELSE 0
          /\ \A i \in 1..(k - 1 + 1) : SubSeq(s, 1, k)[i] = s[1 + i - 1]
      BY <1>1, <1>2, SubSeqProperties
    <2> QED  BY <1>1, <2>1
  <1> HIDE DEF u
  <1>4. /\ u \o t \in Seq(S) /\ Len(u \o t) = Len(u) + Len(t)
        /\ \A i \in 1..(Len(u) + Len(t)) : (u \o t)[i] = IF i <= Len(u) THEN u[i] ELSE t[i - Len(u)]
    BY <1>3, ConcatProperties
  <1>5. \A i \in 1..k : (u \o t)[i] = s[i]
    BY <1>1, <1>3, <1>4
  <1>6. ASSUME NEW i \in 1..Len(t) PROVE (u \o t)[k + i] = t[i]
    <2>1. k + i \in 1..(k + Len(t)) /\ ~(k + i <= k) /\ (k + i) - k = i
      BY <1>1
    <2> QED  BY <1>3, <1>4, <2>1
  <1> QED  BY <1>3, <1>4, <1>5, <1>6 DEF u

LEMMA StackWithTop ==
    ASSUME NEW s, StackOK(s), NEW k \in 0..(Len(s) - 1), NEW f, FrameOK(f), f.asked = "none"
    PROVE  /\ StackOK(SubSeq(s, 1, k) \o <<f>>) /\ Len(SubSeq(s, 1, k) \o <<f>>) = k + 1
           /\ \A i \in 1..k : (SubSeq(s, 1, k) \o <<f>>)[i] = s[i]
           /\ (SubSeq(s, 1, k) \o <<f>>)[k + 1] = f
  <1> DEFINE u == SubSeq(s, 1, k) \o <<f>>
  <1>1. s \in Seq(Frames) /\ Len(s) \in Nat /\ k \in 0..Len(s) /\ k \in Nat /\ k < Len(s)
    BY LenProperties DEF StackOK
  <1>2. <<f>> \in Seq(Frames) /\ Len(<<f>>) = 1 /\ <<f>>[1] = f /\ 1 \in 1..1
    BY DEF FrameOK
  <1>3. /\ u \in Seq(Frames) /\ Len(u) = k + Len(<<f>>) /\ \A i \in 1..k : u[i] = s[i]
        /\ \A i \in 1..Len(<<f>>) : u[k + i] = <<f>>[i]
    BY <1>1, <1>2, Cut
  <1> HIDE DEF u
  <1>4. Len(u) = k + 1 /\ u[k + 1] = f
    BY <1>2, <1>3
  <1>5. ASSUME NEW i \in 1..(k + 1)
        PROVE  FrameOK(u[i]) /\ (u[i].asked # "none" <=> i < k + 1)
    <2>1. CASE i \in 1..k
      <3>1. u[i] = s[i] /\ i \in 1..Len(s) /\ i < Len(s) /\ i < k + 1
        BY <1>1, <1>3, <2>1
      <3> QED  BY <3>1 DEF StackOK
    <2>2. CASE i = k + 1
      BY <1>1, <1>4, <2>2
    <2> QED  BY <1>1, <2>1, <2>2
  <1>6. StackOK(u)
    BY <1>3, <1>4, <1>5 DEF StackOK
  <1> QED  BY <1>3, <1>4, <1>6 DEF u

LEMMA StackWithWalk ==
    ASSUME NEW s, StackOK(s), NEW k \in 0..(Len(s) - 1), NEW f, FrameOK(f), f.asked # "none"
    PROVE  /\ StackOK(SubSeq(s, 1, k) \o <<f, Walk>>)
           /\ Len(SubSeq(s, 1, k) \o <<f, Walk>>) = k + 2
           /\ \A i \in 1..k : (SubSeq(s, 1, k) \o <<f, Walk>>)[i] = s[i]
           /\ (SubSeq(s, 1, k) \o <<f, Walk>>)[k + 1] = f
           /\ (SubSeq(s, 1, k) \o <<f, Walk>>)[k + 2] = Walk
  <1> DEFINE t == <<f, Walk>>
             u == SubSeq(s, 1, k) \o t
  <1>1. s \in Seq(Frames) /\ Len(s) \in Nat /\ k \in 0..Len(s) /\ k \in Nat /\ k < Len(s)
    BY LenProperties DEF StackOK
  <1>2. /\ t \in Seq(Frames) /\ Len(t) = 2 /\ t[1] = f /\ t[2] = Walk
        /\ 1 \in 1..2 /\ 2 \in 1..2
    <2>1. f \in Frames /\ Walk \in Frames
      BY WalkOK DEF FrameOK
    <2> QED  BY <2>1
  <1> HIDE DEF t
  <1>3. /\ u \in Seq(Frames) /\ Len(u) = k + Len(t) /\ \A i \in 1..k : u[i] = s[i]
        /\ \A i \in 1..Len(t) : u[k + i] = t[i]
    <2>1. s \in Seq(Frames) /\ k \in 0..Len(s) /\ t \in Seq(Frames)
      BY <1>1, <1>2
    <2>2. u \in Seq(Frames) /\ Len(u) = k + Len(t)
      BY <2>1, Cut
    <2>3. \A i \in 1..k : u[i] = s[i]
      BY <2>1, Cut
    <2>4. \A i \in 1..Len(t) : u[k + i] = t[i]
      BY <2>1, Cut
    <2> QED  BY <2>2, <2>3, <2>4
  <1> HIDE DEF u
  <1>4. Len(u) = k + 2 /\ u[k + 1] = f /\ u[k + 2] = Walk
    BY <1>2, <1>3
  <1>5. ASSUME NEW i \in 1..(k + 2)
        PROVE  FrameOK(u[i]) /\ (u[i].asked # "none" <=> i < k + 2)
    <2>1. CASE i \in 1..k
      <3>1. u[i] = s[i] /\ i \in 1..Len(s) /\ i < Len(s) /\ i < k + 2
        BY <1>1, <1>3, <2>1
      <3> QED  BY <3>1 DEF StackOK
    <2>2. CASE i = k + 1
      BY <1>1, <1>4, <2>2
    <2>3. CASE i = k + 2
      BY <1>1, <1>4, <2>3, WalkOK
    <2> QED  BY <1>1, <2>1, <2>2, <2>3
  <1>6. StackOK(u)
    BY <1>3, <1>4, <1>5 DEF StackOK
  <1> QED  BY <1>3, <1>4, <1>6 DEF u, t

LEMMA StackTop ==
    ASSUME NEW s, StackOK(s), s # <<>>
    PROVE  /\ Len(s) \in Nat \ {0} /\ FrameOK(s[Len(s)]) /\ s[Len(s)].asked = "none"
           /\ \A k \in 1..(Len(s) - 1) : FrameOK(s[k]) /\ s[k].asked # "none"
  <1>1. Len(s) \in Nat \ {0}
    BY EmptySeq DEF StackOK
  <1>2. Len(s) \in 1..Len(s) /\ ~(Len(s) < Len(s))
    BY <1>1
  <1>3. \A k \in 1..(Len(s) - 1) : k \in 1..Len(s) /\ k < Len(s)
    BY <1>1
  <1> QED  BY <1>1, <1>2, <1>3 DEF StackOK

\* The ways in which a step changes the stack: the innermost call goes on, it calls, it
\* returns to no caller, or to one that goes on or calls again.
LEMMA BecomeCuts ==
    ASSUME StackOK(stack), stack # <<>>, NEW f \in Frames, Become(f)
    PROVE  stack' = SubSeq(stack, 1, Len(stack) - 1) \o <<f>>
  <1>1. Len(stack) \in Nat \ {0} /\ stack \in Seq(Frames)
    BY StackTop DEF StackOK
  <1>2. \A i \in 1..(Len(stack) - 1) : stack[i] \in Frames
    BY <1>1, ElementOfSeq
  <1>3. SubSeq(stack, 1, Len(stack) - 1) \in Seq(Frames)
    <2>1. 1 \in Int /\ Len(stack) - 1 \in Int
      BY <1>1
    <2> QED  BY <1>2, <2>1, SubSeqProperties
  <1>4. Append(SubSeq(stack, 1, Len(stack) - 1), f) = SubSeq(stack, 1, Len(stack) - 1) \o <<f>>
    BY <1>3, AppendIsConcat
  <1> QED  BY <1>4 DEF Become, Callers

LEMMA ReturnsCuts ==
    ASSUME StackOK(stack), stack # <<>>, NEW how, NEW now,
           NEW a \in Seq(Servers), Len(a) <= Share, Returns(how, a, now)
    PROVE  \/ Len(stack) = 1 /\ stack' = <<>>
           \/ /\ Len(stack) - 1 \in 1..(Len(stack) - 1)
              /\ FrameOK(stack[Len(stack) - 1]) /\ stack[Len(stack) - 1].asked # "none"
              /\ FrameOK(WithAddresses(stack[Len(stack) - 1], a))
              /\ WithAddresses(stack[Len(stack) - 1], a).at = "names"
              /\ \/ /\ WithAddresses(stack[Len(stack) - 1], a).asked = "none"
                    /\ stack' = SubSeq(stack, 1, Len(stack) - 2)
                                  \o <<WithAddresses(stack[Len(stack) - 1], a)>>
                 \/ /\ WithAddresses(stack[Len(stack) - 1], a).asked = "AAAA"
                    /\ stack' = SubSeq(stack, 1, Len(stack) - 2)
                                  \o <<WithAddresses(stack[Len(stack) - 1], a), Walk>>
  <1>1. Len(stack) \in Nat \ {0}
    BY StackTop
  <1>2. CASE Len(stack) = 1
    BY <1>2 DEF Returns
  <1>3. CASE Len(stack) # 1
    <2>0. ASSUME NEW n \in Nat \ {0}, n # 1 PROVE n - 1 \in 1..(n - 1)
      BY <2>0
    <2>1. Len(stack) - 1 \in 1..(Len(stack) - 1)
      BY <1>1, <1>3, <2>0
    <2> DEFINE f == stack[Len(stack) - 1]
               g == WithAddresses(f, a)
    <2>2. FrameOK(f) /\ f.asked # "none"
      BY <2>1, StackTop
    <2>3. FrameOK(g) /\ g.at = "names" /\ g.asked \in {"none", "AAAA"}
      BY <2>2, FrameWithAddresses
    <2>4. stack' = SubSeq(stack, 1, Len(stack) - 2) \o
                     (IF g.asked = "none" THEN <<g>> ELSE <<g, Walk>>)
      BY <1>3 DEF Returns
    <2> HIDE DEF g
    <2>5. \/ g.asked = "none" /\ stack' = SubSeq(stack, 1, Len(stack) - 2) \o <<g>>
          \/ g.asked = "AAAA" /\ stack' = SubSeq(stack, 1, Len(stack) - 2) \o <<g, Walk>>
      BY <2>3, <2>4
    <2> QED  BY <2>1, <2>2, <2>3, <2>5 DEF g
  <1> QED  BY <1>2, <1>3

----------------------------------------------------------------------------
(* The ledger of the queries.  A reply buys one round of queries and two for   *)
(* each of its name servers; a call of iterative() holds what is left of that. *)

\* The rounds a call that looks at name servers may still begin or have begun for it.
Rounds(f) ==
    IF f.asked = "none" THEN 1 + 2 * Len(f.ns)
    ELSE IF f.asked = "A" THEN 2 * Len(f.ns) ELSE 2 * Len(f.ns) - 1

\* The queries it may still send.
Due(f) ==
    IF f.at = "turn" THEN MaxList
    ELSE IF f.at = "query" THEN (Len(f.servers) + 1) - f.i
    ELSE Rounds(f) * MaxList

\* What one reply buys, and what n of them and the first round do.
Bought == (1 + 2 * MaxNs) * MaxList
Allowed(n) == (1 + n * (1 + 2 * MaxNs)) * MaxList

LEMMA AllowedGrows ==
    /\ Allowed(0) = MaxList /\ MaxList \in Nat /\ Bought \in Nat
    /\ \A n \in Nat : Allowed(n) \in Nat /\ Allowed(n + 1) = Allowed(n) + Bought
  <1>1. MaxList \in Nat /\ MaxNs \in Nat
    BY RecurseAssumption
  <1>2. ASSUME NEW m \in Nat, NEW b \in Nat, NEW n \in Nat
        PROVE  /\ (1 + n * b) * m \in Nat /\ b * m \in Nat /\ (1 + 0 * b) * m = m
               /\ (1 + (n + 1) * b) * m = (1 + n * b) * m + b * m
    <2>1. (n + 1) * b = n * b + b /\ n * b \in Nat
      OBVIOUS
    <2>2. PICK q \in Nat : q = 1 + n * b
      BY <2>1
    <2>3. (q + b) * m = q * m + b * m /\ q * m \in Nat /\ b * m \in Nat
      OBVIOUS
    <2>4. 1 + (n + 1) * b = q + b
      BY <2>1, <2>2
    <2>5. (1 + 0 * b) * m = m
      OBVIOUS
    <2> QED  BY <2>2, <2>3, <2>4, <2>5
  <1>3. 1 + 2 * MaxNs \in Nat
    BY <1>1
  <1> QED  BY <1>1, <1>2, <1>3 DEF Allowed, Bought

LEMMA DueWalk == Due(Walk) = MaxList
  BY DEF Due, Walk

LEMMA RoundsLeft ==
    ASSUME NEW f, FrameOK(f), f.at = "names"
    PROVE  Rounds(f) \in Nat /\ Due(f) = Rounds(f) * MaxList /\ MaxList \in Nat
  <1>1. /\ f.ns \in Seq(Servers \cup {None}) /\ f.asked \in {"none", "A", "AAAA"}
        /\ f.asked # "none" => f.ns # <<>>
    BY DEF FrameOK, Frames
  <1>2. Len(f.ns) \in Nat /\ (f.ns # <<>> => Len(f.ns) # 0)
    BY <1>1, EmptySeq
  <1>3. ASSUME NEW n \in Nat PROVE 1 + 2 * n \in Nat /\ 2 * n \in Nat /\ (n # 0 => 2 * n - 1 \in Nat)
    OBVIOUS
  <1>4. Rounds(f) \in Nat
    BY <1>1, <1>2, <1>3 DEF Rounds
  <1> QED  BY <1>4, RecurseAssumption DEF Due

LEMMA DueNat ==
    ASSUME NEW f, FrameOK(f)
    PROVE  Due(f) \in Nat
  <1>1. CASE f.at = "names"
    BY <1>1, RoundsLeft
  <1>2. CASE f.at = "query"
    <2>1. f.i \in Nat /\ Len(f.servers) \in Nat /\ f.i <= Len(f.servers) + 1
      BY <1>2, RecurseAssumption DEF FrameOK, Frames
    <2>2. ASSUME NEW i \in Nat, NEW n \in Nat, i <= n + 1 PROVE (n + 1) - i \in Nat
      BY <2>2
    <2> QED  BY <1>2, <2>1, <2>2 DEF Due
  <1>3. CASE f.at = "turn"
    BY <1>3, RecurseAssumption DEF Due
  <1> QED  BY <1>1, <1>2, <1>3 DEF FrameOK, Frames

\* A call whose rounds do not grow owes no more; one that gives up a round can pay for a
\* walk.
LEMMA FewerRounds ==
    ASSUME NEW f, FrameOK(f), f.at = "names", NEW g, FrameOK(g), g.at = "names"
    PROVE  /\ Rounds(g) <= Rounds(f) => Due(g) <= Due(f)
           /\ Rounds(g) + 1 <= Rounds(f) => Due(g) + MaxList <= Due(f)
  <1>1. /\ Rounds(f) \in Nat /\ Rounds(g) \in Nat /\ MaxList \in Nat
        /\ Due(f) = Rounds(f) * MaxList /\ Due(g) = Rounds(g) * MaxList
    BY RoundsLeft
  <1>2. \A a \in Nat : a <= Rounds(f) => a * MaxList <= Rounds(f) * MaxList
    BY <1>1, ProductMonotone
  <1>3. (Rounds(g) + 1) * MaxList = Rounds(g) * MaxList + MaxList /\ Rounds(g) + 1 \in Nat
    BY <1>1
  <1> QED  BY <1>1, <1>2, <1>3

LEMMA DueTurn ==
    ASSUME NEW f, FrameOK(f), f.at = "turn"
    PROVE  Due([f EXCEPT !.at = "query", !.i = 1]) <= Due(f)
  <1>1. f \in Frames /\ Len(f.servers) \in 1..MaxList /\ MaxList \in Nat
    BY RecurseAssumption DEF FrameOK
  <1> DEFINE g == [f EXCEPT !.at = "query", !.i = 1]
  <1>2. g.at = "query" /\ g.i = 1 /\ g.servers = f.servers
    BY <1>1 DEF Frames
  <1>3. ASSUME NEW n \in 1..MaxList PROVE (n + 1) - 1 <= MaxList
    BY <1>1
  <1> QED  BY <1>1, <1>2, <1>3 DEF Due

LEMMA DueReferred ==
    ASSUME NEW f, FrameOK(f), f.at = "query", NEW r \in Replies
    PROVE  Due([f EXCEPT !.at = "names", !.ns = r.ns]) <= Bought
  <1> DEFINE g == [f EXCEPT !.at = "names", !.ns = r.ns]
  <1>1. /\ r.ns \in Seq(Servers \cup {None}) /\ Len(r.ns) <= MaxNs /\ MaxNs \in Nat
        /\ MaxList \in Nat
    BY RecurseAssumption
  <1>2. Len(r.ns) \in Nat
    BY <1>1
  <1>3. g.at = "names" /\ g.ns = r.ns /\ g.asked = "none"
    BY DEF FrameOK, Frames
  <1>4. Due(g) = (1 + 2 * Len(r.ns)) * MaxList
    BY <1>3 DEF Due, Rounds
  <1>5. 1 + 2 * Len(r.ns) \in Nat /\ 1 + 2 * MaxNs \in Nat /\ 1 + 2 * Len(r.ns) <= 1 + 2 * MaxNs
    BY <1>1, <1>2
  <1>6. (1 + 2 * Len(r.ns)) * MaxList <= (1 + 2 * MaxNs) * MaxList
    BY <1>1, <1>5, ProductMonotone
  <1> QED  BY <1>4, <1>6 DEF Bought

LEMMA DueNextServer ==
    ASSUME NEW f, FrameOK(f), f.at = "query", f.i <= Len(f.servers)
    PROVE  Due([f EXCEPT !.i = @ + 1]) + 1 = Due(f) /\ Due(f) >= 1
  <1>1. /\ f \in Frames /\ f.i \in Nat /\ Len(f.servers) \in Nat
    BY RecurseAssumption DEF FrameOK, Frames
  <1> DEFINE g == [f EXCEPT !.i = @ + 1]
  <1>2. g.at = "query" /\ g.i = f.i + 1 /\ g.servers = f.servers
    BY <1>1 DEF Frames
  <1>3. ASSUME NEW i \in Nat, NEW n \in Nat, i <= n
        PROVE  ((n + 1) - (i + 1)) + 1 = (n + 1) - i /\ (n + 1) - i >= 1
    BY <1>3
  <1>4. Due(g) = (Len(f.servers) + 1) - (f.i + 1) /\ Due(f) = (Len(f.servers) + 1) - f.i
    BY <1>2 DEF Due
  <1> QED  BY <1>1, <1>3, <1>4

LEMMA DueGlue ==
    ASSUME NEW f, FrameOK(f), f.at = "names", f.asked = "none", f.ns # <<>>, Head(f.ns) # None
    PROVE  Due([f EXCEPT !.next = Append(@, Head(f.ns)), !.ns = Tail(@)]) <= Due(f)
  <1> DEFINE g == [f EXCEPT !.next = Append(@, Head(f.ns)), !.ns = Tail(@)]
  <1>1. f.ns \in Seq(Servers \cup {None}) /\ f \in Frames
    BY DEF FrameOK, Frames
  <1>2. FrameOK(g)
    BY FrameGlue
  <1>3. g.at = "names" /\ g.asked = "none" /\ g.ns = Tail(f.ns)
    BY <1>1 DEF Frames
  <1> HIDE DEF g
  <1>4. Len(f.ns) \in Nat /\ Len(Tail(f.ns)) = Len(f.ns) - 1
    BY <1>1, HeadTailProperties, LenProperties
  <1>5. ASSUME NEW n \in Nat PROVE 1 + 2 * (n - 1) <= 1 + 2 * n
    OBVIOUS
  <1>6. Rounds(g) <= Rounds(f)
    BY <1>3, <1>4, <1>5 DEF Rounds
  <1>7. Due(g) <= Due(f)
    BY <1>2, <1>3, <1>6, FewerRounds
  <1> QED  BY <1>7 DEF g

LEMMA DueAsks ==
    ASSUME NEW f, FrameOK(f), f.at = "names", f.asked = "none", f.ns # <<>>
    PROVE  Due([f EXCEPT !.asked = "A"]) + MaxList <= Due(f)
  <1> DEFINE g == [f EXCEPT !.asked = "A"]
  <1>1. f.ns \in Seq(Servers \cup {None}) /\ f \in Frames /\ Len(f.ns) \in Nat
    BY DEF FrameOK, Frames
  <1>2. FrameOK(g)
    BY FrameAsks
  <1>3. g.at = "names" /\ g.asked = "A" /\ g.ns = f.ns
    BY <1>1 DEF Frames
  <1> HIDE DEF g
  <1>4. ASSUME NEW n \in Nat PROVE 2 * n + 1 <= 1 + 2 * n
    OBVIOUS
  <1>5. Rounds(g) + 1 <= Rounds(f)
    BY <1>1, <1>3, <1>4 DEF Rounds
  <1>6. Due(g) + MaxList <= Due(f)
    BY <1>2, <1>3, <1>5, FewerRounds
  <1> QED  BY <1>6 DEF g

LEMMA DueNextTurn ==
    ASSUME NEW f, FrameOK(f), f.at = "names", f.asked = "none", f.ns = <<>>
    PROVE  Due([f EXCEPT !.at = "turn", !.depth = @ + 1, !.servers = f.next, !.next = <<>>])
             <= Due(f)
  <1>1. MaxList \in Nat /\ f \in Frames
    BY RecurseAssumption DEF FrameOK
  <1>2. Rounds(f) = 1
    BY DEF Rounds
  <1>3. Due(f) = MaxList
    BY <1>1, <1>2 DEF Due
  <1> QED  BY <1>1, <1>3 DEF Due, Frames

\* The caller of a nested walk that has ended has its round back, or can pay for the
\* lookup of the other type.
LEMMA DueWithAddresses ==
    ASSUME NEW f, FrameOK(f), f.asked # "none", NEW a \in Seq(Servers), Len(a) <= Share
    PROVE  /\ WithAddresses(f, a).asked = "none" => Due(WithAddresses(f, a)) <= Due(f)
           /\ WithAddresses(f, a).asked = "AAAA" =>
                Due(WithAddresses(f, a)) + MaxList <= Due(f)
  <1> DEFINE g == WithAddresses(f, a)
  <1>1. /\ f \in Frames /\ f.at = "names" /\ f.ns # <<>> /\ f.ns \in Seq(Servers \cup {None})
        /\ f.asked \in {"A", "AAAA"}
    BY DEF FrameOK, Frames
  <1>2. FrameOK(g) /\ g.at = "names"
    BY FrameWithAddresses
  <1>3. Len(f.ns) \in Nat \ {0} /\ Len(Tail(f.ns)) = Len(f.ns) - 1
    BY <1>1, EmptySeq, HeadTailProperties
  <1>4. CASE a = <<>> /\ f.asked = "A"
    <2>1. g.asked = "AAAA" /\ g.ns = f.ns
      BY <1>1, <1>4 DEF WithAddresses, Frames
    <2>2. ASSUME NEW n \in Nat PROVE (2 * n - 1) + 1 <= 2 * n
      OBVIOUS
    <2> HIDE DEF g
    <2>3. Rounds(g) + 1 <= Rounds(f)
      BY <1>3, <1>4, <2>1, <2>2 DEF Rounds
    <2>4. Due(g) + MaxList <= Due(f)
      BY <1>1, <1>2, <2>3, FewerRounds
    <2> QED  BY <2>1, <2>4 DEF g
  <1>5. CASE ~(a = <<>> /\ f.asked = "A")
    <2>1. g.asked = "none" /\ g.ns = Tail(f.ns)
      BY <1>1, <1>5 DEF WithAddresses, Frames
    <2>2. ASSUME NEW n \in Nat PROVE 1 + 2 * (n - 1) <= 2 * n - 1 /\ 2 * n - 1 <= 2 * n
      OBVIOUS
    <2> HIDE DEF g
    <2>3. Rounds(g) <= Rounds(f)
      <3>1. Rounds(g) = 1 + 2 * (Len(f.ns) - 1)
        BY <1>3, <2>1 DEF Rounds
      <3>2. Rounds(f) \in {2 * Len(f.ns), 2 * Len(f.ns) - 1}
        BY <1>1 DEF Rounds
      <3> QED  BY <1>3, <2>2, <3>1, <3>2
    <2>4. Due(g) <= Due(f)
      BY <1>1, <1>2, <2>3, FewerRounds
    <2> QED  BY <2>1, <2>4 DEF g
  <1> QED  BY <1>4, <1>5

\* The first k calls of stack s hold x queries between them.
Ledger(s, k, x) ==
    \E p \in [0..k -> Nat] :
        p[0] = 0 /\ p[k] = x /\ \A j \in 1..k : p[j - 1] + Due(s[j]) <= p[j]

LEMMA LedgerEmpty ==
    ASSUME NEW s
    PROVE  Ledger(s, 0, 0)
  <1> DEFINE p == [j \in 0..0 |-> 0]
  <1>1. p \in [0..0 -> Nat] /\ p[0] = 0 /\ \A j \in 1..0 : p[j - 1] + Due(s[j]) <= p[j]
    OBVIOUS
  <1> QED  BY <1>1 DEF Ledger

LEMMA LedgerDown ==
    ASSUME NEW s, NEW k \in Nat, NEW x \in Nat, Ledger(s, k + 1, x)
    PROVE  \E y \in Nat : Ledger(s, k, y) /\ y + Due(s[k + 1]) <= x
  <1>1. PICK p \in [0..(k + 1) -> Nat] :
          /\ p[0] = 0 /\ p[k + 1] = x
          /\ \A j \in 1..(k + 1) : p[j - 1] + Due(s[j]) <= p[j]
    BY DEF Ledger
  <1> DEFINE q == [j \in 0..k |-> p[j]]
  <1>2. 0 \in 0..k /\ k \in 0..k /\ k \in 0..(k + 1) /\ k + 1 \in 1..(k + 1) /\ (k + 1) - 1 = k
    OBVIOUS
  <1>3. \A j \in 0..k : j \in 0..(k + 1)
    OBVIOUS
  <1>4. q \in [0..k -> Nat]
    BY <1>1, <1>3
  <1>5. q[0] = 0 /\ q[k] = p[k] /\ p[k] \in Nat
    BY <1>1, <1>2
  <1>6. ASSUME NEW j \in 1..k PROVE q[j - 1] + Due(s[j]) <= q[j]
    <2>1. j \in 1..(k + 1) /\ j \in 0..k /\ j - 1 \in 0..k
      OBVIOUS
    <2> QED  BY <1>1, <2>1
  <1>7. Ledger(s, k, p[k])
    <2> HIDE DEF q
    <2> QED  BY <1>4, <1>5, <1>6 DEF Ledger
  <1>8. p[k] + Due(s[k + 1]) <= x
    BY <1>1, <1>2
  <1> QED  BY <1>5, <1>7, <1>8

\* Another stack with the same first k calls, and one more that may send d queries.
LEMMA LedgerUp ==
    ASSUME NEW s, NEW k \in Nat, NEW x \in Nat, Ledger(s, k, x),
           NEW u, \A j \in 1..k : u[j] = s[j], Due(u[k + 1]) \in Nat
    PROVE  Ledger(u, k + 1, x + Due(u[k + 1])) /\ x + Due(u[k + 1]) \in Nat
  <1>1. PICK p \in [0..k -> Nat] :
          p[0] = 0 /\ p[k] = x /\ \A j \in 1..k : p[j - 1] + Due(s[j]) <= p[j]
    BY DEF Ledger
  <1>0. PICK d \in Nat : d = Due(u[k + 1])
    OBVIOUS
  <1> DEFINE q == [j \in 0..(k + 1) |-> IF j <= k THEN p[j] ELSE x + d]
  <1>2. /\ 0 \in 0..(k + 1) /\ k \in 0..(k + 1) /\ k + 1 \in 0..(k + 1) /\ ~(k + 1 <= k)
        /\ \A j \in 0..(k + 1) : j <= k => j \in 0..k
    OBVIOUS
  <1>3. q \in [0..(k + 1) -> Nat]
    BY <1>1, <1>2
  <1>4. q[0] = 0 /\ q[k] = x /\ q[k + 1] = x + d
    BY <1>1, <1>2
  <1>5. ASSUME NEW j \in 1..(k + 1) PROVE q[j - 1] + Due(u[j]) <= q[j]
    <2>1. CASE j <= k
      <3>1. j \in 1..k /\ j \in 0..(k + 1) /\ j - 1 \in 0..(k + 1) /\ j - 1 <= k
        BY <2>1
      <3>2. q[j] = p[j] /\ q[j - 1] = p[j - 1]
        BY <2>1, <3>1
      <3>3. u[j] = s[j] /\ p[j - 1] + Due(s[j]) <= p[j]
        BY <1>1, <3>1
      <3> HIDE DEF q
      <3> QED  BY <3>2, <3>3
    <2>2. CASE j = k + 1
      <3>1. j - 1 = k
        BY <2>2
      <3> HIDE DEF q
      <3>2. q[j - 1] = x /\ q[j] = x + d /\ Due(u[j]) = d
        BY <1>0, <1>4, <2>2, <3>1
      <3> QED  BY <3>2
    <2> QED  BY <2>1, <2>2
  <1>6. Ledger(u, k + 1, x + d)
    <2> HIDE DEF q
    <2> QED  BY <1>3, <1>4, <1>5 DEF Ledger
  <1> QED  BY <1>0, <1>6

\* After c queries what the calls of stack s hold stays within a.
Affords(s, c, a) == \E x \in Nat : Ledger(s, Len(s), x) /\ c + x <= a

LEMMA LedgerTop ==
    ASSUME NEW s, StackOK(s), s # <<>>, NEW c \in Nat, NEW a \in Nat, Affords(s, c, a)
    PROVE  \E y \in Nat : /\ Ledger(s, Len(s) - 1, y)
                          /\ c + (y + Due(s[Len(s)])) <= a
  <1>1. Len(s) \in Nat \ {0} /\ Due(s[Len(s)]) \in Nat
    BY StackTop, DueNat
  <1>2. PICK k \in Nat : Len(s) = k + 1
    <2>1. Len(s) - 1 \in Nat /\ Len(s) = (Len(s) - 1) + 1
      BY <1>1
    <2> QED  BY <2>1
  <1>3. PICK x \in Nat : Ledger(s, k + 1, x) /\ c + x <= a
    BY <1>2 DEF Affords
  <1>4. PICK y \in Nat : Ledger(s, k, y) /\ y + Due(s[k + 1]) <= x
    BY <1>3, LedgerDown
  <1>5. Len(s) - 1 = k
    BY <1>2
  <1>6. ASSUME NEW z \in Nat, z <= x PROVE c + z <= a
    BY <1>3, <1>6
  <1>7. y + Due(s[k + 1]) \in Nat
    BY <1>1, <1>2
  <1> QED  BY <1>2, <1>4, <1>5, <1>6, <1>7

\* The innermost call goes on as f.
LEMMA AffordsTop ==
    ASSUME NEW s, StackOK(s), s # <<>>, NEW c \in Nat, NEW a \in Nat, Affords(s, c, a),
           NEW f, FrameOK(f), f.asked = "none", NEW b \in Nat,
           Due(f) + a <= b + Due(s[Len(s)])
    PROVE  Affords(SubSeq(s, 1, Len(s) - 1) \o <<f>>, c, b)
  <1> DEFINE u == SubSeq(s, 1, Len(s) - 1) \o <<f>>
             d == Due(f)
             e == Due(s[Len(s)])
  <1>1. Len(s) \in Nat \ {0} /\ FrameOK(s[Len(s)])
    BY StackTop
  <1>2. d \in Nat /\ e \in Nat /\ d + a <= b + e
    BY <1>1, DueNat
  <1>3. PICK k \in Nat : k = Len(s) - 1
    BY <1>1
  <1>4. k \in 0..(Len(s) - 1)
    BY <1>3
  <1>5. Len(u) = k + 1 /\ (\A i \in 1..k : u[i] = s[i]) /\ u[k + 1] = f
    BY <1>3, <1>4, StackWithTop
  <1>6. PICK y \in Nat : Ledger(s, k, y) /\ c + (y + e) <= a
    BY <1>3, LedgerTop
  <1> HIDE DEF u, d, e
  <1>7. Ledger(u, k + 1, y + d) /\ y + d \in Nat
    BY <1>2, <1>5, <1>6, LedgerUp DEF d
  <1>8. c + (y + d) <= b
    BY <1>2, <1>6
  <1>9. Affords(u, c, b)
    BY <1>5, <1>7, <1>8 DEF Affords
  <1> QED  BY <1>9 DEF u

\* It waits as f for a nested walk.
LEMMA AffordsCall ==
    ASSUME NEW s, StackOK(s), s # <<>>, NEW c \in Nat, NEW a \in Nat, Affords(s, c, a),
           NEW f, FrameOK(f), f.asked # "none", Due(f) + MaxList <= Due(s[Len(s)])
    PROVE  Affords(SubSeq(s, 1, Len(s) - 1) \o <<f, Walk>>, c, a)
  <1> DEFINE u == SubSeq(s, 1, Len(s) - 1) \o <<f, Walk>>
             d == Due(f)
             e == Due(s[Len(s)])
  <1>1. Len(s) \in Nat \ {0} /\ FrameOK(s[Len(s)])
    BY StackTop
  <1>2. d \in Nat /\ e \in Nat /\ d + MaxList <= e /\ MaxList \in Nat
    BY <1>1, DueNat, AllowedGrows
  <1>3. PICK k \in Nat : k = Len(s) - 1
    BY <1>1
  <1>4. k \in 0..(Len(s) - 1)
    BY <1>3
  <1>5. /\ Len(u) = k + 2 /\ (\A i \in 1..k : u[i] = s[i]) /\ u[k + 1] = f
        /\ u[k + 2] = Walk
    <2> DEFINE v == SubSeq(s, 1, k) \o <<f, Walk>>
    <2>1. /\ Len(v) = k + 2 /\ (\A i \in 1..k : v[i] = s[i]) /\ v[k + 1] = f
          /\ v[k + 2] = Walk
      BY <1>4, StackWithWalk
    <2>2. u = v
      BY <1>3
    <2> HIDE DEF u, v
    <2> QED  BY <2>1, <2>2
  <1>6. PICK y \in Nat : Ledger(s, k, y) /\ c + (y + e) <= a
    BY <1>3, LedgerTop
  <1> HIDE DEF u, d, e
  <1>7. Ledger(u, k + 1, y + d) /\ y + d \in Nat
    BY <1>2, <1>5, <1>6, LedgerUp DEF d
  <1>8. k + 1 \in Nat /\ (k + 1) + 1 = k + 2 /\ Due(u[(k + 1) + 1]) = MaxList
    BY <1>5, DueWalk
  <1>9. Ledger(u, (k + 1) + 1, (y + d) + Due(u[(k + 1) + 1])) /\ (y + d) + MaxList \in Nat
    BY <1>2, <1>7, <1>8, LedgerUp
  <1>10. Ledger(u, Len(u), (y + d) + MaxList)
    BY <1>5, <1>8, <1>9
  <1>11. c + ((y + d) + MaxList) <= a
    BY <1>2, <1>6
  <1>12. Affords(u, c, a)
    BY <1>9, <1>10, <1>11 DEF Affords
  <1> QED  BY <1>12 DEF u

\* Below the two innermost calls.
LEMMA LedgerCaller ==
    ASSUME NEW s, StackOK(s), s # <<>>, Len(s) # 1,
           NEW c \in Nat, NEW a \in Nat, Affords(s, c, a),
           NEW b \in Nat, a <= b + Due(s[Len(s)])
    PROVE  \E k \in Nat, y \in Nat :
             /\ k = Len(s) - 2 /\ k \in 0..(Len(s) - 1)
             /\ Ledger(s, k, y) /\ c + (y + Due(s[Len(s) - 1])) <= b
  <1>1. Len(s) \in Nat \ {0} /\ Due(s[Len(s)]) \in Nat
    BY StackTop, DueNat
  <1>2. PICK k \in Nat : Len(s) = k + 2
    <2>1. ASSUME NEW n \in Nat \ {0}, n # 1 PROVE n - 2 \in Nat /\ n = (n - 2) + 2
      BY <2>1
    <2> QED  BY <1>1, <2>1
  <1>3. /\ k = Len(s) - 2 /\ k \in 0..(Len(s) - 1) /\ Len(s) - 1 = k + 1
        /\ Len(s) - 1 \in 1..(Len(s) - 1)
    BY <1>2
  <1>4. PICK y \in Nat : Ledger(s, k + 1, y) /\ c + (y + Due(s[Len(s)])) <= a
    BY <1>3, LedgerTop
  <1>5. PICK z \in Nat : Ledger(s, k, z) /\ z + Due(s[k + 1]) <= y
    BY <1>4, LedgerDown
  <1>6. Due(s[k + 1]) \in Nat
    BY <1>3, StackTop, DueNat
  <1>7. ASSUME NEW d \in Nat, NEW e \in Nat, z + d <= y, c + (y + e) <= a, a <= b + e
        PROVE  c + (z + d) <= b
    BY <1>7
  <1>8. c + (z + Due(s[k + 1])) <= b
    BY <1>1, <1>4, <1>5, <1>6, <1>7
  <1> QED  BY <1>3, <1>5, <1>8

\* The innermost call returns, and its caller goes on as g, or waits as g for another
\* walk.
LEMMA AffordsReturn ==
    ASSUME NEW s, StackOK(s), s # <<>>, Len(s) # 1,
           NEW c \in Nat, NEW a \in Nat, Affords(s, c, a),
           NEW b \in Nat, a <= b + Due(s[Len(s)]),
           NEW g, FrameOK(g), g.asked = "none", Due(g) <= Due(s[Len(s) - 1])
    PROVE  Affords(SubSeq(s, 1, Len(s) - 2) \o <<g>>, c, b)
  <1> DEFINE u == SubSeq(s, 1, Len(s) - 2) \o <<g>>
             d == Due(g)
             e == Due(s[Len(s) - 1])
  <1>1. PICK k \in Nat, y \in Nat : /\ k = Len(s) - 2 /\ k \in 0..(Len(s) - 1)
                                    /\ Ledger(s, k, y) /\ c + (y + e) <= b
    BY LedgerCaller
  <1>2. Len(s) - 1 \in 1..(Len(s) - 1)
    <2>1. Len(s) \in Nat \ {0}
      BY StackTop
    <2>2. ASSUME NEW n \in Nat \ {0}, n # 1 PROVE n - 1 \in 1..(n - 1)
      BY <2>2
    <2> QED  BY <2>1, <2>2
  <1>3. d \in Nat /\ e \in Nat /\ d <= e
    BY <1>2, StackTop, DueNat
  <1>4. Len(u) = k + 1 /\ (\A i \in 1..k : u[i] = s[i]) /\ u[k + 1] = g
    <2> DEFINE v == SubSeq(s, 1, k) \o <<g>>
    <2>0. k \in 0..(Len(s) - 1)
      BY <1>1
    <2>1. Len(v) = k + 1 /\ (\A i \in 1..k : v[i] = s[i]) /\ v[k + 1] = g
      BY <2>0, StackWithTop
    <2>2. u = v
      BY <1>1
    <2> HIDE DEF u, v
    <2> QED  BY <2>1, <2>2
  <1> HIDE DEF u, d, e
  <1>5. Ledger(u, k + 1, y + d) /\ y + d \in Nat
    BY <1>1, <1>3, <1>4, LedgerUp DEF d
  <1>6. c + (y + d) <= b
    BY <1>1, <1>3
  <1>7. Affords(u, c, b)
    BY <1>4, <1>5, <1>6 DEF Affords
  <1> QED  BY <1>7 DEF u

LEMMA AffordsRetry ==
    ASSUME NEW s, StackOK(s), s # <<>>, Len(s) # 1,
           NEW c \in Nat, NEW a \in Nat, Affords(s, c, a),
           NEW b \in Nat, a <= b + Due(s[Len(s)]),
           NEW g, FrameOK(g), g.asked # "none", Due(g) + MaxList <= Due(s[Len(s) - 1])
    PROVE  Affords(SubSeq(s, 1, Len(s) - 2) \o <<g, Walk>>, c, b)
  <1> DEFINE u == SubSeq(s, 1, Len(s) - 2) \o <<g, Walk>>
             d == Due(g)
             e == Due(s[Len(s) - 1])
  <1>1. PICK k \in Nat, y \in Nat : /\ k = Len(s) - 2 /\ k \in 0..(Len(s) - 1)
                                    /\ Ledger(s, k, y) /\ c + (y + e) <= b
    BY LedgerCaller
  <1>2. Len(s) - 1 \in 1..(Len(s) - 1)
    <2>1. Len(s) \in Nat \ {0}
      BY StackTop
    <2>2. ASSUME NEW n \in Nat \ {0}, n # 1 PROVE n - 1 \in 1..(n - 1)
      BY <2>2
    <2> QED  BY <2>1, <2>2
  <1>3. d \in Nat /\ e \in Nat /\ d + MaxList <= e /\ MaxList \in Nat
    BY <1>2, StackTop, DueNat, AllowedGrows
  <1>4. /\ Len(u) = k + 2 /\ (\A i \in 1..k : u[i] = s[i]) /\ u[k + 1] = g
        /\ u[k + 2] = Walk
    <2> DEFINE v == SubSeq(s, 1, k) \o <<g, Walk>>
    <2>1. /\ Len(v) = k + 2 /\ (\A i \in 1..k : v[i] = s[i]) /\ v[k + 1] = g
          /\ v[k + 2] = Walk
      <3>1. k \in 0..(Len(s) - 1)
        BY <1>1
      <3> QED  BY <3>1, StackWithWalk
    <2>2. u = v
      BY <1>1
    <2> HIDE DEF u, v
    <2> QED  BY <2>1, <2>2
  <1> HIDE DEF u, d, e
  <1>5. Ledger(u, k + 1, y + d) /\ y + d \in Nat
    BY <1>1, <1>3, <1>4, LedgerUp DEF d
  <1>6. k + 1 \in Nat /\ (k + 1) + 1 = k + 2 /\ Due(u[(k + 1) + 1]) = MaxList
    BY <1>4, DueWalk
  <1>7. Ledger(u, (k + 1) + 1, (y + d) + Due(u[(k + 1) + 1])) /\ (y + d) + MaxList \in Nat
    BY <1>3, <1>5, <1>6, LedgerUp
  <1>8. Ledger(u, Len(u), (y + d) + MaxList)
    BY <1>4, <1>6, <1>7
  <1>9. c + ((y + d) + MaxList) <= b
    BY <1>1, <1>3
  <1>10. Affords(u, c, b)
    BY <1>7, <1>8, <1>9 DEF Affords
  <1> QED  BY <1>10 DEF u

----------------------------------------------------------------------------
(* The invariant of the stack. *)

\* Every nested walk stands on a reply of its own, and so does a list of name servers.
Nested(s, n) ==
    s # <<>> => Len(s) + (IF s[Len(s)].at = "names" THEN 1 ELSE 0) <= 1 + n

Pending(w) == IF w.phase = "none" THEN 0 ELSE 1

Spent(s, w, c, n) == c \in Nat /\ n \in Nat /\ Affords(s, c, Allowed(n) + Pending(w))

\* An exchange is one with a server of the list.
WireInList == wire.phase # "none" => stack # <<>> /\ Top.at = "query" /\ Top.i <= Len(Top.servers)

Hows == {"none", "ok", "depth", "deadline", "unreachable", "noaddress"}

SInv ==
    /\ StackOK(stack) /\ WireInList /\ Nested(stack, answered)
    /\ Spent(stack, wire, sent, answered)
    /\ ended.how \in Hows /\ sound \subseteq Servers

\* What a return leaves: a stack that can be paid for and no round of queries begun.
LEMMA ReturnsKeeps ==
    ASSUME StackOK(stack), stack # <<>>, NEW how, NEW now,
           NEW a \in Seq(Servers), Len(a) <= Share, Returns(how, a, now),
           NEW c \in Nat, NEW l \in Nat, Affords(stack, c, l),
           NEW b \in Nat, l <= b + Due(Top), NEW n \in Nat, Len(stack) <= 1 + n
    PROVE  /\ StackOK(stack') /\ Affords(stack', c, b) /\ Nested(stack', n)
           /\ stack' # <<>> => stack'[Len(stack')].at # "query"
           /\ ended' = [how |-> how, servers |-> Top.servers, at |-> now]
  <1>1. Len(stack) \in Nat \ {0} /\ Due(Top) \in Nat /\ l <= b + Due(stack[Len(stack)])
    BY StackTop, DueNat DEF Top
  <1>2. ended' = [how |-> how, servers |-> Top.servers, at |-> now]
    BY DEF Returns
  <1>3. CASE Len(stack) = 1 /\ stack' = <<>>
    <2>1. StackOK(stack')
      BY <1>3 DEF StackOK
    <2>2. PICK y \in Nat : c + (y + Due(Top)) <= l
      BY LedgerTop DEF Top
    <2>3. c + 0 <= b
      BY <1>1, <2>2
    <2>4. Ledger(stack', 0, 0) /\ Len(stack') = 0
      BY <1>3, LedgerEmpty
    <2>5. Affords(stack', c, b)
      BY <2>3, <2>4 DEF Affords
    <2> QED  BY <1>2, <1>3, <2>1, <2>5 DEF Nested
  <1> DEFINE g == WithAddresses(stack[Len(stack) - 1], a)
  <1>4. CASE /\ Len(stack) - 1 \in 1..(Len(stack) - 1)
             /\ FrameOK(stack[Len(stack) - 1]) /\ stack[Len(stack) - 1].asked # "none"
             /\ FrameOK(g) /\ g.at = "names"
             /\ g.asked = "none"
             /\ stack' = SubSeq(stack, 1, Len(stack) - 2) \o <<g>>
    <2>1. Due(g) <= Due(stack[Len(stack) - 1])
      BY <1>4, DueWithAddresses
    <2> HIDE DEF g
    <2>2. Len(stack) # 1 /\ Len(stack) - 2 \in 0..(Len(stack) - 1) /\ (Len(stack) - 2) + 1 = Len(stack) - 1
      <3>1. ASSUME NEW m \in Nat \ {0}, m - 1 \in 1..(m - 1)
            PROVE  m # 1 /\ m - 2 \in 0..(m - 1) /\ (m - 2) + 1 = m - 1
        BY <3>1
      <3> QED  BY <1>1, <1>4, <3>1
    <2>3. Affords(stack', c, b)
      BY <1>1, <1>4, <2>1, <2>2, AffordsReturn
    <2>4. StackOK(stack') /\ Len(stack') = Len(stack) - 1 /\ stack'[Len(stack')] = g
      <3>1. PICK k \in 0..(Len(stack) - 1) : k = Len(stack) - 2
        BY <2>2
      <3> DEFINE v == SubSeq(stack, 1, k) \o <<g>>
      <3>2. StackOK(v) /\ Len(v) = k + 1 /\ v[k + 1] = g
        <4>1. FrameOK(g) /\ g.asked = "none"
          BY <1>4
        <4> QED  BY <4>1, StackWithTop
      <3>3. stack' = v
        BY <1>4, <3>1
      <3> HIDE DEF v
      <3>4. k + 1 = Len(stack) - 1
        BY <2>2, <3>1
      <3> QED  BY <3>2, <3>3, <3>4
    <2>5. (Len(stack) - 1) + 1 <= 1 + n
      BY <1>1
    <2>6. Nested(stack', n)
      BY <1>4, <2>4, <2>5 DEF Nested
    <2> QED  BY <1>2, <1>4, <2>3, <2>4, <2>6
  <1>5. CASE /\ Len(stack) - 1 \in 1..(Len(stack) - 1)
             /\ FrameOK(stack[Len(stack) - 1]) /\ stack[Len(stack) - 1].asked # "none"
             /\ FrameOK(g) /\ g.at = "names"
             /\ g.asked = "AAAA"
             /\ stack' = SubSeq(stack, 1, Len(stack) - 2) \o <<g, Walk>>
    <2>1. Due(g) + MaxList <= Due(stack[Len(stack) - 1])
      BY <1>5, DueWithAddresses
    <2> HIDE DEF g
    <2>2. Len(stack) # 1 /\ Len(stack) - 2 \in 0..(Len(stack) - 1) /\ (Len(stack) - 2) + 2 = Len(stack)
      <3>1. ASSUME NEW m \in Nat \ {0}, m - 1 \in 1..(m - 1)
            PROVE  m # 1 /\ m - 2 \in 0..(m - 1) /\ (m - 2) + 2 = m
        BY <3>1
      <3> QED  BY <1>1, <1>5, <3>1
    <2>3. Affords(stack', c, b)
      BY <1>1, <1>5, <2>1, <2>2, AffordsRetry
    <2>4. StackOK(stack') /\ Len(stack') = Len(stack) /\ stack'[Len(stack')] = Walk
      BY <1>5, <2>2, StackWithWalk
    <2>5. Len(stack) + 0 <= 1 + n
      BY <1>1
    <2>6. Nested(stack', n)
      BY <2>4, <2>5, WalkOK DEF Nested
    <2> QED  BY <1>2, <2>3, <2>4, <2>6, WalkOK
  <1> QED  BY <1>3, <1>4, <1>5, ReturnsCuts

\* What a step within a call leaves.
LEMMA BecomeKeeps ==
    ASSUME StackOK(stack), stack # <<>>, NEW f, FrameOK(f), f.asked = "none", Become(f),
           NEW c \in Nat, NEW l \in Nat, Affords(stack, c, l),
           NEW b \in Nat, Due(f) + l <= b + Due(Top)
    PROVE  /\ StackOK(stack') /\ Affords(stack', c, b)
           /\ stack' # <<>> /\ Len(stack') = Len(stack) /\ stack'[Len(stack')] = f
  <1>1. Len(stack) \in Nat \ {0}
    BY StackTop
  <1>2. stack' = SubSeq(stack, 1, Len(stack) - 1) \o <<f>>
    BY BecomeCuts DEF FrameOK
  <1>3. Affords(stack', c, b)
    BY <1>2, AffordsTop DEF Top
  <1>4. Len(stack) - 1 \in 0..(Len(stack) - 1) /\ (Len(stack) - 1) + 1 = Len(stack)
    BY <1>1
  <1>5. StackOK(stack') /\ Len(stack') = Len(stack) /\ stack'[Len(stack')] = f
    <2>1. PICK k \in 0..(Len(stack) - 1) : k = Len(stack) - 1
      BY <1>4
    <2> DEFINE v == SubSeq(stack, 1, k) \o <<f>>
    <2>2. StackOK(v) /\ Len(v) = k + 1 /\ v[k + 1] = f
      BY StackWithTop
    <2>3. stack' = v
      BY <1>2, <2>1
    <2> HIDE DEF v
    <2>4. k + 1 = Len(stack)
      BY <1>4, <2>1
    <2> QED  BY <2>2, <2>3, <2>4
  <1>6. stack' # <<>>
    BY <1>1, <1>5
  <1> QED  BY <1>3, <1>5, <1>6

\* What the steps between two exchanges start from.
LEMMA Between ==
    ASSUME SInv, stack # <<>>, wire.phase = "none"
    PROVE  /\ StackOK(stack) /\ FrameOK(Top) /\ Top.asked = "none" /\ Due(Top) \in Nat
           /\ sent \in Nat /\ answered \in Nat /\ Allowed(answered) \in Nat
           /\ Affords(stack, sent, Allowed(answered))
           /\ Len(stack) \in Nat \ {0} /\ Len(stack) <= 1 + answered
           /\ (Top.at = "names" => Len(stack) + 1 <= 1 + answered)
  <1>1. StackOK(stack) /\ FrameOK(Top) /\ Top.asked = "none" /\ Len(stack) \in Nat \ {0}
    BY StackTop DEF SInv, Top
  <1>2. sent \in Nat /\ answered \in Nat /\ Affords(stack, sent, Allowed(answered) + 0)
    BY DEF SInv, Spent, Pending
  <1>3. Allowed(answered) \in Nat
    BY <1>2, AllowedGrows
  <1>4. Allowed(answered) + 0 = Allowed(answered)
    BY <1>3
  <1>5. Len(stack) + (IF Top.at = "names" THEN 1 ELSE 0) <= 1 + answered
    BY DEF SInv, Nested, Top
  <1>6. Len(stack) <= 1 + answered /\ (Top.at = "names" => Len(stack) + 1 <= 1 + answered)
    BY <1>1, <1>2, <1>5
  <1> QED  BY <1>1, <1>2, <1>3, <1>4, <1>6, DueNat

\* A return with nothing found.
LEMMA ReturnsEmpty ==
    ASSUME SInv, stack # <<>>, wire.phase = "none",
           NEW how \in Hows, NEW now, Returns(how, <<>>, now),
           UNCHANGED <<wire, sound, sent, answered>>
    PROVE  SInv'
  <1> DEFINE l == Allowed(answered)
  <1>1. /\ StackOK(stack) /\ Due(Top) \in Nat /\ sent \in Nat /\ answered \in Nat
        /\ l \in Nat /\ Affords(stack, sent, l) /\ Len(stack) <= 1 + answered
    BY Between
  <1>2. <<>> \in Seq(Servers) /\ Len(<<>>) <= Share
    BY ShareFits
  <1> HIDE DEF l
  <1>3. l <= l + Due(Top)
    BY <1>1
  <1>4. /\ StackOK(stack') /\ Affords(stack', sent, l) /\ Nested(stack', answered)
        /\ ended' = [how |-> how, servers |-> Top.servers, at |-> now]
    BY <1>1, <1>2, <1>3, ReturnsKeeps
  <1>5. l + 0 = l
    BY <1>1
  <1>6. Spent(stack', wire', sent', answered')
    BY <1>1, <1>4, <1>5 DEF Spent, Pending, l
  <1>7. ended'.how \in Hows
    BY <1>4
  <1> QED  BY <1>4, <1>6, <1>7 DEF SInv, WireInList

\* A step within a call between two exchanges.
LEMMA BecomesCheaper ==
    ASSUME SInv, stack # <<>>, wire.phase = "none", NEW f, FrameOK(f), f.asked = "none",
           Due(f) <= Due(Top), f.at = "names" => Top.at = "names", Become(f),
           UNCHANGED <<wire, sound, sent, answered, ended>>
    PROVE  SInv'
  <1> DEFINE l == Allowed(answered)
  <1>1. /\ StackOK(stack) /\ Due(Top) \in Nat /\ sent \in Nat /\ answered \in Nat
        /\ l \in Nat /\ Affords(stack, sent, l) /\ Len(stack) <= 1 + answered
        /\ (Top.at = "names" => Len(stack) + 1 <= 1 + answered) /\ Len(stack) \in Nat
    BY Between
  <1>2. Due(f) \in Nat
    BY DueNat
  <1> HIDE DEF l
  <1>3. Due(f) + l <= l + Due(Top)
    BY <1>1, <1>2
  <1>4. /\ StackOK(stack') /\ Affords(stack', sent, l) /\ Len(stack') = Len(stack)
        /\ stack'[Len(stack')] = f
    BY <1>1, <1>3, BecomeKeeps
  <1>5. l + 0 = l /\ Len(stack) + 0 <= 1 + answered
    BY <1>1
  <1>6. Nested(stack', answered')
    BY <1>1, <1>4, <1>5 DEF Nested
  <1>7. Spent(stack', wire', sent', answered')
    BY <1>1, <1>4, <1>5 DEF Spent, Pending, l
  <1> QED  BY <1>4, <1>6, <1>7 DEF SInv, WireInList

LEMMA SInvInit == Init => SInv
  <1> SUFFICES ASSUME Init PROVE SInv
    OBVIOUS
  <1>1. StackOK(stack) /\ Len(stack) = 0
    BY DEF Init, StackOK
  <1>2. Ledger(stack, 0, 0) /\ Allowed(0) \in Nat
    BY LedgerEmpty, AllowedGrows
  <1>3. Spent(stack, wire, sent, answered)
    BY <1>1, <1>2 DEF Init, Spent, Affords, Pending, NoWire
  <1> QED  BY <1>1, <1>3 DEF Init, SInv, WireInList, Nested, Hows, NoWire

LEMMA SInvAsk == SInv /\ Ask => SInv'
  <1> SUFFICES ASSUME SInv, Ask PROVE SInv'
    OBVIOUS
  <1>1. /\ stack = <<>> /\ stack' = <<Walk>> /\ sent' = 0 /\ answered' = 0 /\ UNCHANGED <<wire, sound>>
        /\ ended' = [how |-> "none", servers |-> <<>>, at |-> 0]
    BY DEF Ask
  <1>2. wire.phase = "none"
    BY <1>1 DEF SInv, WireInList
  <1>3. Len(<<Walk>>) = 1 /\ <<Walk>>[1] = Walk /\ <<Walk>> \in Seq(Frames)
    BY WalkOK DEF FrameOK
  <1> DEFINE w == <<Walk>>
  <1> HIDE DEF w
  <1>4. Len(w) = 1 /\ w[1] = Walk /\ w \in Seq(Frames)
    BY <1>3 DEF w
  <1>5. \A k \in 1..1 : k = 1 /\ ~(k < 1)
    OBVIOUS
  <1>6. StackOK(w)
    BY <1>4, <1>5, WalkOK DEF StackOK
  <1>7. Ledger(w, 0 + 1, 0 + Due(w[0 + 1]))
    <2>1. Due(w[0 + 1]) \in Nat
      BY <1>4, DueWalk, AllowedGrows
    <2> QED  BY <2>1, LedgerEmpty, LedgerUp
  <1>8. Ledger(w, 1, MaxList)
    BY <1>4, <1>7, DueWalk, AllowedGrows
  <1>9. Spent(w, wire', 0, 0)
    <2>1. 0 + MaxList <= Allowed(0) + 0 /\ MaxList \in Nat
      BY AllowedGrows
    <2> QED  BY <1>1, <1>2, <1>4, <1>8, <2>1 DEF Spent, Affords, Pending
  <1>10. Nested(w, 0)
    BY <1>4, WalkOK DEF Nested
  <1>11. stack' = w
    BY <1>1 DEF w
  <1> QED  BY <1>1, <1>2, <1>6, <1>9, <1>10, <1>11 DEF SInv, WireInList, Hows

LEMMA SInvTurn == SInv /\ Turn => SInv'
  <1> SUFFICES ASSUME SInv, Turn PROVE SInv'
    OBVIOUS
  <1>1. stack # <<>> /\ Top.at = "turn" /\ UNCHANGED <<clock, wire, sound, sent, answered>>
    BY DEF Turn
  <1>2. wire.phase = "none"
    BY <1>1 DEF SInv, WireInList
  <1>3. FrameOK(Top) /\ Top.asked = "none"
    BY <1>1, <1>2, Between
  <1>4. CASE Returns("depth", <<>>, clock) \/ Returns("deadline", <<>>, clock)
    <2>1. "depth" \in Hows /\ "deadline" \in Hows
      BY DEF Hows
    <2> QED  BY <1>1, <1>2, <1>4, <2>1, ReturnsEmpty
  <1>5. CASE /\ Top.depth < MaxDepth /\ Become([Top EXCEPT !.at = "query", !.i = 1])
             /\ UNCHANGED ended
    <2> DEFINE f == [Top EXCEPT !.at = "query", !.i = 1]
    <2>1. FrameOK(f) /\ Due(f) <= Due(Top)
      BY <1>1, <1>3, <1>5, FrameTurn, DueTurn
    <2>2. f.asked = "none" /\ f.at = "query"
      BY <1>3 DEF FrameOK, Frames
    <2>3. Become(f) /\ UNCHANGED ended
      BY <1>5
    <2> HIDE DEF f
    <2> QED  BY <1>1, <1>2, <2>1, <2>2, <2>3, BecomesCheaper
  <1> QED  BY <1>4, <1>5 DEF Turn

LEMMA SInvNames == SInv /\ NameServers => SInv'
  <1> SUFFICES ASSUME SInv, NameServers PROVE SInv'
    OBVIOUS
  <1>1. /\ stack # <<>> /\ Top.at = "names" /\ Top.asked = "none"
        /\ UNCHANGED <<clock, wire, sound, sent, answered>>
    BY DEF NameServers
  <1>2. wire.phase = "none"
    BY <1>1 DEF SInv, WireInList
  <1>3. FrameOK(Top) /\ Top \in Frames
    BY <1>1, <1>2, Between DEF FrameOK
  <1>4. CASE /\ Top.ns # <<>> /\ Head(Top.ns) # None
             /\ Become([Top EXCEPT !.next = Append(@, Head(Top.ns)), !.ns = Tail(@)])
             /\ UNCHANGED ended
    <2> DEFINE f == [Top EXCEPT !.next = Append(@, Head(Top.ns)), !.ns = Tail(@)]
    <2>1. FrameOK(f) /\ Due(f) <= Due(Top)
      BY <1>1, <1>3, <1>4, FrameGlue, DueGlue
    <2>2. f.asked = "none" /\ f.at = "names"
      BY <1>1, <1>3 DEF Frames
    <2>3. Become(f) /\ UNCHANGED ended
      BY <1>4
    <2> HIDE DEF f
    <2> QED  BY <1>1, <1>2, <2>1, <2>2, <2>3, BecomesCheaper
  <1>5. CASE /\ Top.ns # <<>> /\ Head(Top.ns) = None
             /\ stack' = Callers \o <<[Top EXCEPT !.asked = "A"], Walk>>
             /\ UNCHANGED ended
    <2> DEFINE f == [Top EXCEPT !.asked = "A"]
               l == Allowed(answered)
    <2>1. FrameOK(f) /\ Due(f) + MaxList <= Due(Top)
      BY <1>1, <1>3, <1>5, FrameAsks, DueAsks
    <2>2. f.asked = "A"
      BY <1>3 DEF Frames
    <2>3. stack' = SubSeq(stack, 1, Len(stack) - 1) \o <<f, Walk>>
      BY <1>5 DEF Callers
    <2>4. /\ StackOK(stack) /\ sent \in Nat /\ answered \in Nat
          /\ l \in Nat /\ Affords(stack, sent, l)
          /\ Len(stack) + 1 <= 1 + answered /\ Len(stack) \in Nat \ {0}
      BY <1>1, <1>2, Between
    <2> HIDE DEF f, l
    <2>5. Affords(stack', sent, l)
      <3>1. f.asked # "none" /\ Due(f) + MaxList <= Due(stack[Len(stack)])
        BY <2>1, <2>2 DEF Top
      <3> QED  BY <1>1, <2>1, <2>3, <2>4, <3>1, AffordsCall
    <2>6. StackOK(stack') /\ Len(stack') = Len(stack) + 1 /\ stack'[Len(stack')] = Walk
      <3>1. PICK k \in 0..(Len(stack) - 1) : k = Len(stack) - 1
        BY <2>4
      <3> DEFINE v == SubSeq(stack, 1, k) \o <<f, Walk>>
      <3>2. StackOK(v) /\ Len(v) = k + 2 /\ v[k + 2] = Walk
        <4>1. FrameOK(f) /\ f.asked # "none" /\ StackOK(stack)
          BY <2>1, <2>2, <2>4
        <4> QED  BY <4>1, StackWithWalk
      <3>3. stack' = v
        BY <2>3, <3>1
      <3> HIDE DEF v
      <3>4. k + 2 = Len(stack) + 1
        BY <2>4, <3>1
      <3> QED  BY <3>2, <3>3, <3>4
    <2>7. l + 0 = l /\ (Len(stack) + 1) + 0 <= 1 + answered
      BY <2>4
    <2>8. Nested(stack', answered')
      BY <1>1, <2>6, <2>7, WalkOK DEF Nested
    <2>9. Spent(stack', wire', sent', answered')
      BY <1>1, <1>2, <2>4, <2>5, <2>7 DEF Spent, Pending, l
    <2> QED  BY <1>1, <1>2, <1>5, <2>6, <2>8, <2>9 DEF SInv, WireInList
  <1>6. CASE Returns("noaddress", <<>>, clock)
    <2>1. "noaddress" \in Hows
      BY DEF Hows
    <2> QED  BY <1>1, <1>2, <1>6, <2>1, ReturnsEmpty
  <1>7. CASE /\ Top.ns = <<>> /\ Top.next # <<>>
             /\ Become([Top EXCEPT !.at = "turn", !.depth = @ + 1, !.servers = Top.next,
                                   !.next = <<>>])
             /\ UNCHANGED ended
    <2> DEFINE f == [Top EXCEPT !.at = "turn", !.depth = @ + 1, !.servers = Top.next,
                                !.next = <<>>]
    <2>1. FrameOK(f) /\ Due(f) <= Due(Top)
      BY <1>1, <1>3, <1>7, FrameNextTurn, DueNextTurn
    <2>2. f.asked = "none" /\ f.at = "turn"
      BY <1>1, <1>3 DEF Frames
    <2>3. Become(f) /\ UNCHANGED ended
      BY <1>7
    <2> HIDE DEF f
    <2> QED  BY <1>1, <1>2, <2>1, <2>2, <2>3, BecomesCheaper
  <1> QED  BY <1>4, <1>5, <1>6, <1>7 DEF NameServers

LEMMA SInvQuery == SInv /\ QueryServer => SInv'
  <1> SUFFICES ASSUME SInv, QueryServer PROVE SInv'
    OBVIOUS
  <1>1. /\ stack # <<>> /\ Top.at = "query" /\ wire.phase = "none"
        /\ UNCHANGED <<clock, sound, answered>>
    BY DEF QueryServer
  <1>2. CASE Returns("unreachable", <<>>, clock) /\ UNCHANGED <<wire, sent>>
    <2>1. "unreachable" \in Hows
      BY DEF Hows
    <2> QED  BY <1>1, <1>2, <2>1, ReturnsEmpty
  <1>3. CASE /\ Top.i <= Len(Top.servers)
             /\ wire' = [phase |-> "udp", timeout |-> Timeout, reads |-> 0]
             /\ sent' = sent + 1 /\ UNCHANGED <<stack, ended>>
    <2> DEFINE l == Allowed(answered)
    <2>1. /\ sent \in Nat /\ answered \in Nat /\ l \in Nat /\ Affords(stack, sent, l)
      BY <1>1, Between
    <2> HIDE DEF l
    <2>2. PICK x \in Nat : Ledger(stack, Len(stack), x) /\ sent + x <= l
      BY <2>1 DEF Affords
    <2>3. (sent + 1) + x <= l + 1 /\ sent + 1 \in Nat
      BY <2>1, <2>2
    <2>4. Affords(stack, sent + 1, l + 1)
      BY <2>2, <2>3 DEF Affords
    <2>5. Spent(stack', wire', sent', answered')
      BY <1>1, <1>3, <2>1, <2>3, <2>4 DEF Spent, Pending, l
    <2>6. Top' = Top /\ WireInList'
      BY <1>1, <1>3 DEF Top, WireInList
    <2> QED  BY <1>1, <1>3, <2>5, <2>6 DEF SInv
  <1> QED  BY <1>2, <1>3 DEF QueryServer

\* What the end of an exchange starts from.
LEMMA During ==
    ASSUME SInv, wire.phase # "none"
    PROVE  /\ stack # <<>> /\ StackOK(stack) /\ FrameOK(Top) /\ Top.asked = "none"
           /\ Top.at = "query" /\ Top.i <= Len(Top.servers) /\ Due(Top) \in Nat
           /\ sent \in Nat /\ answered \in Nat /\ Allowed(answered) \in Nat
           /\ Affords(stack, sent, Allowed(answered) + 1)
           /\ Len(stack) \in Nat \ {0} /\ Len(stack) <= 1 + answered
  <1>1. stack # <<>> /\ Top.at = "query" /\ Top.i <= Len(Top.servers)
    BY DEF SInv, WireInList
  <1>2. StackOK(stack) /\ FrameOK(Top) /\ Top.asked = "none" /\ Len(stack) \in Nat \ {0}
    BY <1>1, StackTop DEF SInv, Top
  <1>3. sent \in Nat /\ answered \in Nat /\ Affords(stack, sent, Allowed(answered) + 1)
    BY DEF SInv, Spent, Pending
  <1>4. Len(stack) + 0 <= 1 + answered
    BY <1>1 DEF SInv, Nested, Top
  <1> QED  BY <1>1, <1>2, <1>3, <1>4, DueNat, AllowedGrows

LEMMA SInvFailed ==
    ASSUME SInv, NEW d, Failed(d)
    PROVE  SInv'
  <1>1. /\ wire.phase # "none" /\ wire' = NoWire /\ Become([Top EXCEPT !.i = @ + 1])
        /\ UNCHANGED <<ended, sound, sent, answered>>
    BY DEF Failed
  <1> DEFINE f == [Top EXCEPT !.i = @ + 1]
             l == Allowed(answered)
  <1>2. /\ stack # <<>> /\ StackOK(stack) /\ FrameOK(Top) /\ Top.asked = "none"
        /\ Top.at = "query" /\ Top.i <= Len(Top.servers) /\ Due(Top) \in Nat
        /\ sent \in Nat /\ answered \in Nat /\ l \in Nat /\ Affords(stack, sent, l + 1)
        /\ Len(stack) \in Nat \ {0} /\ Len(stack) <= 1 + answered
    BY <1>1, During
  <1>3. FrameOK(f) /\ Due(f) + 1 = Due(Top)
    BY <1>2, FrameNextServer, DueNextServer
  <1>4. f.asked = "none" /\ f.at = "query"
    BY <1>2 DEF FrameOK, Frames
  <1>5. Become(f)
    BY <1>1
  <1> HIDE DEF f, l
  <1>6. Due(f) \in Nat
    BY <1>3, DueNat
  <1>7. Due(f) + (l + 1) <= l + Due(Top) /\ l + 1 \in Nat
    BY <1>2, <1>3, <1>6
  <1>8. /\ StackOK(stack') /\ Affords(stack', sent, l) /\ Len(stack') = Len(stack)
        /\ stack'[Len(stack')] = f
    BY <1>2, <1>3, <1>4, <1>5, <1>7, BecomeKeeps
  <1>9. l + 0 = l /\ Len(stack) + 0 <= 1 + answered
    BY <1>2
  <1>10. Nested(stack', answered')
    BY <1>1, <1>4, <1>8, <1>9 DEF Nested
  <1>11. Spent(stack', wire', sent', answered')
    BY <1>1, <1>2, <1>8, <1>9 DEF Spent, Pending, NoWire, l
  <1> QED  BY <1>1, <1>8, <1>10, <1>11 DEF SInv, WireInList, NoWire

LEMMA SInvReplied ==
    ASSUME SInv, NEW d, NEW r \in Replies, Replied(d, r)
    PROVE  SInv'
  <1>1. /\ wire.phase # "none" /\ wire' = NoWire /\ answered' = answered + 1
        /\ Followed(r, clock + d) /\ UNCHANGED <<sound, sent>>
    BY DEF Replied
  <1> DEFINE l == Allowed(answered)
             m == Allowed(answered + 1)
  <1>2. /\ stack # <<>> /\ StackOK(stack) /\ FrameOK(Top) /\ Top.asked = "none"
        /\ Top.at = "query" /\ Top.i <= Len(Top.servers) /\ Due(Top) \in Nat
        /\ sent \in Nat /\ answered \in Nat /\ l \in Nat /\ Affords(stack, sent, l + 1)
        /\ Len(stack) \in Nat \ {0} /\ Len(stack) <= 1 + answered
    BY <1>1, During
  <1>3. m = l + Bought /\ m \in Nat /\ Bought \in Nat
    BY <1>2, AllowedGrows
  <1>4. Due(Top) >= 1
    BY <1>2, DueNextServer
  <1> HIDE DEF l, m
  <1>5. l + 1 <= m + Due(Top) /\ l + 1 \in Nat /\ answered + 1 \in Nat /\ m + 0 = m
        /\ Len(stack) <= 1 + (answered + 1) /\ Len(stack) + 1 <= 1 + (answered + 1)
    BY <1>2, <1>3, <1>4
  <1>6. CASE Returns("ok", r.addrs, clock + d)
    <2>1. r.addrs \in Seq(Servers) /\ Len(r.addrs) <= Share
      BY ShareFits, RecurseAssumption
    <2>2. /\ StackOK(stack') /\ Affords(stack', sent, m) /\ Nested(stack', answered + 1)
          /\ ended' = [how |-> "ok", servers |-> Top.servers, at |-> clock + d]
      BY <1>2, <1>3, <1>5, <1>6, <2>1, ReturnsKeeps
    <2>3. Spent(stack', wire', sent', answered')
      BY <1>1, <1>2, <1>5, <2>2 DEF Spent, Pending, NoWire, m
    <2>4. ended'.how \in Hows
      BY <2>2 DEF Hows
    <2> QED  BY <1>1, <2>2, <2>3, <2>4 DEF SInv, WireInList, NoWire
  <1>7. CASE Become([Top EXCEPT !.at = "names", !.ns = r.ns]) /\ UNCHANGED ended
    <2> DEFINE f == [Top EXCEPT !.at = "names", !.ns = r.ns]
    <2>1. FrameOK(f) /\ Due(f) <= Bought
      BY <1>2, FrameReferred, DueReferred
    <2>2. f.asked = "none" /\ f.at = "names"
      BY <1>2 DEF FrameOK, Frames
    <2>3. Become(f)
      BY <1>7
    <2> HIDE DEF f
    <2>4. Due(f) \in Nat
      BY <2>1, DueNat
    <2>5. Due(f) + (l + 1) <= m + Due(Top)
      BY <1>2, <1>3, <1>4, <2>1, <2>4
    <2>6. /\ StackOK(stack') /\ Affords(stack', sent, m) /\ Len(stack') = Len(stack)
          /\ stack'[Len(stack')] = f
      BY <1>2, <1>3, <1>5, <2>1, <2>2, <2>3, <2>5, BecomeKeeps
    <2>7. Nested(stack', answered')
      BY <1>1, <1>5, <2>2, <2>6 DEF Nested
    <2>8. Spent(stack', wire', sent', answered')
      BY <1>1, <1>2, <1>5, <2>6 DEF Spent, Pending, NoWire, m
    <2> QED  BY <1>1, <1>7, <2>6, <2>7, <2>8 DEF SInv, WireInList, NoWire
  <1> QED  BY <1>1, <1>6, <1>7 DEF Followed

\* The steps within an exchange leave the stack and the counts alone.
LEMMA SInvTcp ==
    ASSUME SInv, OInv, NEW d, Truncated(d) \/ Connected(d) \/ ReadPart(d)
    PROVE  SInv'
  <1>1. wire.phase # "none" /\ UNCHANGED <<stack, ended, sound, sent, answered>>
    BY DEF Truncated, Connected, ReadPart
  <1>2. wire'.phase # "none"
    BY DEF OInv, InTime, Wires, Truncated, Connected, ReadPart
  <1>3. Pending(wire') = Pending(wire)
    BY <1>1, <1>2 DEF Pending
  <1>4. Spent(stack', wire', sent', answered')
    BY <1>1, <1>3 DEF SInv, Spent
  <1>5. WireInList'
    BY <1>1 DEF SInv, WireInList, Top
  <1> QED  BY <1>1, <1>4, <1>5 DEF SInv

LEMMA SInvNext == OInv /\ SInv /\ [Next]_vars => SInv'
  <1> SUFFICES ASSUME OInv, SInv, [Next]_vars PROVE SInv'
    OBVIOUS
  <1>1. CASE Network
    BY <1>1, SInvReplied, SInvFailed, SInvTcp DEF Network
  <1>2. CASE UNCHANGED vars
    BY <1>2 DEF vars, SInv, WireInList, Top
  <1> QED  BY <1>1, <1>2, SInvAsk, SInvTurn, SInvNames, SInvQuery DEF Next, Step

\* Whatever the servers say, the stack of walks stays well formed: every call but the
\* innermost waits for a nested walk, no list of servers is empty or longer than what
\* the referral allows, the depth stays within recurse_max_depth, and an exchange is
\* one with a server of the innermost call's list (iterative, query_servers).
THEOREM RecurseTypes == Spec => []TypeOK
  <1>1. OInv /\ SInv => TypeOK
    <2> SUFFICES ASSUME OInv, SInv PROVE TypeOK
      OBVIOUS
    <2>1. clock \in Nat /\ answered \in Nat /\ sent \in Nat
      BY DEF OInv, InTime, Paid, SInv, Spent
    <2>2. stack \in Seq(Frames) /\ DOMAIN stack = 1..Len(stack)
      BY DEF SInv, StackOK
    <2>3. \A k \in DOMAIN stack : /\ Len(stack[k].servers) \in 1..MaxList
                                  /\ stack[k].asked # "none" <=> k < Len(stack)
      BY <2>2 DEF SInv, StackOK, FrameOK
    <2>4. wire \in [phase : {"none", "udp", "connect", "read"}, timeout : 0..Probe,
                    reads : 0..TcpReads]
      <3>1. \A x \in 0..(TcpReads - 1) : x \in 0..TcpReads
        BY RecurseAssumption
      <3>2. wire \in Wires
        BY DEF OInv, InTime
      <3> QED  BY <3>1, <3>2 DEF Wires
    <2> QED  BY <2>1, <2>2, <2>3, <2>4 DEF TypeOK, SInv, WireInList, Hows
  <1> QED  BY <1>1, OInvInit, OInvNext, SInvInit, SInvNext, PTL DEF Spec

\* The work of a resolution is bounded by the replies it gets, and these by the time
\* that has passed: nested walks stand on replies of their own, and the queries sent
\* are those of one round for the roots and of 1 + 2 * MaxNs rounds for each reply
\* (iterative's calls of itself, query_servers).
THEOREM WorkIsBounded == Spec => []WorkBounded
  <1>1. OInv /\ SInv => WorkBounded
    <2> SUFFICES ASSUME OInv, SInv PROVE WorkBounded
      OBVIOUS
    <2> DEFINE l == Allowed(answered)
    <2>1. answered \in Nat /\ answered <= clock /\ sent \in Nat /\ l \in Nat
      BY AllowedGrows DEF OInv, Paid, SInv, Spent
    <2>2. Len(stack) <= 1 + answered /\ sent <= l
      <3>1. CASE stack = <<>>
        <4>1. Len(stack) = 0 /\ wire.phase = "none"
          BY <3>1 DEF SInv, WireInList
        <4>2. PICK x \in Nat : sent + x <= l + 0
          BY <4>1 DEF SInv, Spent, Affords, Pending
        <4> HIDE DEF l
        <4> QED  BY <2>1, <4>1, <4>2
      <3>2. CASE stack # <<>> /\ wire.phase = "none"
        <4>1. Len(stack) <= 1 + answered /\ Affords(stack, sent, l)
          BY <3>2, Between
        <4>2. PICK x \in Nat : sent + x <= l
          BY <4>1 DEF Affords
        <4> HIDE DEF l
        <4> QED  BY <2>1, <4>1, <4>2
      <3>3. CASE wire.phase # "none"
        <4>1. /\ Len(stack) <= 1 + answered /\ Affords(stack, sent, l + 1)
              /\ StackOK(stack) /\ stack # <<>> /\ FrameOK(Top) /\ Top.at = "query"
              /\ Top.i <= Len(Top.servers) /\ Due(Top) \in Nat
          BY <3>3, During
        <4>2. Due(Top) >= 1
          BY <4>1, DueNextServer
        <4> HIDE DEF l
        <4>3. PICK y \in Nat : sent + (y + Due(Top)) <= l + 1
          <5>1. l + 1 \in Nat
            BY <2>1
          <5> QED  BY <2>1, <4>1, <5>1, LedgerTop DEF Top
        <4>4. sent <= l
          BY <2>1, <4>1, <4>2, <4>3
        <4> QED  BY <4>1, <4>4
      <3> QED  BY <3>1, <3>2, <3>3
    <2> QED  BY <2>1, <2>2 DEF WorkBounded, Allowed
  <1> QED  BY <1>1, OInvInit, OInvNext, SInvInit, SInvNext, PTL DEF Spec

----------------------------------------------------------------------------
(* Failover. *)

\* While time is left, the servers a round has passed over are not sound.
Skipped ==
    stack # <<>> /\ Top.at = "query" /\ clock < Budget =>
        \A k \in 1..(Top.i - 1) : Top.servers[k] \notin sound

\* An exchange has less than Probe only when it ends at the deadline or later.
Clipped == wire.phase # "none" /\ wire.timeout < Probe => clock + wire.timeout >= Budget

FInv == Skipped /\ Clipped /\ Failover

\* A return but of the round that has failed.
LEMMA FInvReturns ==
    ASSUME OInv, SInv, FInv, stack # <<>>,
           NEW how, how # "unreachable", NEW now, NEW a \in Seq(Servers), Len(a) <= Share,
           Returns(how, a, now), wire'.phase = "none"
    PROVE  FInv'
  <1>1. ended'.how = how
    BY DEF Returns
  <1>2. stack' = <<>> \/ stack'[Len(stack')].at # "query"
    <2>1. /\ StackOK(stack) /\ Len(stack) \in Nat
      BY StackTop DEF SInv
    <2>2. PICK l \in Nat, c \in Nat : Affords(stack, c, l) /\ Len(stack) <= 1 + Len(stack)
      <3>1. sent \in Nat /\ Allowed(answered) + Pending(wire) \in Nat
        <4>1. sent \in Nat /\ answered \in Nat /\ Pending(wire) \in Nat
          BY DEF SInv, Spent, Pending
        <4>2. Allowed(answered) \in Nat
          BY <4>1, AllowedGrows
        <4> QED  BY <4>1, <4>2
      <3> QED  BY <2>1, <3>1 DEF SInv, Spent
    <2>3. Due(Top) \in Nat
      BY StackTop, DueNat DEF SInv, Top
    <2>4. l <= l + Due(Top)
      BY <2>3
    <2> QED  BY <2>1, <2>2, <2>4, ReturnsKeeps
  <1> QED  BY <1>1, <1>2 DEF FInv, Skipped, Clipped, Failover, Top

\* A step within a call that begins no exchange and has passed over no server.
LEMMA FInvBecomes ==
    ASSUME SInv, FInv, stack # <<>>, NEW f, FrameOK(f), Become(f), UNCHANGED ended,
           UNCHANGED sound, f.at # "query" \/ f.i = 1, wire'.phase = "none"
    PROVE  FInv'
  <1>1. stack' = SubSeq(stack, 1, Len(stack) - 1) \o <<f>>
    BY BecomeCuts DEF SInv, FrameOK
  <1>2. Len(stack) - 1 \in 0..Len(stack) /\ stack \in Seq(Frames) /\ f \in Frames
    BY StackTop DEF SInv, StackOK, FrameOK
  <1>3. PICK k \in 0..Len(stack) : k = Len(stack) - 1
    BY <1>2
  <1> DEFINE t == <<f>>
             v == SubSeq(stack, 1, k) \o t
  <1>4. t \in Seq(Frames) /\ Len(t) = 1 /\ t[1] = f
    BY <1>2
  <1> HIDE DEF t
  <1>5. Len(v) = k + Len(t) /\ \A i \in 1..Len(t) : v[k + i] = t[i]
    <2>1. stack \in Seq(Frames) /\ t \in Seq(Frames)
      BY <1>2, <1>4
    <2> QED  BY <2>1, Cut
  <1>6. stack' = v
    BY <1>1, <1>3 DEF t
  <1> HIDE DEF v
  <1>7. Len(v) = k + 1 /\ v[k + 1] = f
    BY <1>4, <1>5
  <1>8. stack'[Len(stack')] = f
    BY <1>6, <1>7
  <1>9. \A j \in 1..(1 - 1) : FALSE
    OBVIOUS
  <1> QED  BY <1>8, <1>9 DEF FInv, Skipped, Clipped, Failover, Top

LEMMA FInvInit == Init => FInv
  BY DEF Init, FInv, Skipped, Clipped, Failover, NoWire

LEMMA FInvAsk == SInv /\ FInv /\ Ask => FInv'
  <1> SUFFICES ASSUME SInv, FInv, Ask PROVE FInv'
    OBVIOUS
  <1>1. stack' = <<Walk>> /\ ended'.how = "none" /\ wire'.phase = "none"
    BY DEF Ask, SInv, WireInList
  <1>2. Len(<<Walk>>) = 1 /\ <<Walk>>[1] = Walk
    OBVIOUS
  <1>3. stack'[Len(stack')].at = "turn"
    BY <1>1, <1>2, WalkOK
  <1> QED  BY <1>1, <1>3 DEF FInv, Skipped, Clipped, Failover, Top

LEMMA FInvLoops == OInv /\ SInv /\ FInv /\ (Turn \/ NameServers) => FInv'
  <1> SUFFICES ASSUME OInv, SInv, FInv, Turn \/ NameServers PROVE FInv'
    OBVIOUS
  <1>1. /\ stack # <<>> /\ Top.at # "query" /\ UNCHANGED <<wire, sound>>
    BY DEF Turn, NameServers
  <1>2. wire'.phase = "none" /\ wire.phase = "none"
    BY <1>1 DEF SInv, WireInList
  <1>3. FrameOK(Top) /\ Top \in Frames /\ Top.asked = "none"
    BY <1>1, <1>2, Between DEF FrameOK
  <1>4. <<>> \in Seq(Servers) /\ Len(<<>>) <= Share
    BY ShareFits
  <1>5. CASE \/ Returns("depth", <<>>, clock) \/ Returns("deadline", <<>>, clock)
             \/ Returns("noaddress", <<>>, clock)
    BY <1>1, <1>2, <1>4, <1>5, FInvReturns
  <1>6. CASE /\ Top.at = "turn" /\ Top.depth < MaxDepth
             /\ Become([Top EXCEPT !.at = "query", !.i = 1]) /\ UNCHANGED ended
    <2> DEFINE f == [Top EXCEPT !.at = "query", !.i = 1]
    <2>1. FrameOK(f) /\ Become(f) /\ f.i = 1
      BY <1>3, <1>6, FrameTurn DEF Frames
    <2> HIDE DEF f
    <2> QED  BY <1>1, <1>2, <1>6, <2>1, FInvBecomes
  <1>7. CASE /\ Top.at = "names" /\ Top.ns # <<>> /\ Head(Top.ns) # None
             /\ Become([Top EXCEPT !.next = Append(@, Head(Top.ns)), !.ns = Tail(@)])
             /\ UNCHANGED ended
    <2> DEFINE f == [Top EXCEPT !.next = Append(@, Head(Top.ns)), !.ns = Tail(@)]
    <2>1. FrameOK(f) /\ Become(f)
      BY <1>3, <1>7, FrameGlue
    <2>2. f.at # "query"
      BY <1>3, <1>7 DEF Frames
    <2> HIDE DEF f
    <2> QED  BY <1>1, <1>2, <1>7, <2>1, <2>2, FInvBecomes
  <1>8. CASE /\ Top.at = "names" /\ Top.ns # <<>>
             /\ stack' = Callers \o <<[Top EXCEPT !.asked = "A"], Walk>>
             /\ UNCHANGED ended
    <2> DEFINE f == [Top EXCEPT !.asked = "A"]
    <2>1. FrameOK(f)
      BY <1>3, <1>8, FrameAsks
    <2>2. f.asked = "A"
      BY <1>3 DEF Frames
    <2>3. PICK k \in 0..(Len(stack) - 1) : k = Len(stack) - 1
      BY <1>1, <1>2, Between
    <2>4. stack' = SubSeq(stack, 1, k) \o <<f, Walk>>
      BY <1>8, <2>3 DEF Callers
    <2> HIDE DEF f
    <2> DEFINE v == SubSeq(stack, 1, k) \o <<f, Walk>>
    <2>5. Len(v) = k + 2 /\ v[k + 2] = Walk
      <3>1. StackOK(stack) /\ f.asked # "none"
        BY <2>2 DEF SInv
      <3> QED  BY <2>1, <3>1, StackWithWalk
    <2>6. stack' = v
      BY <2>4
    <2> HIDE DEF v
    <2>7. stack'[Len(stack')].at = "turn"
      BY <2>5, <2>6, WalkOK
    <2> QED  BY <1>1, <1>2, <1>8, <2>7 DEF FInv, Skipped, Clipped, Failover, Top
  <1>9. CASE /\ Top.at = "names" /\ Top.ns = <<>> /\ Top.next # <<>>
             /\ Become([Top EXCEPT !.at = "turn", !.depth = @ + 1, !.servers = Top.next,
                                   !.next = <<>>])
             /\ UNCHANGED ended
    <2> DEFINE f == [Top EXCEPT !.at = "turn", !.depth = @ + 1, !.servers = Top.next,
                                !.next = <<>>]
    <2>1. FrameOK(f) /\ Become(f)
      BY <1>3, <1>9, FrameNextTurn
    <2>2. f.at # "query"
      BY <1>3, <1>9 DEF Frames
    <2> HIDE DEF f
    <2> QED  BY <1>1, <1>2, <1>9, <2>1, <2>2, FInvBecomes
  <1> QED  BY <1>5, <1>6, <1>7, <1>8, <1>9 DEF Turn, NameServers

\* A round fails for want of servers only when it has passed over all of them.
LEMMA FInvQuery == OInv /\ SInv /\ FInv /\ QueryServer => FInv'
  <1> SUFFICES ASSUME OInv, SInv, FInv, QueryServer PROVE FInv'
    OBVIOUS
  <1>1. /\ stack # <<>> /\ Top.at = "query" /\ wire.phase = "none"
        /\ UNCHANGED <<clock, sound, answered>>
    BY DEF QueryServer
  <1>2. FrameOK(Top) /\ Top \in Frames /\ clock \in Nat /\ StackOK(stack)
    BY <1>1, Between DEF FrameOK, OInv, InTime
  <1>3. CASE /\ Top.i > Len(Top.servers) \/ clock >= Budget
             /\ Returns("unreachable", <<>>, clock) /\ UNCHANGED <<wire, sent>>
    <2> DEFINE l == Allowed(answered)
    <2>1. /\ Due(Top) \in Nat /\ sent \in Nat /\ answered \in Nat /\ l \in Nat
          /\ Affords(stack, sent, l) /\ Len(stack) <= 1 + answered
      BY <1>1, Between
    <2>2. <<>> \in Seq(Servers) /\ Len(<<>>) <= Share
      BY ShareFits
    <2> HIDE DEF l
    <2>3. l <= l + Due(Top)
      BY <2>1
    <2>4. /\ stack' # <<>> => stack'[Len(stack')].at # "query"
          /\ ended' = [how |-> "unreachable", servers |-> Top.servers, at |-> clock]
      BY <1>1, <1>2, <1>3, <2>1, <2>2, <2>3, ReturnsKeeps
    <2>5. ASSUME clock < Budget, NEW k \in DOMAIN Top.servers
          PROVE  Top.servers[k] \notin sound
      <3>1. Top.i \in Nat /\ Top.i > Len(Top.servers) /\ Top.servers \in Seq(Servers)
        BY <1>2, <1>3, <2>5, RecurseAssumption DEF Frames
      <3>2. Len(Top.servers) \in Nat /\ DOMAIN Top.servers = 1..Len(Top.servers)
        BY <3>1
      <3>3. k \in 1..(Top.i - 1)
        BY <2>5, <3>1, <3>2
      <3> QED  BY <1>1, <2>5, <3>3 DEF FInv, Skipped
    <2>6. Failover'
      BY <1>1, <2>4, <2>5 DEF Failover
    <2> QED  BY <1>1, <1>3, <2>4, <2>6 DEF FInv, Skipped, Clipped, Top
  <1>4. CASE /\ clock < Budget /\ UNCHANGED <<stack, ended>>
             /\ wire' = [phase |-> "udp", timeout |-> Timeout, reads |-> 0]
    <2>1. ASSUME Timeout < Probe PROVE clock + Timeout >= Budget
      <3>1. Budget \in Nat /\ Probe \in Nat
        BY RecurseAssumption
      <3> QED  BY <1>2, <1>4, <2>1, <3>1 DEF Timeout, Smaller
    <2>2. Clipped'
      BY <1>1, <1>4, <2>1 DEF Clipped
    <2> QED  BY <1>1, <1>4, <2>2 DEF FInv, Skipped, Failover, Top
  <1> QED  BY <1>3, <1>4 DEF QueryServer

\* A sound server that is passed over was cut off by the deadline.
LEMMA FInvFailed ==
    ASSUME OInv, SInv, FInv, NEW d \in 0..wire.timeout, Failed(d)
    PROVE  FInv'
  <1>1. /\ wire.phase # "none" /\ wire' = NoWire /\ Become([Top EXCEPT !.i = @ + 1])
        /\ clock' = clock + d /\ UNCHANGED <<ended, sound, sent, answered>>
        /\ Server \in sound => wire.timeout < Probe /\ d = wire.timeout
    BY DEF Failed
  <1> DEFINE f == [Top EXCEPT !.i = @ + 1]
  <1>2. /\ stack # <<>> /\ StackOK(stack) /\ FrameOK(Top) /\ Top.at = "query" /\ Top \in Frames
        /\ Top.i <= Len(Top.servers) /\ Len(stack) \in Nat \ {0} /\ Top.asked = "none"
    BY <1>1, During DEF FrameOK
  <1>3. FrameOK(f) /\ f.asked = "none"
    BY <1>2, FrameNextServer DEF Frames
  <1>4. f.at = "query" /\ f.i = Top.i + 1 /\ f.servers = Top.servers /\ Top.i \in Nat
    BY <1>2, RecurseAssumption DEF Frames
  <1>5. Become(f)
    BY <1>1
  <1> HIDE DEF f
  <1>6. PICK k \in 0..(Len(stack) - 1) : k = Len(stack) - 1
    <2>1. ASSUME NEW n \in Nat \ {0} PROVE n - 1 \in 0..(n - 1)
      OBVIOUS
    <2> QED  BY <1>2, <2>1
  <1>7. stack'[Len(stack')] = f
    <2> DEFINE v == SubSeq(stack, 1, k) \o <<f>>
    <2>1. Len(v) = k + 1 /\ v[k + 1] = f
      BY <1>2, <1>3, StackWithTop
    <2>2. stack' = v
      BY <1>2, <1>3, <1>5, <1>6, BecomeCuts DEF FrameOK
    <2> HIDE DEF v
    <2> QED  BY <2>1, <2>2
  <1>8. clock \in Nat /\ d \in Nat /\ Budget \in Nat
    BY RecurseAssumption DEF OInv, InTime, Wires
  <1>9. ASSUME clock' < Budget, NEW j \in 1..(f.i - 1)
        PROVE  f.servers[j] \notin sound
    <2>1. clock < Budget
      BY <1>1, <1>8, <1>9
    <2>2. CASE j = Top.i
      <3>1. ASSUME Server \in sound PROVE FALSE
        <4>1. clock + wire.timeout >= Budget /\ d = wire.timeout
          BY <1>1, <3>1 DEF FInv, Clipped
        <4> QED  BY <1>1, <1>8, <1>9, <4>1
      <3> QED  BY <1>4, <2>2, <3>1 DEF Server
    <2>3. CASE j # Top.i
      <3>1. j \in 1..(Top.i - 1)
        BY <1>4, <1>9, <2>3
      <3> QED  BY <1>2, <1>4, <2>1, <3>1 DEF FInv, Skipped
    <2> QED  BY <2>2, <2>3
  <1>10. Skipped'
    BY <1>1, <1>7, <1>9 DEF Skipped, Top
  <1> QED  BY <1>1, <1>10 DEF FInv, Clipped, Failover, NoWire

LEMMA FInvReplied ==
    ASSUME OInv, SInv, FInv, NEW d, NEW r \in Replies, Replied(d, r)
    PROVE  FInv'
  <1>1. /\ wire.phase # "none" /\ wire'.phase = "none" /\ UNCHANGED <<sound, sent>>
        /\ Followed(r, clock + d)
    BY DEF Replied, NoWire
  <1>2. stack # <<>> /\ FrameOK(Top) /\ Top.at = "query"
    BY <1>1, During
  <1>3. CASE Returns("ok", r.addrs, clock + d)
    <2>1. r.addrs \in Seq(Servers) /\ Len(r.addrs) <= Share
      BY ShareFits, RecurseAssumption
    <2> QED  BY <1>1, <1>2, <1>3, <2>1, FInvReturns
  <1>4. CASE Become([Top EXCEPT !.at = "names", !.ns = r.ns]) /\ UNCHANGED ended
    <2> DEFINE f == [Top EXCEPT !.at = "names", !.ns = r.ns]
    <2>1. FrameOK(f) /\ Become(f)
      BY <1>2, <1>4, FrameReferred
    <2>2. f.at = "names"
      BY <1>2 DEF FrameOK, Frames
    <2> HIDE DEF f
    <2> QED  BY <1>1, <1>2, <1>4, <2>1, <2>2, FInvBecomes
  <1> QED  BY <1>1, <1>3, <1>4 DEF Followed

LEMMA FInvTcp ==
    ASSUME OInv, FInv, NEW d \in 0..wire.timeout, Truncated(d) \/ Connected(d) \/ ReadPart(d)
    PROVE  FInv'
  <1>1. /\ wire.phase # "none" /\ UNCHANGED <<stack, ended, sound>> /\ clock' = clock + d
    BY DEF Truncated, Connected, ReadPart
  <1>2. wire'.timeout = wire.timeout
    BY DEF OInv, InTime, Wires, Truncated, Connected, ReadPart
  <1>3. clock \in Nat /\ wire.timeout \in Nat /\ d \in Nat /\ Budget \in Nat
    BY RecurseAssumption DEF OInv, InTime, Wires
  <1>4. (clock + d < Budget => clock < Budget)
        /\ (clock + wire.timeout >= Budget => (clock + d) + wire.timeout >= Budget)
    BY <1>3
  <1>5. Skipped'
    BY <1>1, <1>4 DEF FInv, Skipped, Top
  <1>6. Clipped'
    BY <1>1, <1>2, <1>4 DEF FInv, Clipped
  <1> QED  BY <1>1, <1>5, <1>6 DEF FInv, Failover

LEMMA FInvNext == OInv /\ SInv /\ FInv /\ [Next]_vars => FInv'
  <1> SUFFICES ASSUME OInv, SInv, FInv, [Next]_vars PROVE FInv'
    OBVIOUS
  <1>1. CASE Network
    BY <1>1, FInvReplied, FInvFailed, FInvTcp DEF Network
  <1>2. CASE UNCHANGED vars
    BY <1>2 DEF vars, FInv, Skipped, Clipped, Failover, Top
  <1> QED  BY <1>1, <1>2, FInvAsk, FInvLoops, FInvQuery DEF Next, Step

\* Dead and garbling servers are skipped, for every list of servers, every budget and
\* every pattern of truncation: a round of queries that fails while time is left has no
\* sound server in its list (the failover of query_servers).
THEOREM FailoverHolds == Spec => []Failover
  <1>1. FInv => Failover
    BY DEF FInv
  <1> QED  BY <1>1, OInvInit, OInvNext, SInvInit, SInvNext, FInvInit, FInvNext, PTL DEF Spec
=============================================================================
