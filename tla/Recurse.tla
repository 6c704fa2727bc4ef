------------------------------ MODULE Recurse ------------------------------
(***************************************************************************)
(* The iterative resolver (do_resolve, iterative, query_servers, exchange   *)
(* in src/resolve/recurse.rs): a walk from the root servers down the        *)
(* referrals, in which a name server without glue is looked up by a nested  *)
(* walk of its own.  A resolution is one thread; its stack is the calls of  *)
(* iterative().  do_resolve returns what the first of them returns: both    *)
(* conditions before its CNAME loop return.                                 *)
(*                                                                          *)
(* Time passes only on the network, in ticks no longer than a round trip:   *)
(* a reply takes at least one.  The network loses, delays, truncates and    *)
(* garbles replies; what a server says is any of Replies.                   *)
(***************************************************************************)
EXTENDS Naturals, Sequences

CONSTANTS
    Servers,        \* server addresses
    Roots,          \* Resolver.roots: a sequence of servers
    Replies,        \* [answers, rcode, ns, addrs]: whether there are answers, for each
                    \*   NS record its glue or None, and the addresses of the type asked
                    \*   for in answer and additional section
    MaxDepth,       \* recurse_max_depth
    Budget,         \* recurse_timeout, in ticks
    Probe,          \* ns_probe_timeout, in ticks
    TcpReads,       \* bound on the reads one reply over TCP takes
    MaxNs,          \* bound on the NS records of a referral
    MaxList,        \* bound on the addresses it leads to
    None            \* no glue

ASSUME RecurseAssumption ==
    /\ Roots \in Seq(Servers) /\ Roots # <<>>
    /\ MaxDepth \in Nat /\ Budget \in Nat /\ Probe \in Nat \ {0}
    /\ TcpReads \in Nat \ {0, 1} /\ MaxNs \in Nat \ {0} /\ MaxList \in Nat
    /\ None \notin Servers
    /\ Replies \subseteq [answers : BOOLEAN, rcode : Nat, ns : Seq(Servers \cup {None}),
                          addrs : Seq(Servers)]
    /\ Len(Roots) <= MaxList
    /\ \A r \in Replies : /\ Len(r.ns) <= MaxNs
                          /\ MaxNs * Len(r.addrs) <= MaxList /\ MaxNs <= MaxList

VARIABLES
    clock,      \* time since do_resolve computed the deadline
    stack,      \* the calls of iterative(), innermost last; <<>> when none runs
    wire,       \* the exchange under way
    ended,      \* how the last call of iterative() ended
    sound,      \* servers that answer every query, each packet within Probe
    sent,       \* history: exchanges begun
    answered    \* history: exchanges that ended with a reply

vars == <<clock, stack, wire, ended, sound, sent, answered>>

NoWire == [phase |-> "none", timeout |-> 0, reads |-> 0]

\* A call of iterative(): depth, servers, the position in query_servers' loop, the NS
\* records still to be looked at, next, and the type of the nested lookup under way.
Walk == [at |-> "turn", depth |-> 0, servers |-> Roots, i |-> 1, ns |-> <<>>,
         next |-> <<>>, asked |-> "none"]

Top == stack[Len(stack)]
Callers == SubSeq(stack, 1, Len(stack) - 1)
Become(f) == stack' = Append(Callers, f)

Init ==
    /\ clock = 0 /\ stack = <<>> /\ wire = NoWire
    /\ ended = [how |-> "none", servers |-> <<>>, at |-> 0]
    /\ sound \in SUBSET Servers
    /\ sent = 0 /\ answered = 0

\* do_resolve: the deadline counts from here.
Ask ==
    /\ stack = <<>>
    /\ stack' = <<Walk>> /\ clock' = 0
    /\ sent' = 0 /\ answered' = 0
    /\ ended' = [how |-> "none", servers |-> <<>>, at |-> 0]
    /\ UNCHANGED <<wire, sound>>

----------------------------------------------------------------------------
(* Returning from iterative().                                              *)

BugWithAddresses(g, addrs) ==
    IF addrs = <<>>
    THEN [g EXCEPT !.asked = IF @ = "A" THEN "AAAA" ELSE "A"]
    ELSE [g EXCEPT !.next = @ \o addrs, !.ns = Tail(@), !.asked = "none"]

\* What the caller does with the addresses a nested call has found: those of the A
\* lookup, else those of the AAAA lookup.  An error counts as none (ok()).
WithAddresses(g, addrs) ==
    IF addrs = <<>> /\ g.asked = "A"
    THEN [g EXCEPT !.asked = "AAAA"]
    ELSE [g EXCEPT !.next = @ \o addrs, !.ns = Tail(@), !.asked = "none"]

Returns(how, addrs, now) ==
    /\ ended' = [how |-> how, servers |-> Top.servers, at |-> now]
    /\ stack' = IF Len(stack) = 1 THEN <<>>
                ELSE LET g == WithAddresses(stack[Len(stack) - 1], addrs)
                     IN  SubSeq(stack, 1, Len(stack) - 2) \o
                         (IF g.asked = "none" THEN <<g>> ELSE <<g, Walk>>)

BugTurn ==
    /\ stack # <<>> /\ Top.at = "turn"
    /\ \/ Top.depth > MaxDepth /\ Returns("depth", <<>>, clock)
       \/ Top.depth <= MaxDepth /\ clock >= Budget /\ Returns("deadline", <<>>, clock)
       \/ /\ Top.depth <= MaxDepth /\ clock < Budget
          /\ Become([Top EXCEPT !.at = "query", !.i = 1])
          /\ UNCHANGED ended
    /\ UNCHANGED <<clock, wire, sound, sent, answered>>

\* The head of iterative()'s loop.
Turn ==
    /\ stack # <<>> /\ Top.at = "turn"
    /\ \/ Top.depth >= MaxDepth /\ Returns("depth", <<>>, clock)
       \/ Top.depth < MaxDepth /\ clock >= Budget /\ Returns("deadline", <<>>, clock)
       \/ /\ Top.depth < MaxDepth /\ clock < Budget
          /\ Become([Top EXCEPT !.at = "query", !.i = 1])
          /\ UNCHANGED ended
    /\ UNCHANGED <<clock, wire, sound, sent, answered>>

\* The body of its loop over the NS records: glue, or a nested walk; when none is left,
\* the next turn with the addresses found.
NameServers ==
    /\ stack # <<>> /\ Top.at = "names" /\ Top.asked = "none"
    /\ \/ /\ Top.ns # <<>> /\ Head(Top.ns) # None
          /\ Become([Top EXCEPT !.next = Append(@, Head(Top.ns)), !.ns = Tail(@)])
          /\ UNCHANGED ended
       \/ /\ Top.ns # <<>> /\ Head(Top.ns) = None
          /\ stack' = Callers \o <<[Top EXCEPT !.asked = "A"], Walk>>
          /\ UNCHANGED ended
       \/ /\ Top.ns = <<>> /\ Top.next = <<>>
          /\ Returns("noaddress", <<>>, clock)
       \/ /\ Top.ns = <<>> /\ Top.next # <<>>
          /\ Become([Top EXCEPT !.at = "turn", !.depth = @ + 1, !.servers = Top.next,
                                !.next = <<>>])
          /\ UNCHANGED ended
    /\ UNCHANGED <<clock, wire, sound, sent, answered>>

----------------------------------------------------------------------------
(* query_servers and exchange.                                              *)

Smaller(a, b) == IF a < b THEN a ELSE b

BugTimeout == Probe

\* remaining.min(ns_probe_timeout)
Timeout == Smaller(Budget - clock, Probe)

Server == Top.servers[Top.i]

\* The loop over the servers: the next one is asked, or the round has failed.
QueryServer ==
    /\ stack # <<>> /\ Top.at = "query" /\ wire.phase = "none"
    /\ \/ /\ Top.i > Len(Top.servers) \/ clock >= Budget
          /\ Returns("unreachable", <<>>, clock)
          /\ UNCHANGED <<wire, sent>>
       \/ /\ Top.i <= Len(Top.servers) /\ clock < Budget
          /\ wire' = [phase |-> "udp", timeout |-> Timeout, reads |-> 0]
          /\ sent' = sent + 1
          /\ UNCHANGED <<stack, ended>>
    /\ UNCHANGED <<clock, sound, answered>>

\* iterative() with a reply: it is returned if it has answers, an error code or no NS
\* record, else followed.
Followed(r, now) ==
    IF r.answers \/ r.rcode # 0 \/ r.ns = <<>>
    THEN Returns("ok", r.addrs, now)
    ELSE Become([Top EXCEPT !.at = "names", !.ns = r.ns]) /\ UNCHANGED ended

\* A reply with its QR bit set, within the timeout, over UDP or with the last read
\* over TCP.
Replied(d, r) ==
    /\ (wire.phase = "udp" /\ d > 0) \/ (wire.phase = "read" /\ wire.reads > 0)
    /\ clock' = clock + d
    /\ answered' = answered + 1
    /\ wire' = NoWire
    /\ Followed(r, clock + d)
    /\ UNCHANGED <<sound, sent>>

\* exchange_tcp: connecting, and every read, has the whole timeout again.
Truncated(d) ==
    /\ wire.phase = "udp" /\ d > 0
    /\ clock' = clock + d /\ wire' = [wire EXCEPT !.phase = "connect"]
    /\ UNCHANGED <<stack, ended, sound, sent, answered>>

Connected(d) ==
    /\ wire.phase = "connect"
    /\ clock' = clock + d /\ wire' = [wire EXCEPT !.phase = "read"]
    /\ UNCHANGED <<stack, ended, sound, sent, answered>>

ReadPart(d) ==
    /\ wire.phase = "read" /\ wire.reads + 1 < TcpReads
    /\ clock' = clock + d /\ wire' = [wire EXCEPT !.reads = @ + 1]
    /\ UNCHANGED <<stack, ended, sound, sent, answered>>

BugFailed(d) ==
    /\ wire.phase # "none"
    /\ Server \in sound => wire.timeout < Probe /\ d = wire.timeout
    /\ clock' = clock + d
    /\ wire' = NoWire
    /\ Become([Top EXCEPT !.i = Len(Top.servers) + 1])
    /\ UNCHANGED <<ended, sound, sent, answered>>

\* No reply in time, an error of a socket (at once, perhaps), a message that does not
\* parse or is no response: the next server.  A sound server only fails to answer in
\* time when less than Probe is left.
Failed(d) ==
    /\ wire.phase # "none"
    /\ Server \in sound => wire.timeout < Probe /\ d = wire.timeout
    /\ clock' = clock + d
    /\ wire' = NoWire
    /\ Become([Top EXCEPT !.i = @ + 1])
    /\ UNCHANGED <<ended, sound, sent, answered>>

Network ==
    \E d \in 0..wire.timeout :
        \/ \E r \in Replies : Replied(d, r)
        \/ Truncated(d) \/ Connected(d) \/ ReadPart(d) \/ Failed(d)

Step == Turn \/ NameServers \/ QueryServer \/ Network

Next == Ask \/ Step

\* The thread runs and every socket operation ends by its timeout.  Nothing forces a
\* client to ask.
Spec == Init /\ [][Next]_vars /\ WF_vars(Step)

----------------------------------------------------------------------------
Frames ==
    [at : {"turn", "query", "names"}, depth : 0..MaxDepth, servers : Seq(Servers),
     i : 1..MaxList + 1, ns : Seq(Servers \cup {None}), next : Seq(Servers),
     asked : {"none", "A", "AAAA"}]

TypeOK ==
    /\ clock \in Nat /\ sent \in Nat /\ answered \in Nat
    /\ stack \in Seq(Frames)
    /\ \A k \in DOMAIN stack : /\ Len(stack[k].servers) \in 1..MaxList
                               /\ stack[k].asked # "none" <=> k < Len(stack)
    /\ wire \in [phase : {"none", "udp", "connect", "read"}, timeout : 0..Probe,
                 reads : 0..TcpReads]
    /\ wire.phase # "none" => stack # <<>> /\ Top.at = "query" /\ Top.i <= Len(Top.servers)
    /\ ended.how \in {"none", "ok", "depth", "deadline", "unreachable", "noaddress"}
    /\ sound \subseteq Servers

\* However a resolution goes, it is over, and every socket operation it waits in, by
\* one exchange after the deadline: what an exchange may take beyond it is one timeout
\* to connect and one per read, of at most ns_probe_timeout (query_servers clips the
\* timeout once, exchange_tcp uses it again and again).
OverrunBounded == clock <= Budget + (1 + TcpReads) * Probe

\* recurse_max_depth bounds neither the nesting of walks nor the queries sent, replies
\* do: every nested walk stands on a reply of its own, and a reply leads to one more
\* round of queries and two for each of its name servers.  Replies take time, so the
\* deadline bounds both.
WorkBounded ==
    /\ answered <= clock
    /\ Len(stack) <= 1 + answered
    /\ sent <= (1 + answered * (1 + 2 * MaxNs)) * MaxList

\* Dead and garbling servers are skipped: as long as time is left a round of queries
\* fails only when none of its servers answers (the failover of query_servers).
Failover ==
    (ended.how = "unreachable" /\ ended.at < Budget) =>
        \A k \in DOMAIN ended.servers : ended.servers[k] \notin sound

\* Every resolution ends: no sequence of referrals, name servers without glue, errors
\* and truncated replies keeps its thread, and the followers of its flight, for ever.
Terminates == (stack # <<>>) ~> (stack = <<>>)
=============================================================================
