----------------------------- MODULE MCRecurse -----------------------------
(* Instances of Recurse for TLC. *)
EXTENDS Recurse

CONSTANTS s1, s2

MCRoots == <<s1, s2>>
Reply(rcode, ns, addrs) == [answers |-> addrs # <<>>, rcode |-> rcode, ns |-> ns, addrs |-> addrs]

\* An address, NXDOMAIN, NODATA, a referral with glue, and referrals without: to one
\* name server, and to two of which the second has glue.
MCReplies ==
    {Reply(0, <<>>, <<s2>>), Reply(3, <<>>, <<>>), Reply(0, <<>>, <<>>),
     Reply(0, <<s1>>, <<>>), Reply(0, <<None, None>>, <<>>), Reply(0, <<None, s2>>, <<>>)}
=============================================================================
