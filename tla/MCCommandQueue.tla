--------------------------- MODULE MCCommandQueue ---------------------------
(* Instances of CommandQueue for TLC: each defines the calls of one run.    *)
EXTENDS CommandQueue, TLC

CONSTANTS e1, e2, c1, c2, c3, link1, link2

Uri(s, l) == [scheme |-> s, endpoint |-> l]
Poll(e, u, prev) == [entry |-> e, uri |-> u, mode |-> "serialized",
                     prio |-> PRIORITY_POLL, after |-> prev]
User(e, u, m, prev) == [entry |-> e, uri |-> u, mode |-> m,
                        prio |-> PRIORITY_USER, after |-> prev]

Bridge == Uri("tcp", link1)
Serial == Uri("bare", link2)

\* Two entries on a serial port, the second in concurrent_writes mode; e2 also
\* writes past the queue of a bridge after its call.
MixedReq == c1 :> Poll(e1, Serial, NoCall)
         @@ c2 :> User(e2, Uri("serial", link2), "concurrent_writes", NoCall)
         @@ c3 :> User(e2, Bridge, "concurrent_writes", c2)

\* Two entries share a bridge, and e1's poll has a second attempt.
RetryReq == c1 :> Poll(e1, Bridge, NoCall)
         @@ c2 :> User(e2, Bridge, "serialized", NoCall)
         @@ c3 :> Poll(e1, Bridge, c1)

\* One bridge handed over between two entries.
HandoverReq == c1 :> Poll(e1, Bridge, NoCall)
            @@ c2 :> User(e2, Bridge, "serialized", NoCall)
=============================================================================
