----------------------------- MODULE MCProxyServer -----------------------------
(* ProxyServer on small instances. *)
EXTENDS ProxyServer, TLC

Symmetry == Permutations(Sessions)

\* The liveness properties are checked for one session: the specification does not
\* tell the members of Sessions apart, so they hold for each when they hold for one.
Watched == CHOOSE s \in Sessions : TRUE

\* Fairness for the watched session, and progress of the pool: weaker than FairSpec,
\* so what holds here holds there.
WatchedSpec ==
    /\ Spec /\ MainFairness /\ SessionFairness(Watched)
    /\ WF_vars(\E s \in Sessions : PoolStep(s) \/ HandshakeEnds(s))

\* A completed read of the watched session is always handled (ReadsServed).
CompletedReadsServed == ReadsServed(Watched)

\* The watched session is destroyed once a peer of it is gone (Reaped).
FailedReadReaped == Reaped(Watched)

\* The watched session is served as long as its peers are there, and no longer.
SessionServed == CompletedReadsServed /\ FailedReadReaped

\* The watched session, once queued, is started (Started).
QueuedStarted == Started(Watched)
================================================================================
