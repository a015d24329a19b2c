----------------------- MODULE MCUpstreamProxyPool -----------------------
(* Small instances of UpstreamProxyPool for TLC. *)
EXTENDS UpstreamProxyPoolHistory, TLC

CONSTANTS p1, p2, h1, h2, u1, u2

MCSettings ==
    {[on |-> TRUE, proxies |-> <<p1, p2>>],
     [on |-> TRUE, proxies |-> <<p2, p2>>],
     [on |-> FALSE, proxies |-> <<p1, p2>>]}

MCHash == [u \in Users |-> IF u = u1 THEN 0 ELSE 1]

MCBase == [result \in Failures |-> IF result = "429" THEN 1 ELSE 2]

Symmetric == Permutations({h1, h2})

==========================================================================
