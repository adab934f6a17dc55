----------------------------- MODULE MCMultiSync -----------------------------
(* Two stores.  Capabilities and projections 1 and 2 are implemented, 3 is not. *)
EXTENDS MultiSync, TLC

Side(rc, rp, sc, sp) == [reqCaps |-> rc, reqProj |-> rp, supCaps |-> sc, supProj |-> sp]
OfStore(s, side) == [store |-> s] @@ side

\* For every store: one error of each kind, and handshakes with and without the
\* synchronisation capability.
Case(s, e, t, local, remote) ==
    [store |-> s, expected |-> e, trusted |-> t, local |-> local, remote |-> remote]
Wide == Side(<<1>>, <<>>, <<1, 2>>, <<1, 2>>)
Open == Side(<<>>, <<>>, <<1, 3>>, <<2, 3>>)
MCNegotiations ==
    UNION {{Case(s, s, TRUE, pair[1], OfStore(s, pair[2])) : pair \in
                {<<Wide, Open>>, <<Wide, Side(<<2>>, <<1>>, <<1, 2, 3>>, <<1, 2>>)>>,
                 <<Side(<<>>, <<>>, <<2>>, <<>>), Side(<<>>, <<>>, <<1, 2, 3>>, <<2>>)>>,
                 <<Wide, Side(<<3>>, <<>>, <<1>>, <<>>)>>, <<Wide, Side(<<>>, <<3>>, <<1>>, <<>>)>>,
                 <<Wide, Side(<<>>, <<>>, <<2>>, <<>>)>>,
                 <<Side(<<>>, <<>>, <<1>>, <<2>>), Side(<<2>>, <<>>, <<1, 2>>, <<2>>)>>,
                 <<Side(<<>>, <<2>>, <<1>>, <<2>>), Side(<<>>, <<>>, <<1>>, <<>>)>>,
                 <<Side(<<>>, <<>>, <<1>>, <<2>>), Side(<<>>, <<1>>, <<1>>, <<1, 2>>)>>,
                 <<Wide, Side(<<1, 1>>, <<>>, <<1>>, <<>>)>>,
                 <<Wide, Side(<<>>, <<>>, <<1, 2, 3, 4>>, <<>>)>>,
                 <<Side(<<2>>, <<1>>, <<1>>, <<>>), Side(<<1>>, <<>>, <<2>>, <<1>>)>>,
                 <<Side(<<>>, <<>>, <<1, 3>>, <<>>), Open>>}}
           \union {Case(s, 3 - s, TRUE, Wide, OfStore(s, Open)), Case(s, s, TRUE, Wide, OfStore(3 - s, Open)),
                   Case(s, s, FALSE, Wide, OfStore(s, Open))} : s \in Store}

To(e, s, a, k) == [expected |-> e, store |-> s, auth |-> a, token |-> k]
MCRequests ==
    {<<>>, <<To(1, 1, TRUE, 1), To(2, 2, TRUE, 2)>>, <<To(2, 2, TRUE, 2)>>,
     <<To(2, 2, TRUE, 2), To(1, 1, TRUE, 1)>>, <<To(1, 1, TRUE, 1), To(1, 1, TRUE, 1)>>,
     <<To(1, 1, TRUE, 1), To(2, 2, FALSE, 2)>>, <<To(1, 1, TRUE, 1), To(2, 1, TRUE, 2)>>,
     <<To(1, 1, TRUE, 1), To(2, 2, TRUE, 1)>>,
     <<To(1, 1, TRUE, 1), To(2, 2, TRUE, 2), To(3, 2, TRUE, 2)>>}
=============================================================================
