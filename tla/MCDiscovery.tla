------------------------------ MODULE MCDiscovery ------------------------------
(***************************************************************************)
(* Discovery over five wirings of four panels, and over every way to plug  *)
(* three panels together, loops and islands included.                      *)
(***************************************************************************)
EXTENDS Discovery, TLC

CONSTANTS p1, p2, p3, p4

\* The wiring whose wires are the pairs of ports in m.
WiringOf(m) ==
    [q \in Port |-> IF \E w \in m : q \in w
                    THEN CHOOSE r \in Port \ {q} : {q, r} \in m
                    ELSE NoPort]

\* A chain; a fork whose first branch is two panels deep; a ring that also
\* carries a fourth panel; two panels joined twice; nothing on the trunk.
ChainWiring  == WiringOf({{Trunk, <<p1, 0>>}, {<<p1, 2>>, <<p2, 2>>}, {<<p2, 1>>, <<p3, 0>>},
                          {<<p3, 2>>, <<p4, 1>>}})
ForkWiring   == WiringOf({{Trunk, <<p1, 1>>}, {<<p1, 0>>, <<p2, 0>>}, {<<p2, 2>>, <<p3, 1>>},
                          {<<p1, 2>>, <<p4, 1>>}})
RingWiring   == WiringOf({{Trunk, <<p1, 0>>}, {<<p1, 1>>, <<p2, 0>>}, {<<p2, 1>>, <<p3, 0>>},
                          {<<p3, 2>>, <<p1, 2>>}, {<<p2, 2>>, <<p4, 0>>}})
DoubleWiring == WiringOf({{Trunk, <<p1, 0>>}, {<<p1, 1>>, <<p2, 0>>}, {<<p1, 2>>, <<p2, 2>>},
                          {<<p2, 1>>, <<p3, 0>>}, {<<p3, 1>>, <<p4, 0>>}})
EmptyWiring  == WiringOf({{<<p1, 0>>, <<p2, 0>>}})

SomeWirings  == {ChainWiring, ForkWiring, RingWiring, DoubleWiring, EmptyWiring}

\* Every set of wires over the ports S, each joining two different nodes.
RECURSIVE Matchings(_)
Matchings(S) ==
    IF S = {} THEN {{}}
    ELSE LET q == CHOOSE x \in S : TRUE
             R == S \ {q}
         IN  Matchings(R) \cup
             UNION {{m \cup {{q, r}} : m \in Matchings(R \ {r})} :
                        r \in {x \in R : x[1] # q[1]}}

\* All wirings of three panels.  The panels are interchangeable: the trunk
\* leads to p1, and the first wire of p1 that leads on does not lead to p3.
Ports == {q \in Port : q[1] \in {p1, p2, p3}}
InOrder(w) ==
    \A e \in Edge : w[<<p1, e>>] # NoPort /\ w[<<p1, e>>][1] = p3
        => \E f \in 0 .. e - 1 : w[<<p1, f>>] # NoPort /\ w[<<p1, f>>][1] = p2
AllWirings ==
    SomeWirings \cup
    UNION {{w \in {WiringOf(m \cup {{Trunk, t}}) : m \in Matchings(Ports \ {t})} : InOrder(w)} :
              t \in {q \in Ports : q[1] = p1}}

=============================================================================
