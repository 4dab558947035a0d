--------------------------- MODULE MCGateSession ---------------------------
(* Instances of GateSession for TLC. *)
EXTENDS GateSession, TLC
CONSTANTS c1, c2, c3, g1, g2, s1, s2

OneConn == {c1}
TwoConns == {c1, c2}
ThreeConns == {c1, c2, c3}
OneGate == {g1}
TwoGates == {g1, g2}
OneServer == {s1}
TwoServers == {s1, s2}

\* Connections, gates and game servers are interchangeable.
Interchange == Permutations(Conns) \cup Permutations(Gates) \cup Permutations(Servers)
=============================================================================
