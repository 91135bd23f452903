------------------------------ MODULE MCUdpHub ------------------------------
(* An instance of UdpHub for TLC: addresses as records, one pair of which  *)
(* differs in the zone only.                                               *)
EXTENDS UdpHub, TLC

CONSTANTS s1, s2, s3

Addr(ip, port, zone) == [ip |-> ip, port |-> port, zone |-> zone]
MCAddrs == {Addr(1, 1, 0), Addr(1, 1, 1), Addr(1, 2, 0), Addr(2, 1, 0)}
MCAddrsOne == {Addr(1, 1, 0)}
MCHostPort == [a \in Addrs |-> [a EXCEPT !.zone = 0]]
MCIP == [a \in Addrs |-> a.ip]
MCPeer == [s \in Sessions |-> 1]

Symmetry == Permutations(Sessions)
=============================================================================
