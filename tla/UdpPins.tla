------------------------------- MODULE UdpPins -------------------------------
(***************************************************************************)
(* What the UDP hub promises to the associations of one listener: an       *)
(* association serves one client address, its own from the first datagram  *)
(* to the last, and no two serve the same one.  UdpHub implements it.      *)
(***************************************************************************)
CONSTANTS
  Sessions,  \* associations
  Clients,   \* client addresses, without a zone
  Peer,      \* Peer[s]: the IP of the control connection of s
  HostIP,    \* HostIP[c]: the IP of c
  NoAddr     \* no address: not declared, or not pinned yet

VARIABLES
  st,        \* new, waiting, pinned or over
  want,      \* the address the client declared
  client,    \* the address the association serves
  sent       \* sources of what went upstream

pinVars == <<st, want, client, sent>>

Init ==
  /\ st = [s \in Sessions |-> "new"]
  /\ want = [s \in Sessions |-> NoAddr] /\ client = [s \in Sessions |-> NoAddr]
  /\ sent = [s \in Sessions |-> {}]

Enter(s, l) == st' = [st EXCEPT ![s] = l]
WaitingFor(c, ip) == {s \in Sessions : st[s] = "waiting" /\ want[s] = c /\ Peer[s] = ip}

\* Of the associations of one IP, one at a time waits for an undeclared address.
Accept(s, c) ==
  /\ st[s] = "new" /\ Enter(s, "waiting")
  /\ c = NoAddr => WaitingFor(NoAddr, Peer[s]) = {}
  /\ want' = [want EXCEPT ![s] = c]
  /\ UNCHANGED <<client, sent>>

\* The first datagram of a free address goes to the one association that declared
\* it, or else to the one that declared none.
Pin(s, c) ==
  /\ st[s] = "waiting" /\ Enter(s, "pinned")
  /\ Peer[s] = HostIP[c]
  /\ \A t \in Sessions : st[t] = "pinned" => client[t] # c
  /\ \/ WaitingFor(c, HostIP[c]) = {s}
     \/ want[s] = NoAddr /\ WaitingFor(c, HostIP[c]) = {}
  /\ client' = [client EXCEPT ![s] = c]
  /\ UNCHANGED <<want, sent>>

Forward(s) ==
  /\ st[s] = "pinned"
  /\ sent' = [sent EXCEPT ![s] = @ \cup {client[s]}]
  /\ UNCHANGED <<st, want, client>>

End(s) == st[s] # "over" /\ Enter(s, "over") /\ UNCHANGED <<want, client, sent>>

Next ==
  \E s \in Sessions :
    \/ \E c \in Clients \cup {NoAddr} : Accept(s, c)
    \/ \E c \in Clients : Pin(s, c)
    \/ Forward(s) \/ End(s)

Spec == Init /\ [][Next]_pinVars
=============================================================================
