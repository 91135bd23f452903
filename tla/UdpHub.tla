------------------------------- MODULE UdpHub -------------------------------
(***************************************************************************)
(* SOCKS5 UDP ASSOCIATE of one listener: inbound/hub.go (one UDP socket,   *)
(* one read loop, the table that pins a client address to an association)  *)
(* and serveUDPAssociate of inbound/udp.go (one goroutine per association  *)
(* forwarding to its upstream, one copying replies back, one watching the  *)
(* control connection).                                                    *)
(*                                                                         *)
(* A datagram is represented by its source address.  Two addresses with    *)
(* the same IP and port can differ in their IPv6 zone: the table is keyed  *)
(* by the full text, sameUDPAddr ignores the zone.                         *)
(***************************************************************************)
EXTENDS Naturals, Sequences

CONSTANTS
  Sessions,    \* associations
  Peer,        \* Peer[s]: the IP of the control connection of s
  Addrs,       \* UDP source addresses, zone included
  HostPort,    \* HostPort[a]: the address without its zone
  IP,          \* IP[a]
  NoAddr,      \* nil net.Addr
  NoSession,   \* nil *udpSess
  ChanCap,     \* capacity of udpSess.ch
  WSSessions   \* those whose upstream is a wsConn, whose Close writes a frame first

HostPorts == {HostPort[a] : a \in Addrs}
HostIP == [c \in HostPorts |-> IP[CHOOSE a \in Addrs : HostPort[a] = c]]

ASSUME HubAssumption ==
  /\ NoSession \notin Sessions /\ NoAddr \notin Addrs \cup HostPorts
  /\ ChanCap \in Nat \ {0} /\ WSSessions \subseteq Sessions
  /\ \A a, b \in Addrs : HostPort[a] = HostPort[b] => IP[a] = IP[b]

VARIABLES
  pending,     \* udpHub.pending; its order decides nothing, and register adds a session once
  byClient,    \* udpHub.byClient
  expect, client, ch, done,   \* the fields of udpSess
  pc,          \* serveUDPAssociate
  cur,         \* the datagram its loop is writing upstream
  rep,         \* its reply goroutine
  hub,         \* the read loop: reading, delivering, or dead (socket closed)
  fwd          \* sources of what was written upstream per association (history)

sesVars == <<expect, done, pc, cur, rep, fwd>>
hubVars == <<pending, byClient, client, hub>>
vars == <<sesVars, hubVars, ch>>

Reading == [at |-> "read", ses |-> NoSession, from |-> NoAddr]
Deliver(s, a) == [at |-> "deliver", ses |-> s, from |-> a]
Dead == [at |-> "dead", ses |-> NoSession, from |-> NoAddr]

Init ==
  /\ pending = {}
  /\ byClient = [a \in Addrs |-> NoSession]
  /\ expect = [s \in Sessions |-> NoAddr] /\ client = [s \in Sessions |-> NoAddr]
  /\ ch = [s \in Sessions |-> <<>>] /\ done = [s \in Sessions |-> FALSE]
  /\ pc = [s \in Sessions |-> "new"] /\ cur = [s \in Sessions |-> NoAddr]
  /\ rep = [s \in Sessions |-> "off"]
  /\ hub = Reading
  /\ fwd = [s \in Sessions |-> {}]

Goto(s, l) == pc' = [pc EXCEPT ![s] = l]
Registered(s) == pc[s] \in {"answer", "serve", "write", "unregister"}

-----------------------------------------------------------------------------
(* serveUDPAssociate                                                       *)

\* udp() opens the upstream, or the request is refused.
OpenUpstream(s) ==
  /\ pc[s] = "new"
  /\ \E l \in {"register", "ended"} : Goto(s, l)
  /\ UNCHANGED <<expect, done, cur, rep, fwd, hubVars, ch>>

\* A wildcard association of the same IP is waiting for its first datagram.
WildcardBusy(s) == \E p \in pending : expect[p] = NoAddr /\ Peer[p] = Peer[s]

\* Mutant: the second wildcard association is accepted too.
Register_NoBusy(s) ==
  /\ pc[s] = "register"
  /\ \E e \in HostPorts \cup {NoAddr} :
       /\ pending' = pending \cup {s}
       /\ expect' = [expect EXCEPT ![s] = e]
       /\ Goto(s, "answer")
  /\ UNCHANGED <<done, cur, rep, fwd, byClient, client, hub, ch>>

\* hub.register; e is what associateExpect made of the request.
Register(s) ==
  /\ pc[s] = "register"
  /\ \E e \in HostPorts \cup {NoAddr} :
       IF e = NoAddr /\ WildcardBusy(s)
       THEN Goto(s, "closeup") /\ UNCHANGED <<pending, expect>>
       ELSE /\ pending' = pending \cup {s}
            /\ expect' = [expect EXCEPT ![s] = e]
            /\ Goto(s, "answer")
  /\ UNCHANGED <<done, cur, rep, fwd, byClient, client, hub, ch>>

\* The reply to the client; the goroutines start when it could be written.
Answer(s) ==
  /\ pc[s] = "answer"
  /\ \/ Goto(s, "serve") /\ rep' = [rep EXCEPT ![s] = "run"]
     \/ Goto(s, "unregister") /\ UNCHANGED rep
  /\ UNCHANGED <<expect, done, cur, fwd, hubVars, ch>>

\* The loop takes a datagram from the channel ...
Forward(s) ==
  /\ pc[s] = "serve" /\ ch[s] # <<>>
  /\ cur' = [cur EXCEPT ![s] = Head(ch[s])]
  /\ ch' = [ch EXCEPT ![s] = Tail(@)]
  /\ Goto(s, "write")
  /\ UNCHANGED <<expect, done, rep, fwd, hubVars>>

\* ... and writes it upstream; any error or short write ends the association.
Write(s) ==
  /\ pc[s] = "write"
  /\ \/ Goto(s, "serve") /\ fwd' = [fwd EXCEPT ![s] = @ \cup {cur[s]}]
     \/ Goto(s, "unregister") /\ UNCHANGED fwd
  /\ cur' = [cur EXCEPT ![s] = NoAddr]
  /\ UNCHANGED <<expect, done, rep, hubVars, ch>>

\* Mutant: the loop drains the channel before it looks at done.
Leave_Drained(s) ==
  /\ pc[s] = "serve" /\ done[s] /\ ch[s] = <<>>
  /\ Goto(s, "unregister")
  /\ UNCHANGED <<expect, done, cur, rep, fwd, hubVars, ch>>

Leave(s) ==
  /\ pc[s] = "serve" /\ done[s]
  /\ Goto(s, "unregister")
  /\ UNCHANGED <<expect, done, cur, rep, fwd, hubVars, ch>>

\* Mutants: unregister does not stop the session; the pin stays in the table.
Unregister_NoStop(s) ==
  /\ pc[s] = "unregister"
  /\ pending' = pending \ {s}
  /\ byClient' = [a \in Addrs |-> IF a = client[s] THEN NoSession ELSE byClient[a]]
  /\ Goto(s, "closeup")
  /\ UNCHANGED <<expect, done, cur, rep, fwd, client, hub, ch>>

Unregister_KeepsPin(s) ==
  /\ pc[s] = "unregister"
  /\ done' = [done EXCEPT ![s] = TRUE]
  /\ pending' = pending \ {s}
  /\ Goto(s, "closeup")
  /\ UNCHANGED <<expect, cur, rep, fwd, byClient, client, hub, ch>>

\* hub.unregister, deferred: stop, leave the pending list, and delete the one
\* table entry of the address the session was pinned to.
Unregister(s) ==
  /\ pc[s] = "unregister"
  /\ done' = [done EXCEPT ![s] = TRUE]
  /\ pending' = pending \ {s}
  /\ byClient' = [a \in Addrs |-> IF a = client[s] THEN NoSession ELSE byClient[a]]
  /\ Goto(s, "closeup")
  /\ UNCHANGED <<expect, cur, rep, fwd, client, hub, ch>>

\* up.Close, deferred before it; that of a wsConn returns when its close frame is
\* written, for which there is no deadline.
CloseUp(s) ==
  /\ pc[s] = "closeup"
  /\ Goto(s, "ended")
  /\ UNCHANGED <<expect, done, cur, rep, fwd, hubVars, ch>>

\* The control connection ends.
ControlEnds(s) ==
  /\ rep[s] # "off" /\ ~done[s]
  /\ done' = [done EXCEPT ![s] = TRUE]
  /\ UNCHANGED <<expect, pc, cur, rep, fwd, hubVars, ch>>

-----------------------------------------------------------------------------
(* The reply goroutine: it reads the upstream and writes to the pinned      *)
(* client, if there is one, which changes nothing here, until either fails  *)
(* (the upstream is closed, the hub is dead): then it stops the session.    *)

ReplyEnds(s) ==
  /\ rep[s] = "run"
  /\ rep' = [rep EXCEPT ![s] = "over"]
  /\ done' = [done EXCEPT ![s] = TRUE]
  /\ UNCHANGED <<expect, pc, cur, fwd, hubVars, ch>>

-----------------------------------------------------------------------------
(* The read loop.  A datagram that does not parse and a temporary error     *)
(* leave no trace.                                                          *)

Same(a, b) == HostPort[a] = HostPort[b]

\* Mutants: the table only; the port is not compared.
Pinned_KeyOnly(from) == {byClient[from]} \ {NoSession}
Pinned_IPOnly(from) ==
  IF byClient[from] # NoSession THEN {byClient[from]}
  ELSE {s \in Sessions : /\ \E a \in Addrs : byClient[a] = s
                         /\ client[s] # NoAddr /\ IP[client[s]] = IP[from]}

\* lookupPinned: the exact entry, or any pinned session with the same IP and port
\* (the order of the map decides among several).
Pinned(from) ==
  IF byClient[from] # NoSession THEN {byClient[from]}
  ELSE {s \in Sessions : /\ \E a \in Addrs : byClient[a] = s
                         /\ client[s] # NoAddr /\ Same(client[s], from)}

Matching(e, ip) == {s \in pending : expect[s] = e /\ Peer[s] = ip}
Exact(from) == Matching(HostPort[from], IP[from])
Wild(from) == Matching(NoAddr, IP[from])

\* Mutant: a wildcard may win over an exact match.
Candidates_WildFirst(from) ==
  {s \in pending : Wild(from) = {s} \/ (Wild(from) = {} /\ Exact(from) = {s})}

\* The pending session dispatch pins: the only exact match, else the only wildcard.
Candidates(from) ==
  {s \in pending : Exact(from) = {s} \/ (Exact(from) = {} /\ Wild(from) = {s})}

\* dispatch finds a pinned session, and stores the alias it was found by.
HubPinned(from) ==
  /\ hub = Reading
  /\ \E s \in Pinned(from) :
       /\ byClient' = [byClient EXCEPT ![from] = s]
       /\ hub' = Deliver(s, from)
  /\ UNCHANGED <<sesVars, pending, client, ch>>

\* pinLocked.
HubPin(from) ==
  /\ hub = Reading /\ Pinned(from) = {}
  /\ \E s \in Candidates(from) :
       /\ client' = [client EXCEPT ![s] = from]
       /\ byClient' = [byClient EXCEPT ![from] = s]
       /\ pending' = pending \ {s}
       /\ hub' = Deliver(s, from)
  /\ UNCHANGED <<sesVars, ch>>

HubIgnores(from) ==
  /\ hub = Reading /\ Pinned(from) = {} /\ Candidates(from) = {}
  /\ UNCHANGED <<sesVars, pending, byClient, client, hub, ch>>

HubDeliver_NoDone ==
  /\ hub.at = "deliver"
  /\ Len(ch[hub.ses]) < ChanCap
  /\ ch' = [ch EXCEPT ![hub.ses] = Append(@, hub.from)]
  /\ hub' = Reading
  /\ UNCHANGED <<sesVars, pending, byClient, client>>

\* The loop waits for room in the channel or for the session's end.
HubDeliver ==
  /\ hub.at = "deliver"
  /\ \/ /\ Len(ch[hub.ses]) < ChanCap
        /\ ch' = [ch EXCEPT ![hub.ses] = Append(@, hub.from)]
     \/ done[hub.ses] /\ UNCHANGED ch
  /\ hub' = Reading
  /\ UNCHANGED <<sesVars, pending, byClient, client>>

\* A permanent read error, or the listener was closed.
HubDies ==
  /\ hub = Reading
  /\ hub' = Dead
  /\ UNCHANGED <<sesVars, pending, byClient, client, ch>>

-----------------------------------------------------------------------------
\* Everything has come to rest, or only clients could move.
AllDone ==
  /\ \A s \in Sessions : pc[s] = "ended" /\ rep[s] \in {"off", "over"}
  /\ UNCHANGED vars

LoopStep(s) == Forward(s) \/ Leave(s)
SessionStep(s) ==
  \/ OpenUpstream(s) \/ Register(s) \/ Answer(s) \/ LoopStep(s) \/ Write(s)
  \/ Unregister(s) \/ CloseUp(s) \/ ControlEnds(s) \/ ReplyEnds(s)
HubReceives(from) == HubPinned(from) \/ HubPin(from) \/ HubIgnores(from)
Next ==
  \/ \E s \in Sessions : SessionStep(s)
  \/ \E from \in Addrs : HubReceives(from)
  \/ HubDeliver \/ HubDies \/ AllDone

Spec == Init /\ [][Next]_vars

\* Runnable goroutines run, and a select whose done case stays ready takes it in
\* the end (Go chooses at random among the ready cases).  Nothing is assumed of
\* the writes upstream (no deadline is set on them), that of a wsConn's Close
\* included, of clients or of replies.
FairSpec ==
  /\ Spec /\ WF_vars(HubDeliver)
  /\ \A s \in Sessions :
       /\ WF_vars(LoopStep(s)) /\ SF_vars(Leave(s))
       /\ WF_vars(Unregister(s))
       /\ s \notin WSSessions => WF_vars(CloseUp(s))

-----------------------------------------------------------------------------
(* Properties                                                              *)

TypeOK ==
  /\ pending \subseteq Sessions
  /\ byClient \in [Addrs -> Sessions \cup {NoSession}]
  /\ expect \in [Sessions -> HostPorts \cup {NoAddr}]
  /\ client \in [Sessions -> Addrs \cup {NoAddr}]
  /\ ch \in [Sessions -> Seq(Addrs)] /\ \A s \in Sessions : Len(ch[s]) <= ChanCap
  /\ done \in [Sessions -> BOOLEAN]
  /\ pc \in [Sessions -> {"new", "register", "answer", "serve", "write",
                          "unregister", "closeup", "ended"}]
  /\ cur \in [Sessions -> Addrs \cup {NoAddr}]
  /\ rep \in [Sessions -> {"off", "run", "over"}]
  /\ hub \in [at : {"read", "deliver", "dead"}, ses : Sessions \cup {NoSession},
              from : Addrs \cup {NoAddr}]
  /\ fwd \in [Sessions -> SUBSET Addrs]

\* The two indexes of the hub agree: a registered association is either pending
\* and in no table entry, or pinned to an address its control connection
\* and its request allow, found under that address (register, pinLocked,
\* unregister, lookupPinned).  At most one pending wildcard association has an IP:
\* two would lock each other out, dispatch pinning neither.
PinIntegrity ==
  /\ \A s \in pending : Registered(s) /\ client[s] = NoAddr /\ \A a \in Addrs : byClient[a] # s
  /\ \A s \in Sessions : (Registered(s) /\ s \notin pending) =>
       /\ client[s] # NoAddr /\ byClient[client[s]] = s
       /\ IP[client[s]] = Peer[s]
       /\ expect[s] \in {NoAddr, HostPort[client[s]]}
  /\ \A s, t \in pending : (expect[s] = NoAddr /\ expect[t] = NoAddr /\ Peer[s] = Peer[t]) => s = t

\* A closed association is found by dispatch no more, unless a second address,
\* different in the zone only, led to it: lookupPinned stores that alias,
\* unregister does not delete it, and it brings the deleted entry back.
NoGhost ==
  \A s \in Sessions : (\E a \in Addrs : byClient[a] = s) =>
    \/ Registered(s)
    \/ \E b \in Addrs \ {client[s]} : Same(b, client[s]) /\ byClient[b] = s

\* The hub keeps the promise of UdpPins: the datagrams of a client go to one
\* association, pinned by the first of them for life, which forwards nothing else;
\* a wildcard association takes nothing from one that declared the address; and a
\* client already served is never pinned again, whatever zone its address shows.
Stage(s) ==
  IF pc[s] \in {"new", "register"} THEN "new"
  ELSE IF ~Registered(s) THEN "over"
  ELSE IF s \in pending THEN "waiting" ELSE "pinned"

Pins == INSTANCE UdpPins WITH
  Clients <- HostPorts,
  st <- [s \in Sessions |-> Stage(s)],
  want <- expect,
  client <- [s \in Sessions |-> IF client[s] = NoAddr THEN NoAddr ELSE HostPort[client[s]]],
  sent <- [s \in Sessions |-> {HostPort[a] : a \in fwd[s]}]

ImplementsPins == Pins!Spec

\* The one read loop serves every association of the listener: none holds it up for
\* ever, ended or not, except while its own reply to the client or its own write
\* upstream never returns and nothing has ended it.
ReadLoopFree ==
  \A s \in Sessions :
    hub.ses = s ~> (hub.ses # s \/ [](pc[s] \in {"answer", "write"} /\ ~done[s]))

\* When the control connection or the upstream ends, the association ends, even
\* under a flood of datagrams that keeps its channel full.  Two writes can hold it
\* up for ever, having no deadline: that of a datagram, and that of the frame a
\* wsConn's Close sends when the association has left the hub.
AssociationEnds ==
  \A s \in Sessions :
    (pc[s] \in {"serve", "write"} /\ done[s]) ~>
      \/ pc[s] = "ended"
      \/ [](pc[s] = "write")
      \/ s \in WSSessions /\ [](pc[s] = "closeup")
=============================================================================
