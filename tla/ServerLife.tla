------------------------------ MODULE ServerLife ------------------------------
(***************************************************************************)
(* serve.Server of serve/serve.go: Start opens one mixed listener per node *)
(* and per extra, a pool for each reusable node, and the config server     *)
(* last; Close takes everything down.  Listeners die on their own when     *)
(* Accept or the UDP socket fails for good (inbound/mixed.go ListenMixed,  *)
(* hub.go newUDPHub).  What a pool does is SnellPool, what a listener does *)
(* MixedConn and UdpHub.                                                   *)
(***************************************************************************)
EXTENDS Naturals, Sequences

CONSTANT NoPool      \* the listener dials without a pool

ASSUME LifeAssumption == NoPool \notin Nat

VARIABLES
  node, noHTTP,   \* Nodes and Extras: the node of each listener; NoHTTP
  pc,          \* off; Start and Close, which are sequential; up in between
  i,           \* the loop variable of Start and of Close
  tcp, hub,    \* the sockets of a listener: none, open or closed
  dial,        \* the pool a listener dials through
  pools,       \* every pool made: the node it was made for and whether it is open
  byName,      \* poolByName: the pool of each key it has
  maps,        \* Server.maps
  doomed,      \* the pools Close has taken out
  http,        \* the config server: none, open or closed
  closed       \* Server.closed

cfg == <<node, noHTTP>>
poolVars == <<dial, pools, byName>>
sockVars == <<tcp, hub>>
lifeVars == <<cfg, pc, i, sockVars, poolVars, maps, doomed, http, closed>>

L == DOMAIN node

\* poolKey: name, server and port of a node; two nodes may agree in the last two.
poolKey(n) == n.name

\* A server that was not started.
Off ==
  /\ node = <<>> /\ noHTTP = FALSE /\ pc = "off" /\ i = 1
  /\ tcp = <<>> /\ hub = <<>> /\ dial = <<>> /\ pools = <<>> /\ byName = <<>>
  /\ maps = <<>> /\ doomed = {} /\ http = "none" /\ closed = FALSE

\* The process ends: the system closes its sockets.
SwitchOff ==
  /\ node' = <<>> /\ noHTTP' = FALSE /\ pc' = "off" /\ i' = 1
  /\ tcp' = <<>> /\ hub' = <<>> /\ dial' = <<>> /\ pools' = <<>> /\ byName' = <<>>
  /\ maps' = <<>> /\ doomed' = {} /\ http' = "none" /\ closed' = FALSE

-----------------------------------------------------------------------------
(* Start                                                                   *)

\* Start is called for these nodes.
Boot(ns, quiet) ==
  /\ pc = "off"
  /\ node' = ns /\ noHTTP' = quiet /\ pc' = "start"
  /\ tcp' = [l \in DOMAIN ns |-> "none"] /\ hub' = [l \in DOMAIN ns |-> "none"]
  /\ dial' = [l \in DOMAIN ns |-> NoPool]
  /\ UNCHANGED <<i, pools, byName, maps, doomed, http, closed>>

NewPool ==
  LET key == poolKey(node[i])
      new == Len(pools) + 1
  IN /\ pools' = Append(pools, [node |-> node[i], open |-> TRUE])
     /\ dial' = [dial EXCEPT ![i] = new]
     /\ byName' = [k \in DOMAIN byName \cup {key} |-> IF k = key THEN new ELSE byName[k]]

\* Mutant: every listener gets a pool of its own.
DialerFor_Own == IF ~node[i].reuse THEN UNCHANGED poolVars ELSE NewPool

\* dialerFor: the pool of the node's key, made and warmed when there is none.
DialerFor ==
  \/ ~node[i].reuse /\ UNCHANGED poolVars
  \/ /\ node[i].reuse /\ poolKey(node[i]) \in DOMAIN byName
     /\ dial' = [dial EXCEPT ![i] = byName[poolKey(node[i])]]
     /\ UNCHANGED <<pools, byName>>
  \/ /\ node[i].reuse /\ poolKey(node[i]) \notin DOMAIN byName
     /\ NewPool

\* Mutant: a UDP socket that cannot be opened leaves the TCP one behind.
ListenFails_LeavesTCP ==
  \/ UNCHANGED sockVars
  \/ node[i].udp /\ tcp' = [tcp EXCEPT ![i] = "open"] /\ UNCHANGED hub

\* ListenMixed fails on the TCP port, or on the UDP port and closes the TCP one.
ListenFails ==
  \/ UNCHANGED sockVars
  \/ node[i].udp /\ tcp' = [tcp EXCEPT ![i] = "closed"] /\ UNCHANGED hub

ListenOK ==
  /\ tcp' = [tcp EXCEPT ![i] = "open"]
  /\ hub' = IF node[i].udp THEN [hub EXCEPT ![i] = "open"] ELSE hub

\* One turn of the loops over Nodes and Extras.
StartListener ==
  /\ pc = "start" /\ i \in L
  /\ DialerFor
  /\ \/ /\ ListenOK
        /\ maps' = Append(maps, i) /\ i' = i + 1
        /\ UNCHANGED pc
     \/ /\ ListenFails
        /\ pc' = "close"
        /\ UNCHANGED <<maps, i>>
  /\ UNCHANGED <<cfg, doomed, http, closed>>

\* The config server, after the last listener.
StartHTTP ==
  /\ pc = "start" /\ i \notin L
  /\ \/ noHTTP /\ pc' = "up" /\ UNCHANGED http
     \/ ~noHTTP /\ pc' = "up" /\ http' = "open"
     \/ ~noHTTP /\ pc' = "close" /\ UNCHANGED http
  /\ UNCHANGED <<cfg, i, sockVars, poolVars, maps, doomed, closed>>

-----------------------------------------------------------------------------
(* Running                                                                 *)

\* AcceptLoop returns an error: the listener and its hub are closed.
ListenerDies(l) ==
  /\ tcp[l] = "open"
  /\ tcp' = [tcp EXCEPT ![l] = "closed"]
  /\ hub' = [hub EXCEPT ![l] = IF @ = "open" THEN "closed" ELSE @]
  /\ UNCHANGED <<cfg, pc, i, poolVars, maps, doomed, http, closed>>

\* The read loop of the hub returns an error; the TCP listener goes on.
HubDies(l) ==
  /\ hub[l] = "open"
  /\ hub' = [hub EXCEPT ![l] = "closed"]
  /\ UNCHANGED <<cfg, pc, i, tcp, poolVars, maps, doomed, http, closed>>

-----------------------------------------------------------------------------
(* Close, by a failed Start or after the signal                            *)

Signal ==
  /\ pc = "up"
  /\ pc' = "close"
  /\ UNCHANGED <<cfg, i, sockVars, poolVars, maps, doomed, http, closed>>

\* Mutant: the maps are cleared in the first critical section, with the pools.
CloseBegin_ClearsMaps ==
  /\ pc = "close"
  /\ closed' = TRUE /\ doomed' = DOMAIN pools /\ byName' = <<>>
  /\ i' = 1 /\ pc' = "listeners" /\ maps' = <<>>
  /\ UNCHANGED <<cfg, sockVars, dial, pools, http>>

\* Under the lock: the flag, and the lists are taken.
CloseBegin ==
  /\ pc = "close"
  /\ closed' = TRUE /\ doomed' = DOMAIN pools /\ byName' = <<>>
  /\ i' = 1 /\ pc' = "listeners"
  /\ UNCHANGED <<cfg, sockVars, dial, pools, maps, http>>

CloseListener ==
  /\ pc = "listeners"
  /\ IF i <= Len(maps)
     THEN /\ tcp' = [tcp EXCEPT ![maps[i]] = "closed"]
          /\ hub' = [hub EXCEPT ![maps[i]] = IF @ = "open" THEN "closed" ELSE @]
          /\ i' = i + 1 /\ UNCHANGED pc
     ELSE pc' = "http" /\ UNCHANGED <<sockVars, i>>
  /\ UNCHANGED <<cfg, poolVars, maps, doomed, http, closed>>

\* Shutdown for two seconds, then Close.
CloseHTTP ==
  /\ pc = "http"
  /\ http' = IF http = "open" THEN "closed" ELSE http
  /\ pc' = "pools"
  /\ UNCHANGED <<cfg, i, sockVars, poolVars, maps, doomed, closed>>

ClosePools ==
  /\ pc = "pools"
  /\ pools' = [p \in DOMAIN pools |-> [pools[p] EXCEPT !.open = @ /\ p \notin doomed]]
  /\ doomed' = {} /\ pc' = "maps"
  /\ UNCHANGED <<cfg, i, sockVars, dial, byName, maps, http, closed>>

CloseMaps ==
  /\ pc = "maps"
  /\ maps' = <<>> /\ pc' = "down"
  /\ UNCHANGED <<cfg, i, sockVars, poolVars, doomed, http, closed>>

LifeStep ==
  \/ StartListener \/ StartHTTP \/ Signal
  \/ CloseBegin \/ CloseListener \/ CloseHTTP \/ ClosePools \/ CloseMaps
  \/ \E l \in L : ListenerDies(l) \/ HubDies(l)

-----------------------------------------------------------------------------
(* Properties                                                              *)

\* Whatever failed, at whichever listener, and whatever died meanwhile: once
\* Start returned an error or Close returned, no socket, no pool and no config
\* server is left open.
NothingLeft ==
  pc = "down" =>
    /\ \A l \in L : tcp[l] # "open" /\ hub[l] # "open"
    /\ \A p \in DOMAIN pools : ~pools[p].open
    /\ http # "open"

\* Listeners of one node share one pool, and a listener that accepts before
\* Close dials through an open pool made for that very node, its PSK included,
\* which the key of the pools lacks (dialerFor, poolKey; listeners close first).
PoolShared ==
  /\ \A p, r \in DOMAIN pools : (pools[p].open /\ pools[r].open /\ pools[p].node = pools[r].node) => p = r
  /\ \A l \in L : (tcp[l] = "open" /\ node[l].reuse) =>
       dial[l] # NoPool /\ pools[dial[l]] = [node |-> node[l], open |-> TRUE]
=============================================================================
