------------------------------- MODULE UdpProofs -------------------------------
(***************************************************************************)
(* The UDP hub, for any associations and addresses: its two indexes agree, *)
(* a closed association is forgotten, and the hub implements UdpPins.      *)
(***************************************************************************)
EXTENDS UdpHub, TLAPS

-----------------------------------------------------------------------------
(* The inductive invariant: PinIntegrity and NoGhost, and what they need.  *)

Stations == {"new", "register", "answer", "serve", "write", "unregister", "closeup", "ended"}

Typed ==
  /\ pending \subseteq Sessions
  /\ byClient \in [Addrs -> Sessions \cup {NoSession}]
  /\ expect \in [Sessions -> HostPorts \cup {NoAddr}]
  /\ client \in [Sessions -> Addrs \cup {NoAddr}]
  /\ ch \in [Sessions -> Seq(Addrs)] /\ pc \in [Sessions -> Stations]
  /\ cur \in [Sessions -> Addrs \cup {NoAddr}] /\ fwd \in [Sessions -> SUBSET Addrs]
  /\ hub.at = "deliver" => hub.ses \in Sessions /\ hub.from \in Addrs

\* a is an address of the client s is pinned to.
Of(a, s) == client[s] # NoAddr /\ Same(a, client[s])

\* An association that is not registered yet has no client.
Fresh == \A s \in Sessions : pc[s] \in {"new", "register"} => client[s] = NoAddr

\* The table leads to an association from addresses of its client only.
Alias == \A a \in Addrs, s \in Sessions : byClient[a] = s => Of(a, s)

\* And so does the way of a datagram: the read loop, the channel, the loop.
Carried ==
  /\ hub.at = "deliver" => Of(hub.from, hub.ses)
  /\ \A s \in Sessions : \A k \in 1..Len(ch[s]) : Of(ch[s][k], s)
  /\ \A s \in Sessions : pc[s] = "write" => cur[s] \in Addrs /\ Of(cur[s], s)

HubInv == Typed /\ Fresh /\ Alias /\ Carried /\ PinIntegrity /\ NoGhost

\* What the invariant speaks of.
pinned == <<pending, byClient, expect, client, ch, pc, cur, fwd>>

LEMMA InitHub == Init => HubInv
<1>. SUFFICES ASSUME Init PROVE HubInv OBVIOUS
<1>. USE HubAssumption DEF HubAssumption, Init
<1>1. Typed
  BY DEF Typed, Stations, Reading
<1>2. \A s \in Sessions : ~Registered(s) /\ \A a \in Addrs : byClient[a] # s
  BY DEF Registered
<1>3. PinIntegrity /\ NoGhost
  BY <1>2 DEF PinIntegrity, NoGhost
<1>4. Fresh /\ Alias /\ Carried
  BY <1>2 DEF Fresh, Alias, Carried, Reading
<1>. QED BY <1>1, <1>3, <1>4 DEF HubInv

\* Nothing of it changes; the read loop may be done with a datagram.
LEMMA IdleStep ==
  ASSUME HubInv, UNCHANGED pinned, UNCHANGED hub \/ hub' \in {Reading, Dead} PROVE HubInv'
BY DEF HubInv, Typed, Fresh, Alias, Carried, PinIntegrity, NoGhost, pinned, Of, Same, Registered,
       Reading, Dead

\* An association goes on, and is registered as before.
LEMMA GoesOn ==
  ASSUME HubInv, NEW s \in Sessions, NEW l \in Stations \ {"new", "write"}, pc' = [pc EXCEPT ![s] = l],
         l = "register" => pc[s] = "new",
         Registered(s) <=> l \in {"answer", "serve", "write", "unregister"},
         cur' \in [Sessions -> Addrs \cup {NoAddr}], \A t \in Sessions : t # s => cur'[t] = cur[t],
         fwd' \in [Sessions -> SUBSET Addrs], UNCHANGED <<pending, byClient, expect, client, ch, hub>>
  PROVE  HubInv'
<1>1. pc' \in [Sessions -> Stations] /\ \A t \in Sessions : pc'[t] = IF t = s THEN l ELSE pc[t]
  BY DEF HubInv, Typed
<1>2. \A t \in Sessions : Registered(t)' <=> Registered(t)
  BY <1>1 DEF Registered
<1>3. Typed' /\ Fresh' /\ Alias'
  BY <1>1 DEF HubInv, Typed, Fresh, Alias, Of, Same
<1>4. Carried'
  BY <1>1 DEF HubInv, Carried, Of, Same
<1>5. PinIntegrity'
  BY <1>2 DEF HubInv, Typed, PinIntegrity
<1>6. NoGhost'
  BY <1>2 DEF HubInv, NoGhost, Same
<1>. QED BY <1>3, <1>4, <1>5, <1>6 DEF HubInv

\* A new entry of the pending list: the only wildcard of its IP.
LEMMA RegisterStep ==
  ASSUME HubInv, NEW s \in Sessions, pc[s] = "register", NEW e \in HostPorts \cup {NoAddr},
         ~(e = NoAddr /\ WildcardBusy(s)), pending' = pending \cup {s},
         expect' = [expect EXCEPT ![s] = e], Goto(s, "answer"),
         UNCHANGED <<byClient, client, ch, cur, fwd, hub>>
  PROVE  HubInv'
<1>1. /\ pc' \in [Sessions -> Stations] /\ \A t \in Sessions : pc'[t] = IF t = s THEN "answer" ELSE pc[t]
      /\ expect' \in [Sessions -> HostPorts \cup {NoAddr}]
      /\ \A t \in Sessions : expect'[t] = IF t = s THEN e ELSE expect[t]
  BY DEF HubInv, Typed, Goto, Stations
<1>2. \A t \in Sessions : Registered(t)' <=> Registered(t) \/ t = s
  BY <1>1 DEF Registered
<1>3. ~Registered(s) /\ s \notin pending /\ client[s] = NoAddr
  BY DEF HubInv, Fresh, PinIntegrity, Registered
<1>4. Typed' /\ Fresh' /\ Alias'
  BY <1>1 DEF HubInv, Typed, Fresh, Alias, Of, Same
<1>5. Carried'
  BY <1>1 DEF HubInv, Carried, Of, Same
<1>6. PinIntegrity'
  <2>1. \A t \in pending' : Registered(t)' /\ client'[t] = NoAddr /\ \A a \in Addrs : byClient'[a] # t
    BY <1>2, <1>3 DEF HubInv, Typed, Alias, Of, PinIntegrity
  <2>2. \A t \in Sessions : (Registered(t)' /\ t \notin pending') =>
          /\ client'[t] # NoAddr /\ byClient'[client'[t]] = t
          /\ IP[client'[t]] = Peer[t] /\ expect'[t] \in {NoAddr, HostPort[client'[t]]}
    BY <1>1, <1>2 DEF HubInv, PinIntegrity
  <2>3. \A t, r \in pending' :
          (expect'[t] = NoAddr /\ expect'[r] = NoAddr /\ Peer[t] = Peer[r]) => t = r
    BY <1>1, <1>3 DEF HubInv, Typed, PinIntegrity, WildcardBusy
  <2>. QED BY <2>1, <2>2, <2>3 DEF PinIntegrity
<1>7. NoGhost'
  BY <1>2 DEF HubInv, NoGhost, Same
<1>. QED BY <1>4, <1>5, <1>6, <1>7 DEF HubInv

LEMMA ForwardStep == ASSUME HubInv, NEW s \in Sessions, Forward(s) PROVE HubInv'
<1>1. /\ pc[s] = "serve" /\ ch[s] # <<>> /\ cur' = [cur EXCEPT ![s] = Head(ch[s])]
      /\ ch' = [ch EXCEPT ![s] = Tail(@)] /\ pc' = [pc EXCEPT ![s] = "write"]
      /\ UNCHANGED <<pending, byClient, expect, client, fwd, hub>>
  BY DEF Forward, Goto, hubVars
<1>2. ch[s] \in Seq(Addrs) /\ \A k \in 1..Len(ch[s]) : Of(ch[s][k], s)
  BY DEF HubInv, Typed, Carried
<1>3. /\ Head(ch[s]) \in Addrs /\ Tail(ch[s]) \in Seq(Addrs) /\ Of(Head(ch[s]), s)
      /\ \A k \in 1..Len(Tail(ch[s])) : Of(Tail(ch[s])[k], s)
  BY <1>1, <1>2
<1>4. /\ cur' \in [Sessions -> Addrs \cup {NoAddr}] /\ cur'[s] = Head(ch[s])
      /\ \A t \in Sessions \ {s} : cur'[t] = cur[t] /\ ch'[t] = ch[t] /\ pc'[t] = pc[t]
      /\ ch' \in [Sessions -> Seq(Addrs)] /\ ch'[s] = Tail(ch[s])
      /\ pc' \in [Sessions -> Stations] /\ pc'[s] = "write"
  BY <1>1, <1>3 DEF HubInv, Typed, Stations
<1>5. \A t \in Sessions : Registered(t)' <=> Registered(t)
  BY <1>1, <1>4 DEF Registered
<1>6. Typed' /\ Fresh' /\ Alias'
  BY <1>1, <1>4 DEF HubInv, Typed, Fresh, Alias, Of, Same
<1>7. Carried'
  <2>1. \A t \in Sessions : \A a : Of(a, t)' <=> Of(a, t)
    BY <1>1 DEF Of, Same
  <2>2. hub'.at = "deliver" => Of(hub.from, hub.ses)'
    BY <1>1, <2>1 DEF HubInv, Carried, Typed
  <2>3. ASSUME NEW t \in Sessions PROVE \A k \in 1..Len(ch'[t]) : Of(ch[t][k], t)'
    <3>1. CASE t = s
      BY <1>1, <1>3, <1>4, <3>1 DEF Of, Same
    <3>2. CASE t # s
      BY <1>1, <1>4, <3>2 DEF HubInv, Carried, Of, Same
    <3>. QED BY <3>1, <3>2
  <2>4. \A t \in Sessions : pc'[t] = "write" => cur'[t] \in Addrs /\ Of(cur[t], t)'
    BY <1>3, <1>4, <2>1 DEF HubInv, Carried, Of, Same
  <2>. QED BY <2>2, <2>3, <2>4 DEF Carried
<1>8. PinIntegrity'
  BY <1>1, <1>5 DEF HubInv, Typed, PinIntegrity
<1>9. NoGhost'
  BY <1>1, <1>5 DEF HubInv, NoGhost, Same
<1>. QED BY <1>6, <1>7, <1>8, <1>9 DEF HubInv

\* An association leaves both indexes; an alias of its client may stay.
LEMMA UnregisterStep == ASSUME HubInv, NEW s \in Sessions, Unregister(s) PROVE HubInv'
<1>1. /\ pc[s] = "unregister" /\ pending' = pending \ {s}
      /\ byClient' = [a \in Addrs |-> IF a = client[s] THEN NoSession ELSE byClient[a]]
      /\ pc' = [pc EXCEPT ![s] = "closeup"] /\ UNCHANGED <<expect, client, ch, cur, fwd, hub>>
  BY DEF Unregister, Goto
<1>2. pc' \in [Sessions -> Stations] /\ \A t \in Sessions : pc'[t] = IF t = s THEN "closeup" ELSE pc[t]
  BY <1>1 DEF HubInv, Typed, Stations
<1>3. \A t \in Sessions : Registered(t)' <=> Registered(t) /\ t # s
  BY <1>2 DEF Registered
<1>4. Registered(s)
  BY <1>1 DEF Registered
<1>5. \A a \in Addrs : byClient'[a] = IF a = client[s] THEN NoSession ELSE byClient[a]
  BY <1>1
<1>6. \A t \in Sessions, a \in Addrs : byClient'[a] = t => byClient[a] = t
  BY <1>5, HubAssumption DEF HubAssumption
\* The entry that is deleted was its own.
<1>7. client[s] \in Addrs => byClient[client[s]] = s
  BY <1>4, HubAssumption DEF HubAssumption, HubInv, PinIntegrity
<1>8. \A t \in Sessions \ {s}, a \in Addrs : byClient[a] = t => byClient'[a] = t
  BY <1>5, <1>7
<1>9. Typed'
  <2>1. byClient' \in [Addrs -> Sessions \cup {NoSession}]
    BY <1>1 DEF HubInv, Typed
  <2>. QED BY <1>1, <1>2, <2>1 DEF HubInv, Typed
<1>10. Fresh' /\ Alias' /\ Carried'
  BY <1>1, <1>2, <1>6 DEF HubInv, Fresh, Alias, Carried, Of, Same
<1>11. PinIntegrity'
  <2>1. \A t \in pending' : Registered(t)' /\ client'[t] = NoAddr /\ \A a \in Addrs : byClient'[a] # t
    BY <1>1, <1>3, <1>6 DEF HubInv, Typed, PinIntegrity
  <2>2. ASSUME NEW t \in Sessions, Registered(t)', t \notin pending'
        PROVE  /\ client'[t] # NoAddr /\ byClient'[client'[t]] = t
               /\ IP[client'[t]] = Peer[t] /\ expect'[t] \in {NoAddr, HostPort[client'[t]]}
    <3>1. t # s /\ Registered(t) /\ t \notin pending
      BY <1>1, <1>3, <2>2
    <3>. QED BY <1>1, <1>8, <3>1 DEF HubInv, Typed, PinIntegrity
  <2>3. \A t, r \in pending' :
          (expect'[t] = NoAddr /\ expect'[r] = NoAddr /\ Peer[t] = Peer[r]) => t = r
    BY <1>1 DEF HubInv, PinIntegrity
  <2>. QED BY <2>1, <2>2, <2>3 DEF PinIntegrity
<1>12. NoGhost'
  <2>. SUFFICES ASSUME NEW t \in Sessions, NEW a \in Addrs, byClient'[a] = t, ~Registered(t)'
                PROVE  \E b \in Addrs \ {client[t]} : Same(b, client[t]) /\ byClient'[b] = t
    BY <1>1 DEF NoGhost, Same
  <2>1. byClient[a] = t
    BY <1>6
  <2>2. CASE t = s
    <3>1. a # client[s] /\ Same(a, client[s])
      BY <1>5, <2>1, <2>2, HubAssumption DEF HubAssumption, HubInv, Alias, Of
    <3>. QED BY <2>2, <3>1
  <2>3. CASE t # s
    BY <1>3, <1>8, <2>1, <2>3 DEF HubInv, NoGhost
  <2>. QED BY <2>2, <2>3
<1>. QED BY <1>9, <1>10, <1>11, <1>12 DEF HubInv

\* A free address leads to an association of its client now.
LEMMA HubPinnedStep == ASSUME HubInv, NEW from \in Addrs, HubPinned(from) PROVE HubInv'
<1>1. PICK s \in Pinned(from) : byClient' = [byClient EXCEPT ![from] = s] /\ hub' = Deliver(s, from)
  BY DEF HubPinned
<1>2. UNCHANGED <<pending, expect, client, ch, pc, cur, fwd>>
  BY DEF HubPinned, sesVars
<1>3. /\ s \in Sessions /\ Of(from, s) /\ \E a \in Addrs : byClient[a] = s
      /\ byClient[from] \in {s, NoSession}
  BY <1>1 DEF Pinned, HubInv, Typed, Alias, Of, Same
<1>4. /\ byClient' \in [Addrs -> Sessions \cup {NoSession}]
      /\ \A a \in Addrs : byClient'[a] = IF a = from THEN s ELSE byClient[a]
  BY <1>1, <1>3 DEF HubInv, Typed
<1>5. \A t \in Sessions, a \in Addrs : byClient[a] = t => byClient'[a] = t
  BY <1>3, <1>4, HubAssumption DEF HubAssumption
<1>6. Typed' /\ Fresh' /\ Alias'
  BY <1>1, <1>2, <1>3, <1>4 DEF HubInv, Typed, Fresh, Alias, Of, Same, Deliver
<1>7. Carried'
  BY <1>1, <1>2, <1>3 DEF HubInv, Carried, Of, Same, Deliver
<1>8. PinIntegrity'
  <2>1. s \notin pending
    BY <1>3 DEF HubInv, PinIntegrity
  <2>2. \A t \in pending' : Registered(t)' /\ client'[t] = NoAddr /\ \A a \in Addrs : byClient'[a] # t
    BY <1>2, <1>4, <2>1 DEF HubInv, Typed, PinIntegrity, Registered
  <2>3. \A t \in Sessions : (Registered(t)' /\ t \notin pending') =>
          /\ client'[t] # NoAddr /\ byClient'[client'[t]] = t
          /\ IP[client'[t]] = Peer[t] /\ expect'[t] \in {NoAddr, HostPort[client'[t]]}
    BY <1>2, <1>5 DEF HubInv, Typed, PinIntegrity, Registered
  <2>. QED BY <1>2, <2>2, <2>3 DEF PinIntegrity, HubInv
<1>9. NoGhost'
  <2>. SUFFICES ASSUME NEW t \in Sessions, NEW a \in Addrs, byClient'[a] = t, ~Registered(t)
                PROVE  \E b \in Addrs \ {client[t]} : Same(b, client[t]) /\ byClient'[b] = t
    BY <1>2 DEF NoGhost, Same, Registered
  <2>1. \E b \in Addrs : byClient[b] = t
    BY <1>3, <1>4
  <2>. QED BY <1>5, <2>1 DEF HubInv, NoGhost
<1>. QED BY <1>6, <1>7, <1>8, <1>9 DEF HubInv

\* What dispatch pins is allowed to have the address, and has not had one.
LEMMA CandidateOf ==
  ASSUME HubInv, NEW from \in Addrs, NEW s \in Candidates(from)
  PROVE  /\ s \in pending /\ s \in Sessions /\ Registered(s) /\ client[s] = NoAddr
         /\ Peer[s] = IP[from] /\ expect[s] \in {NoAddr, HostPort[from]}
         /\ \A a \in Addrs : byClient[a] # s
BY DEF Candidates, Exact, Wild, Matching, HubInv, Typed, PinIntegrity

LEMMA HubPinStep == ASSUME HubInv, NEW from \in Addrs, HubPin(from) PROVE HubInv'
<1>1. PICK s \in Candidates(from) :
        /\ client' = [client EXCEPT ![s] = from] /\ byClient' = [byClient EXCEPT ![from] = s]
        /\ pending' = pending \ {s} /\ hub' = Deliver(s, from)
  BY DEF HubPin
<1>2. UNCHANGED <<expect, ch, pc, cur, fwd>> /\ byClient[from] = NoSession
  BY DEF HubPin, sesVars, Pinned
<1>3. /\ s \in pending /\ s \in Sessions /\ Registered(s) /\ client[s] = NoAddr
      /\ Peer[s] = IP[from] /\ expect[s] \in {NoAddr, HostPort[from]}
      /\ \A a \in Addrs : byClient[a] # s
  BY CandidateOf
<1>4. /\ byClient' \in [Addrs -> Sessions \cup {NoSession}]
      /\ \A a \in Addrs : byClient'[a] = IF a = from THEN s ELSE byClient[a]
      /\ client' \in [Sessions -> Addrs \cup {NoAddr}]
      /\ \A t \in Sessions : client'[t] = IF t = s THEN from ELSE client[t]
  BY <1>1, <1>3 DEF HubInv, Typed
<1>5. \A t \in Sessions, a \in Addrs : byClient[a] = t => byClient'[a] = t
  BY <1>2, <1>4, HubAssumption DEF HubAssumption
<1>6. from # NoAddr
  BY HubAssumption DEF HubAssumption
<1>7. Typed'
  BY <1>1, <1>2, <1>3, <1>4 DEF HubInv, Typed, Deliver
<1>8. Fresh' /\ Alias'
  BY <1>2, <1>3, <1>4, <1>6 DEF HubInv, Fresh, Alias, Of, Same, Registered
<1>9. Carried'
  <2>1. \A t \in Sessions : \A a : Of(a, t) => Of(a, t)'
    BY <1>3, <1>4 DEF Of, Same
  <2>2. Of(hub.from, hub.ses)'
    BY <1>1, <1>3, <1>4, <1>6 DEF Of, Same, Deliver
  <2>3. \A t \in Sessions : \A k \in 1..Len(ch'[t]) : Of(ch[t][k], t)'
    BY <1>2, <2>1 DEF HubInv, Carried, Of, Same
  <2>4. \A t \in Sessions : pc'[t] = "write" => cur'[t] \in Addrs /\ Of(cur[t], t)'
    BY <1>2, <2>1 DEF HubInv, Carried, Of, Same
  <2>. QED BY <2>2, <2>3, <2>4 DEF Carried, Of, Same
<1>10. PinIntegrity'
  <2>1. \A t \in pending' : Registered(t)' /\ client'[t] = NoAddr /\ \A a \in Addrs : byClient'[a] # t
    BY <1>1, <1>2, <1>4 DEF HubInv, Typed, PinIntegrity, Registered
  <2>2. ASSUME NEW t \in Sessions, Registered(t)', t \notin pending'
        PROVE  /\ client'[t] # NoAddr /\ byClient'[client'[t]] = t
               /\ IP[client'[t]] = Peer[t] /\ expect'[t] \in {NoAddr, HostPort[client'[t]]}
    <3>1. CASE t = s
      BY <1>2, <1>3, <1>4, <1>6, <3>1
    <3>2. CASE t # s
      <4>1. Registered(t) /\ t \notin pending
        BY <1>1, <1>2, <2>2, <3>2 DEF Registered
      <4>. QED BY <1>2, <1>4, <1>5, <3>2, <4>1 DEF HubInv, Typed, PinIntegrity
    <3>. QED BY <3>1, <3>2
  <2>3. \A t, r \in pending' :
          (expect'[t] = NoAddr /\ expect'[r] = NoAddr /\ Peer[t] = Peer[r]) => t = r
    BY <1>1, <1>2 DEF HubInv, PinIntegrity
  <2>. QED BY <2>1, <2>2, <2>3 DEF PinIntegrity
<1>11. NoGhost'
  <2>. SUFFICES ASSUME NEW t \in Sessions, NEW a \in Addrs, byClient'[a] = t, ~Registered(t)
                PROVE  \E b \in Addrs \ {client'[t]} : Same(b, client'[t]) /\ byClient'[b] = t
    BY <1>2 DEF NoGhost, Same, Registered
  <2>1. t # s /\ byClient[a] = t /\ client'[t] = client[t]
    BY <1>3, <1>4
  <2>. QED BY <1>5, <2>1 DEF HubInv, NoGhost
<1>. QED BY <1>7, <1>8, <1>9, <1>10, <1>11 DEF HubInv

LEMMA HubDeliverStep == ASSUME HubInv, HubDeliver PROVE HubInv'
<1>1. /\ hub.at = "deliver" /\ hub.ses \in Sessions /\ hub.from \in Addrs /\ Of(hub.from, hub.ses)
      /\ hub' = Reading /\ UNCHANGED <<pending, byClient, expect, client, pc, cur, fwd>>
  BY DEF HubDeliver, HubInv, Typed, Carried, sesVars
<1>2. CASE UNCHANGED ch
  BY <1>1, <1>2, IdleStep DEF pinned
<1>3. CASE ch' = [ch EXCEPT ![hub.ses] = Append(@, hub.from)]
  <2>1. ch[hub.ses] \in Seq(Addrs)
    BY <1>1 DEF HubInv, Typed
  <2>2. /\ ch' \in [Sessions -> Seq(Addrs)] /\ ch'[hub.ses] = Append(ch[hub.ses], hub.from)
        /\ \A t \in Sessions \ {hub.ses} : ch'[t] = ch[t]
    BY <1>1, <1>3, <2>1 DEF HubInv, Typed
  <2>3. \A k \in 1..Len(ch'[hub.ses]) : Of(ch'[hub.ses][k], hub.ses)
    <3>1. \A k \in 1..Len(ch[hub.ses]) : Of(ch[hub.ses][k], hub.ses)
      BY <1>1 DEF HubInv, Carried
    <3>. QED BY <1>1, <2>1, <2>2, <3>1
  <2>4. \A t \in Sessions : \A k \in 1..Len(ch'[t]) : Of(ch[t][k], t)'
    <3>. TAKE t \in Sessions
    <3>1. CASE t = hub.ses
      BY <1>1, <2>3, <3>1 DEF Of, Same
    <3>2. CASE t # hub.ses
      BY <1>1, <2>2, <3>2 DEF HubInv, Carried, Of, Same
    <3>. QED BY <3>1, <3>2
  <2>5. Carried'
    BY <1>1, <2>4 DEF HubInv, Carried, Of, Same, Reading
  <2>6. Typed'
    BY <1>1, <2>2 DEF HubInv, Typed, Reading
  <2>. QED
    BY <1>1, <2>5, <2>6 DEF HubInv, Fresh, Alias, PinIntegrity, NoGhost, Of, Same, Registered
<1>. QED BY <1>2, <1>3 DEF HubDeliver

LEMMA NextHub == HubInv /\ [Next]_vars => HubInv'
<1>. SUFFICES ASSUME HubInv, [Next]_vars PROVE HubInv' OBVIOUS
<1>. USE DEF hubVars, sesVars
<1>1. ASSUME NEW s \in Sessions, SessionStep(s) PROVE HubInv'
  <2>. DEFINE Goes(l) ==
         /\ pc' = [pc EXCEPT ![s] = l] /\ cur' \in [Sessions -> Addrs \cup {NoAddr}]
         /\ \A t \in Sessions : t # s => cur'[t] = cur[t]
         /\ fwd' \in [Sessions -> SUBSET Addrs]
         /\ UNCHANGED <<pending, byClient, expect, client, ch, hub>>
  <2>1. cur \in [Sessions -> Addrs \cup {NoAddr}] /\ fwd \in [Sessions -> SUBSET Addrs]
    BY DEF HubInv, Typed
  <2>2. CASE OpenUpstream(s)
    <3>1. \E l \in {"register", "ended"} : Goes(l) /\ pc[s] = "new"
      BY <2>1, <2>2 DEF OpenUpstream, Goto
    <3>. QED BY <3>1, GoesOn DEF Registered, Stations
  <2>3. CASE Register(s)
    <3>1. PICK e \in HostPorts \cup {NoAddr} :
            IF e = NoAddr /\ WildcardBusy(s)
            THEN Goto(s, "closeup") /\ UNCHANGED <<pending, expect>>
            ELSE /\ pending' = pending \cup {s} /\ expect' = [expect EXCEPT ![s] = e]
                 /\ Goto(s, "answer")
      BY <2>3 DEF Register
    <3>2. pc[s] = "register" /\ UNCHANGED <<byClient, client, ch, cur, fwd, hub>>
      BY <2>3 DEF Register
    <3>3. CASE e = NoAddr /\ WildcardBusy(s)
      BY <2>1, <3>1, <3>2, <3>3, GoesOn DEF Goto, Registered, Stations
    <3>4. CASE ~(e = NoAddr /\ WildcardBusy(s))
      BY <3>1, <3>2, <3>4, RegisterStep
    <3>. QED BY <3>3, <3>4
  <2>4. CASE Answer(s) \/ Leave(s) \/ CloseUp(s)
    <3>1. \E l \in {"serve", "unregister", "ended"} :
            Goes(l) /\ pc[s] = (IF l = "ended" THEN "closeup" ELSE IF Answer(s) THEN "answer" ELSE "serve")
      BY <2>1, <2>4 DEF Answer, Leave, CloseUp, Goto
    <3>. QED BY <3>1, GoesOn DEF Registered, Stations
  <2>5. CASE Write(s)
    <3>1. /\ pc[s] = "write" /\ cur' = [cur EXCEPT ![s] = NoAddr] /\ cur[s] \in Addrs
          /\ fwd' = fwd \/ fwd' = [fwd EXCEPT ![s] = @ \cup {cur[s]}]
          /\ \E l \in {"serve", "unregister"} : pc' = [pc EXCEPT ![s] = l]
          /\ UNCHANGED <<pending, byClient, expect, client, ch, hub>>
      BY <2>5 DEF Write, Goto, HubInv, Carried
    <3>2. \E l \in {"serve", "unregister"} : Goes(l)
      BY <2>1, <3>1
    <3>. QED BY <3>1, <3>2, GoesOn DEF Registered, Stations
  <2>6. CASE ControlEnds(s) \/ ReplyEnds(s)
    BY <2>6, IdleStep DEF ControlEnds, ReplyEnds, pinned
  <2>. QED
    BY <1>1, <2>2, <2>3, <2>4, <2>5, <2>6, ForwardStep, UnregisterStep DEF SessionStep, LoopStep
<1>2. ASSUME NEW from \in Addrs, HubReceives(from) PROVE HubInv'
  <2>1. CASE HubIgnores(from)
    BY <2>1, IdleStep DEF HubIgnores, pinned
  <2>. QED BY <1>2, <2>1, HubPinnedStep, HubPinStep DEF HubReceives
<1>3. CASE HubDies
  BY <1>3, IdleStep DEF HubDies, pinned
<1>4. CASE AllDone \/ UNCHANGED vars
  BY <1>4, IdleStep DEF AllDone, vars, pinned
<1>. QED BY <1>1, <1>2, <1>3, <1>4, HubDeliverStep DEF Next

\* The inductive invariant holds.
THEOREM HubInvariant == Spec => []HubInv
<1>. QED BY InitHub, NextHub, PTL DEF Spec

\* The two indexes of the hub agree, and no two wildcard associations of an IP
\* wait at once (register, pinLocked, unregister, lookupPinned).
THEOREM IndexesAgree == Spec => []PinIntegrity
<1>1. HubInv => PinIntegrity
  BY DEF HubInv
<1>. QED BY <1>1, HubInvariant, PTL

\* A closed association is found no more but under a stored alias (unregister).
THEOREM Forgotten == Spec => []NoGhost
<1>1. HubInv => NoGhost
  BY DEF HubInv
<1>. QED BY <1>1, HubInvariant, PTL

-----------------------------------------------------------------------------
(* The refinement: what an association is to UdpPins.                      *)

Stages == [s \in Sessions |-> Stage(s)]
Served == [s \in Sessions |-> IF client[s] = NoAddr THEN NoAddr ELSE HostPort[client[s]]]
Sent == [s \in Sessions |-> {HostPort[a] : a \in fwd[s]}]
abstract == <<Stages, expect, Served, Sent>>

LEMMA HostIPOf == ASSUME NEW a \in Addrs PROVE HostPort[a] \in HostPorts /\ HostIP[HostPort[a]] = IP[a]
<1>. DEFINE b == CHOOSE x \in Addrs : HostPort[x] = HostPort[a]
<1>1. b \in Addrs /\ HostPort[b] = HostPort[a]
  OBVIOUS
<1>2. HostPort[a] \in HostPorts /\ HostIP[HostPort[a]] = IP[b]
  BY DEF HostPorts, HostIP
<1>. QED BY <1>1, <1>2, HubAssumption DEF HubAssumption

\* What an association waits for, in the hub and in UdpPins.
LEMMA WaitingIs ==
  ASSUME HubInv, NEW c, NEW ip
  PROVE  {t \in Sessions : Stages[t] = "waiting" /\ expect[t] = c /\ Peer[t] = ip} = Matching(c, ip)
BY DEF HubInv, Typed, PinIntegrity, Stages, Stage, Matching, Registered

\* The stage, the address and what was sent change for one association at most.
LEMMA StageMoves ==
  ASSUME NEW s \in Sessions, \A t \in Sessions \ {s} : Stage(t)' = Stage(t)
  PROVE  Stages' = [Stages EXCEPT ![s] = Stage(s)']
BY DEF Stages

LEMMA Stutters ==
  ASSUME UNCHANGED <<expect, client, fwd>>, \A s \in Sessions : Stage(s)' = Stage(s)
  PROVE  UNCHANGED abstract
BY DEF abstract, Stages, Served, Sent

\* The abstract steps, in terms of the hub.
LEMMA Abstract ==
  ASSUME NEW s \in Sessions
  PROVE  /\ \A c \in HostPorts \cup {NoAddr} :
              (/\ Stages[s] = "new" /\ Stages' = [Stages EXCEPT ![s] = "waiting"]
               /\ (c = NoAddr => {t \in Sessions : Stages[t] = "waiting" /\ expect[t] = NoAddr
                                                     /\ Peer[t] = Peer[s]} = {})
               /\ expect' = [expect EXCEPT ![s] = c] /\ Served' = Served /\ Sent' = Sent)
              => Pins!Accept(s, c)
         /\ (/\ Stages[s] # "over" /\ Stages' = [Stages EXCEPT ![s] = "over"]
             /\ expect' = expect /\ Served' = Served /\ Sent' = Sent)
            => Pins!End(s)
         /\ (/\ Stages[s] = "pinned" /\ Sent' = [Sent EXCEPT ![s] = @ \cup {Served[s]}]
             /\ Stages' = Stages /\ expect' = expect /\ Served' = Served)
            => Pins!Forward(s)
BY DEF Pins!Accept, Pins!End, Pins!Forward, Pins!Enter, Pins!WaitingFor, Stages, Served, Sent

\* An association goes on within its stage, or is over.
LEMMA GoesOnRefines ==
  ASSUME HubInv, NEW s \in Sessions, NEW l, pc' = [pc EXCEPT ![s] = l], UNCHANGED <<expect, client, fwd>>,
         pending' \in {pending, pending \ {s}}, Stage(s)' \in {Stage(s), "over"}
  PROVE  Pins!End(s) \/ UNCHANGED abstract
<1>1. \A t \in Sessions \ {s} : Stage(t)' = Stage(t)
  BY DEF HubInv, Typed, Stage, Registered
<1>2. CASE Stage(s)' = Stage(s)
  BY <1>1, <1>2, Stutters
<1>3. CASE Stage(s)' = "over" /\ Stage(s) # "over"
  <2>1. Stages' = [Stages EXCEPT ![s] = "over"] /\ Stages[s] # "over"
    BY <1>1, <1>3, StageMoves DEF Stages
  <2>2. Served' = Served /\ Sent' = Sent
    BY DEF Served, Sent
  <2>. QED BY <2>1, <2>2, Abstract
<1>. QED BY <1>2, <1>3

\* register is Accept.
LEMMA RegisterRefines ==
  ASSUME HubInv, NEW s \in Sessions, pc[s] = "register", NEW e \in HostPorts \cup {NoAddr},
         ~(e = NoAddr /\ WildcardBusy(s)), pending' = pending \cup {s},
         expect' = [expect EXCEPT ![s] = e], Goto(s, "answer"), UNCHANGED <<client, fwd>>
  PROVE  Pins!Accept(s, e)
<1>1. \A t \in Sessions : pc'[t] = IF t = s THEN "answer" ELSE pc[t]
  BY DEF HubInv, Typed, Goto
<1>2. Stage(s) = "new" /\ Stage(s)' = "waiting" /\ \A t \in Sessions \ {s} : Stage(t)' = Stage(t)
  BY <1>1 DEF Stage, Registered
<1>3. Stages[s] = "new" /\ Stages' = [Stages EXCEPT ![s] = "waiting"]
  BY <1>2, StageMoves DEF Stages
<1>4. Served' = Served /\ Sent' = Sent
  BY DEF Served, Sent
<1>5. e = NoAddr => Matching(NoAddr, Peer[s]) = {}
  BY DEF WildcardBusy, Matching
<1>. QED BY <1>3, <1>4, <1>5, WaitingIs, Abstract

\* A write upstream is Forward: the datagram came from the client it is pinned to.
LEMMA WriteRefines ==
  ASSUME HubInv, NEW s \in Sessions, pc[s] = "write", Goto(s, "serve"),
         fwd' = [fwd EXCEPT ![s] = @ \cup {cur[s]}], UNCHANGED <<pending, expect, client>>
  PROVE  Pins!Forward(s)
<1>1. cur[s] \in Addrs /\ client[s] # NoAddr /\ HostPort[cur[s]] = HostPort[client[s]]
  BY DEF HubInv, Carried, Of, Same
<1>2. \A t \in Sessions : Stage(t)' = Stage(t)
  BY DEF HubInv, Typed, Goto, Stage, Registered
<1>3. Stage(s) = "pinned"
  BY <1>1 DEF HubInv, PinIntegrity, Stage, Registered
<1>4. /\ Stages[s] = "pinned" /\ Stages' = Stages /\ Served' = Served
      /\ Served[s] = HostPort[client[s]]
  BY <1>1, <1>2, <1>3 DEF Stages, Served
<1>5. \A t \in Sessions : fwd'[t] = IF t = s THEN fwd[s] \cup {cur[s]} ELSE fwd[t]
  BY DEF HubInv, Typed
<1>6. {HostPort[a] : a \in fwd'[s]} = {HostPort[a] : a \in fwd[s]} \cup {HostPort[client[s]]}
  BY <1>1, <1>5
<1>7. Sent' = [Sent EXCEPT ![s] = @ \cup {Served[s]}]
  BY <1>4, <1>5, <1>6 DEF Sent
<1>. QED BY <1>4, <1>7, Abstract

\* pinLocked is Pin: the client is served by nobody, or lookupPinned had found it.
LEMMA HubPinRefines == ASSUME HubInv, NEW from \in Addrs, HubPin(from) PROVE Pins!Next
<1>. DEFINE c == HostPort[from]
<1>1. PICK s \in Candidates(from) :
        client' = [client EXCEPT ![s] = from] /\ pending' = pending \ {s}
  BY DEF HubPin
<1>2. UNCHANGED <<expect, pc, fwd>> /\ byClient[from] = NoSession /\ Pinned(from) = {}
  BY DEF HubPin, sesVars, Pinned
<1>3. s \in pending /\ s \in Sessions /\ Registered(s) /\ client[s] = NoAddr /\ Peer[s] = IP[from]
  BY CandidateOf
<1>4. c \in HostPorts /\ HostIP[c] = IP[from]
  BY HostIPOf
<1>5. Stage(s) = "waiting" /\ Stage(s)' = "pinned" /\ \A t \in Sessions \ {s} : Stage(t)' = Stage(t)
  BY <1>1, <1>2, <1>3 DEF Stage, Registered
<1>6. Stages[s] = "waiting" /\ Stages' = [Stages EXCEPT ![s] = "pinned"]
  BY <1>3, <1>5, StageMoves DEF Stages
<1>7. \A t \in Sessions : Stages[t] = "pinned" => Served[t] # c
  <2>. SUFFICES ASSUME NEW t \in Sessions, Stage(t) = "pinned", Served[t] = c PROVE FALSE
    BY DEF Stages
  <2>1. Registered(t) /\ t \notin pending
    BY DEF Stage
  <2>2. client[t] \in Addrs /\ client[t] # NoAddr /\ byClient[client[t]] = t
    BY <2>1 DEF HubInv, Typed, PinIntegrity
  <2>3. HostPort[client[t]] = c
    BY <2>2 DEF Served
  <2>4. t \in Pinned(from)
    BY <1>2, <2>2, <2>3 DEF Pinned, Same
  <2>. QED BY <1>2, <2>4
<1>8. Matching(c, HostIP[c]) = {s} \/ (expect[s] = NoAddr /\ Matching(c, HostIP[c]) = {})
  BY <1>4 DEF Candidates, Exact, Wild, Matching
<1>9. Served' = [Served EXCEPT ![s] = c] /\ Sent' = Sent
  <2>1. \A t \in Sessions : client'[t] = IF t = s THEN from ELSE client[t]
    BY <1>1, <1>3 DEF HubInv, Typed
  <2>2. from # NoAddr
    BY HubAssumption DEF HubAssumption
  <2>. QED BY <1>2, <1>3, <2>1, <2>2 DEF Served, Sent
<1>10. Pins!Pin(s, c)
  <2>. HIDE DEF c
  <2>1. {t \in Sessions : Stages[t] = "waiting" /\ expect[t] = c /\ Peer[t] = HostIP[c]}
          = Matching(c, HostIP[c])
    BY WaitingIs
  <2>. QED
    BY <1>2, <1>3, <1>4, <1>6, <1>7, <1>8, <1>9, <2>1
    DEF Pins!Pin, Pins!Enter, Pins!WaitingFor, Stages, Served, Sent
<1>. QED BY <1>3, <1>4, <1>10 DEF Pins!Next

LEMMA SessionRefines ==
  ASSUME HubInv, NEW s \in Sessions, SessionStep(s) PROVE Pins!Next \/ UNCHANGED abstract
<1>. USE DEF hubVars, sesVars
<1>0. pc \in [Sessions -> Stations]
  BY DEF HubInv, Typed
<1>1. CASE OpenUpstream(s) \/ Answer(s) \/ Leave(s) \/ CloseUp(s) \/ Forward(s) \/ Unregister(s)
  <2>1. \E l \in Stations :
          /\ pc' = [pc EXCEPT ![s] = l] /\ UNCHANGED <<expect, client, fwd>>
          /\ pending' \in {pending, pending \ {s}} /\ Stage(s)' \in {Stage(s), "over"}
    BY <1>0, <1>1
    DEF OpenUpstream, Answer, Leave, CloseUp, Forward, Unregister, Goto, Stage, Registered, Stations
  <2>. QED BY <2>1, GoesOnRefines DEF Pins!Next
<1>2. CASE Register(s)
  <2>1. PICK e \in HostPorts \cup {NoAddr} :
          IF e = NoAddr /\ WildcardBusy(s)
          THEN Goto(s, "closeup") /\ UNCHANGED <<pending, expect>>
          ELSE /\ pending' = pending \cup {s} /\ expect' = [expect EXCEPT ![s] = e]
               /\ Goto(s, "answer")
    BY <1>2 DEF Register
  <2>2. pc[s] = "register" /\ UNCHANGED <<client, fwd>>
    BY <1>2 DEF Register
  <2>3. CASE e = NoAddr /\ WildcardBusy(s)
    <3>1. Stage(s)' = "over"
      BY <1>0, <2>1, <2>3 DEF Goto, Stage, Registered
    <3>. QED BY <2>1, <2>2, <2>3, <3>1, GoesOnRefines DEF Goto, Pins!Next
  <2>4. CASE ~(e = NoAddr /\ WildcardBusy(s))
    BY <2>1, <2>2, <2>4, RegisterRefines DEF Pins!Next
  <2>. QED BY <2>3, <2>4
<1>3. CASE Write(s)
  <2>1. CASE Goto(s, "serve") /\ fwd' = [fwd EXCEPT ![s] = @ \cup {cur[s]}]
    BY <1>3, <2>1, WriteRefines DEF Write, Pins!Next
  <2>2. CASE Goto(s, "unregister") /\ UNCHANGED fwd
    <3>1. Stage(s)' = Stage(s) /\ UNCHANGED <<expect, client, pending>>
      BY <1>0, <1>3, <2>2 DEF Write, Goto, Stage, Registered
    <3>. QED BY <2>2, <3>1, GoesOnRefines DEF Goto, Pins!Next
  <2>. QED BY <1>3, <2>1, <2>2 DEF Write
<1>4. CASE ControlEnds(s) \/ ReplyEnds(s)
  BY <1>4, Stutters DEF ControlEnds, ReplyEnds, Stage, Registered
<1>. QED BY <1>1, <1>2, <1>3, <1>4 DEF SessionStep, LoopStep

LEMMA NextRefines == HubInv /\ [Next]_vars => [Pins!Next]_abstract
<1>. SUFFICES ASSUME HubInv, [Next]_vars PROVE Pins!Next \/ UNCHANGED abstract OBVIOUS
<1>1. ASSUME NEW from \in Addrs, HubPinned(from) \/ HubIgnores(from) PROVE UNCHANGED abstract
  BY <1>1, Stutters DEF HubPinned, HubIgnores, sesVars, Stage, Registered
<1>2. CASE HubDeliver \/ HubDies \/ AllDone \/ UNCHANGED vars
  BY <1>2, Stutters DEF HubDeliver, HubDies, AllDone, vars, hubVars, sesVars, Stage, Registered
<1>. QED BY <1>1, <1>2, SessionRefines, HubPinRefines DEF Next, HubReceives

\* The hub implements UdpPins: one client per association, its own from the first
\* datagram to the last, and one association per client (register, dispatch,
\* unregister, serveUDPAssociate).
THEOREM HubImplements == Spec => ImplementsPins
<1>1. Init => Pins!Init
  <2>. SUFFICES ASSUME Init PROVE Pins!Init OBVIOUS
  <2>1. Stages = [s \in Sessions |-> "new"]
    BY DEF Init, Stages, Stage
  <2>2. /\ Served = [s \in Sessions |-> NoAddr] /\ Sent = [s \in Sessions |-> {}]
        /\ expect = [s \in Sessions |-> NoAddr]
    BY DEF Init, Served, Sent
  <2>. QED BY <2>1, <2>2 DEF Pins!Init, Stages, Served, Sent
<1>2. HubInv /\ [Next]_vars => [Pins!Next]_(Pins!pinVars)
  BY NextRefines DEF Pins!pinVars, abstract, Stages, Served, Sent
<1>. QED BY <1>1, <1>2, HubInvariant, PTL DEF Spec, ImplementsPins, Pins!Spec
=============================================================================
