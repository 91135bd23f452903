------------------------------- MODULE NodeDial -------------------------------
(***************************************************************************)
(* One dial of a node without a pool: Dial and dialTransport of            *)
(* dialer/ech.go and ListenPacket of dialer/packet.go, from the lookup to  *)
(* the open session, within the 20 s of the caller's context.  What a      *)
(* lookup does is DnsRace and DnsFlight; a TCP Fast Open connection        *)
(* (TfoConn) walks the same addresses, only later, in the handshake.       *)
(***************************************************************************)
EXTENDS Naturals, Sequences

CONSTANT MaxAddrs    \* bound: addresses of a server

ASSUME DialAssumption == MaxAddrs \in Nat \ {0}

VARIABLES
  net,         \* tcp or udp
  nd,          \* of the node: a WebSocket path; LegacyFallback and another ALPN than
               \* http/1.1; identity version 1
  ph,          \* where the dial is: idle, ..., ok, err, over
  try,         \* the first handshake or the fallback
  left,        \* addresses dialTCP has still to try
  socks,       \* sockets open
  late,        \* the context is done
  keyed,       \* the keying material could be exported, or is not needed
  shook,       \* a TLS handshake was completed (history)
  log          \* of each handshake: addresses found and tried, and whether one
               \* connected (history)

dialVars == <<net, nd, ph, try, left, socks, late, keyed, shook, log>>
histVars == <<shook, log>>

NoNode == [path |-> FALSE, legacy |-> FALSE, v1 |-> FALSE]

DialInit ==
  /\ net = "tcp" /\ nd = NoNode
  /\ ph = "idle" /\ try = 1 /\ left = 0 /\ socks = 0 /\ late = FALSE
  /\ keyed = FALSE /\ shook = FALSE /\ log = <<>>

\* A handler calls Dial, or the association ListenPacket.
DialStarts(n) ==
  /\ ph = "idle" /\ net' = n
  /\ nd' \in [path : BOOLEAN, legacy : BOOLEAN, v1 : BOOLEAN]
  /\ ph' = "lookup"
  /\ UNCHANGED <<try, left, socks, late, keyed, histVars>>

\* context.WithTimeout of serve.go.
Expires ==
  /\ ph \notin {"idle", "ok", "err", "over"} /\ ~late
  /\ late' = TRUE
  /\ UNCHANGED <<net, nd, ph, try, left, socks, keyed, histVars>>

-----------------------------------------------------------------------------
(* handshakeUTLSRaw                                                        *)

\* Mutant: the fallback is for TLS errors only.
AttemptFails_NoRetry ==
  IF try = 1 /\ nd.legacy /\ nd.path /\ ph = "shake"
  THEN ph' = "lookup" /\ try' = 2 ELSE ph' = "err" /\ UNCHANGED try

\* Its error: once more with http/1.1, whatever went wrong, if the node allows it.
AttemptFails ==
  IF try = 1 /\ nd.legacy /\ nd.path
  THEN ph' = "lookup" /\ try' = 2 ELSE ph' = "err" /\ UNCHANGED try

Log(found, tried, connected) ==
  log' = Append(SubSeq(log, 1, try - 1), [found |-> found, tried |-> tried, connected |-> connected])

\* Destinations, once per handshake; the cache may answer when the context is done.
Destinations ==
  /\ ph = "lookup"
  /\ \/ AttemptFails /\ Log(0, 0, FALSE) /\ UNCHANGED left
     \/ \E n \in 1..MaxAddrs :
          /\ ph' = "connect" /\ left' = n
          /\ Log(n, 0, FALSE) /\ UNCHANGED try
  /\ UNCHANGED <<net, nd, socks, late, keyed, shook>>

\* Mutant: the first address that refuses ends the loop.
Refused_Stops == left' = 0 /\ AttemptFails

\* The next address, or the error of the last one.
Refused ==
  /\ left' = left - 1
  /\ IF left = 1 THEN AttemptFails ELSE UNCHANGED <<ph, try>>

\* One turn of the loop of dialTCP: the first address that connects.
Connect ==
  LET found == log[try].found
      tried == found - left + 1
  IN
  /\ ph = "connect"
  /\ \/ /\ ~late /\ ph' = "shake" /\ socks' = socks + 1
        /\ Log(found, tried, TRUE) /\ UNCHANGED <<try, left>>
     \/ Refused /\ Log(found, tried, FALSE) /\ UNCHANGED socks
  /\ UNCHANGED <<net, nd, late, keyed, shook>>

\* Mutant: the connection of a failed handshake is left to the garbage collector.
ShakeFails_Open == ph = "shake" /\ AttemptFails /\ UNCHANGED <<net, nd, left, socks, late, keyed, histVars>>

\* A bad ech-config or fingerprint, or the handshake fails: closed, and an error.
ShakeFails ==
  /\ ph = "shake" /\ AttemptFails
  /\ socks' = socks - 1
  /\ UNCHANGED <<net, nd, left, late, keyed, histVars>>

-----------------------------------------------------------------------------
(* dialTransport after the handshake                                       *)

GivesUp == ph' = "err" /\ socks' = socks - 1

\* What the server chose, and whether exportFromConn gets the keying material.
ShakeOK ==
  /\ ph = "shake" /\ ~late
  /\ shook' = TRUE
  /\ \E alpn \in {"snell-ech/1", "http/1.1", "", "h2"}, exported \in BOOLEAN :
       LET upgrade == nd.path /\ alpn \in {"http/1.1", ""}
       IN /\ keyed' = (nd.v1 \/ exported)
          /\ \/ upgrade /\ ph' = "upgrade" /\ UNCHANGED socks
             \/ ~upgrade /\ alpn # "h2" /\ keyed' /\ ph' = "open" /\ UNCHANGED socks
             \/ ~upgrade /\ (alpn = "h2" \/ ~keyed') /\ GivesUp
  /\ UNCHANGED <<net, nd, try, left, late, log>>

\* Mutant: a refused upgrade leaves the TLS connection open.
Upgrade_Open ==
  /\ ph = "upgrade"
  /\ \/ ~late /\ keyed /\ ph' = "open" /\ UNCHANGED socks
     \/ ~late /\ ~keyed /\ GivesUp
     \/ ph' = "err" /\ UNCHANGED socks
  /\ UNCHANGED <<net, nd, try, left, late, keyed, histVars>>

\* Mutant: the upgrade has no deadline.
Upgrade_Unbounded ==
  /\ ph = "upgrade"
  /\ \/ ~late /\ keyed /\ ph' = "open" /\ UNCHANGED socks
     \/ ~late /\ GivesUp
     \/ late /\ UNCHANGED <<ph, socks>>
  /\ UNCHANGED <<net, nd, try, left, late, keyed, histVars>>

\* upgradeWebsocket, with the deadline of the context.
Upgrade ==
  /\ ph = "upgrade"
  /\ \/ ~late /\ keyed /\ ph' = "open" /\ UNCHANGED socks
     \/ GivesUp
  /\ UNCHANGED <<net, nd, try, left, late, keyed, histVars>>

-----------------------------------------------------------------------------
(* Dial and ListenPacket after dialTransport                               *)

\* WriteConnect or WriteUDP; only ListenPacket waits for the answer.
Open ==
  /\ ph = "open"
  /\ \/ ph' = (IF net = "udp" THEN "reply" ELSE "ok") /\ UNCHANGED socks
     \/ GivesUp
  /\ UNCHANGED <<net, nd, try, left, late, keyed, histVars>>

\* ReadReply has no deadline: the server answers, refuses or breaks, or never does.
Reply ==
  /\ ph = "reply"
  /\ \/ ph' = "ok" /\ UNCHANGED socks
     \/ GivesUp
  /\ UNCHANGED <<net, nd, try, left, late, keyed, histVars>>

\* The call returns, and its locals are gone; the caller has n sockets of it.
Returns(n) ==
  /\ ph \in {"ok", "err"} /\ ph' = "over" /\ socks' = n
  /\ nd' = NoNode /\ try' = 1 /\ left' = 0 /\ late' = FALSE /\ keyed' = FALSE
  /\ shook' = FALSE /\ log' = <<>> /\ UNCHANGED net

\* The caller closes the connection it was given.
Hangup ==
  /\ socks' = socks - 1
  /\ UNCHANGED <<net, nd, ph, try, left, late, keyed, histVars>>

DialProceeds == Destinations \/ Connect \/ ShakeOK \/ ShakeFails \/ Upgrade \/ Open

-----------------------------------------------------------------------------
(* Properties                                                              *)

\* A dial that fails without a TLS handshake has left nothing untried: both
\* handshakes when the node allows two, whatever the first one died of, and in
\* each every address up to the first that took the connection (dialTransport,
\* dialTCP).
NothingUntried ==
  (ph = "err" /\ ~shook) =>
    /\ Len(log) = IF nd.legacy /\ nd.path THEN 2 ELSE 1
    /\ \A t \in DOMAIN log : log[t].connected \/ log[t].tried = log[t].found
=============================================================================
