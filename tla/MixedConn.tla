------------------------------ MODULE MixedConn ------------------------------
(***************************************************************************)
(* One client connection of a mixed SOCKS5/HTTP listener, inbound/mixed.go *)
(* from serve to the deferred closes: the handshake under its 30 s         *)
(* deadline, the handler that dials the upstream, and the relay with one   *)
(* goroutine per direction.  The client may send everything ahead of the   *)
(* answers: what the handshake does not consume stays in the bufio.Reader  *)
(* the relay reads from.  UDP ASSOCIATE continues in UdpHub.               *)
(***************************************************************************)
EXTENDS Naturals, Sequences

CONSTANT MaxData   \* bound on payload messages in each direction

ASSUME MixedAssumption == MaxData \in Nat

VARIABLES
  needAuth,    \* the listener has a user
  reuse,       \* upstream connections have CloseWrite (pooledConn), or not (snell.Conn)
  pc,          \* serve
  deadline,    \* whether the handshake deadline is set
  authed,      \* the credentials were right (history)
  todo, inq,   \* what the client has still to send of its opening; sent and not read
  sent, cfin, cgone,     \* payload the client sent; its end of file; connection broken
  cfull, ufull,  \* the client, the upstream has stopped reading and the buffers are full
  up,          \* the upstream connection: none, open or closed
  upGot, upEof,          \* payload it was given, and whether it was told the end
  upSent, upq, upFin, upGone,  \* what it sent, of that unread; its end; broken
  clGot, clEof,          \* payload given to the client, and its end
  c2u, u2c     \* the relay's goroutines: off, run, done or err

cfg == <<needAuth, reuse>>
clientVars == <<todo, inq, sent, cfin, cgone, cfull>>
upVars == <<upGot, upEof, upSent, upq, upFin, upGone, ufull>>
relayVars == <<clGot, clEof, c2u, u2c>>
mixedVars == <<cfg, pc, deadline, authed, clientVars, up, upVars, relayVars>>

Handshake == {"peek", "auth", "request", "dial", "ack"}

\* A client that opens a SOCKS or an HTTP exchange, well or badly.
Openings ==
  {<<"methods", "connect">>, <<"methods", "associate">>, <<"methods", "badrequest">>,
   <<"methods", "login", "connect">>, <<"methods", "login", "associate">>,
   <<"methods", "badlogin", "connect">>, <<"nomethod">>, <<"http">>, <<"httpauth">>,
   <<"httpother">>}

MixedInit ==
  /\ needAuth \in BOOLEAN /\ reuse \in BOOLEAN
  /\ pc = "peek" /\ deadline = TRUE /\ authed = FALSE
  /\ todo \in Openings /\ inq = <<>> /\ sent = 0 /\ cfin = FALSE /\ cgone = FALSE
  /\ cfull = FALSE /\ ufull = FALSE
  /\ up = "none" /\ upGot = 0 /\ upEof = FALSE
  /\ upSent = 0 /\ upq = 0 /\ upFin = FALSE /\ upGone = FALSE
  /\ clGot = 0 /\ clEof = FALSE /\ c2u = "off" /\ u2c = "off"

-----------------------------------------------------------------------------
(* The two ends                                                            *)

\* The rest of its opening, then payload; it may end its stream anywhere.
ClientSends ==
  /\ ~cfin /\ ~cgone
  /\ \/ /\ todo # <<>>
        /\ inq' = Append(inq, Head(todo)) /\ todo' = Tail(todo)
        /\ UNCHANGED <<sent, cfin>>
     \/ /\ todo = <<>> /\ sent < MaxData
        /\ inq' = Append(inq, "data") /\ sent' = sent + 1
        /\ UNCHANGED <<todo, cfin>>
     \/ inq' = Append(inq, "eof") /\ cfin' = TRUE /\ UNCHANGED <<todo, sent>>
  /\ UNCHANGED <<cfg, pc, deadline, authed, cgone, cfull, up, upVars, relayVars>>

\* The client's connection breaks: what it sent and was not read is lost.
ClientBreaks ==
  /\ ~cgone /\ pc # "closed"
  /\ cgone' = TRUE
  /\ UNCHANGED <<cfg, pc, deadline, authed, todo, inq, sent, cfin, cfull, up, upVars, relayVars>>

UpSends ==
  /\ up = "open" /\ ~upFin /\ ~upGone
  /\ \/ upSent < MaxData /\ upSent' = upSent + 1 /\ upq' = upq + 1 /\ UNCHANGED upFin
     \/ upFin' = TRUE /\ UNCHANGED <<upSent, upq>>
  /\ UNCHANGED <<cfg, pc, deadline, authed, clientVars, up, upGot, upEof, upGone, ufull,
                 relayVars>>

UpBreaks ==
  /\ up = "open" /\ ~upGone
  /\ upGone' = TRUE
  /\ UNCHANGED <<cfg, pc, deadline, authed, clientVars, up, upGot, upEof, upSent, upq, upFin, ufull,
                 relayVars>>

\* An end stops reading for good (a pause is only time): what is written to it in the
\* relay, where no deadline is set, blocks until its connection breaks.
ClientStops ==
  /\ pc = "relay" /\ ~cfull /\ ~cgone
  /\ cfull' = TRUE
  /\ UNCHANGED <<cfg, pc, deadline, authed, todo, inq, sent, cfin, cgone, up, upVars, relayVars>>

UpStops ==
  /\ pc \in {"relay", "close"} /\ up = "open" /\ ~ufull /\ ~upGone
  /\ ufull' = TRUE
  /\ UNCHANGED <<cfg, pc, deadline, authed, clientVars, up, upGot, upEof, upSent, upq, upFin,
                 upGone, relayVars>>

-----------------------------------------------------------------------------
(* serve                                                                   *)

Goto(l) == pc' = l
\* The next message of the handshake is m.
Reads(m) == ~cgone /\ inq # <<>> /\ Head(inq) = m /\ inq' = Tail(inq)
Waits ==
  UNCHANGED <<cfg, deadline, todo, sent, cfin, cgone, cfull, up, upVars, relayVars>>

\* serve looks at the first byte; serveSOCKS chooses the method the listener wants.
Greet ==
  /\ pc = "peek" /\ Reads("methods")
  /\ Goto(IF needAuth THEN "auth" ELSE "request")
  /\ UNCHANGED authed /\ Waits

Login ==
  /\ pc = "auth" /\ Reads("login")
  /\ authed' = TRUE
  /\ Goto("request")
  /\ Waits

\* CONNECT, in SOCKS or in HTTP with credentials if they are needed.
Request ==
  /\ \/ pc = "request" /\ Reads("connect") /\ UNCHANGED authed
     \/ pc = "peek" /\ Reads("httpauth") /\ authed' = TRUE
     \/ pc = "peek" /\ ~needAuth /\ Reads("http") /\ UNCHANGED authed
  /\ Goto("dial")
  /\ Waits

\* ASSOCIATE: the deadline is cleared and serveUDPAssociate takes over.
Associate ==
  /\ pc = "request" /\ Reads("associate")
  /\ Goto("associate") /\ deadline' = FALSE
  /\ UNCHANGED <<cfg, authed, todo, sent, cfin, cgone, cfull, up, upVars, relayVars>>

\* Anything else is refused: an unexpected message, wrong credentials, an
\* unoffered method, another command or HTTP method, the end of the stream.
Accepted ==
  \/ pc = "peek" /\ Head(inq) \in {"methods", "httpauth"}
  \/ pc = "peek" /\ ~needAuth /\ Head(inq) = "http"
  \/ pc = "auth" /\ Head(inq) = "login"
  \/ pc = "request" /\ Head(inq) \in {"connect", "associate"}

Refuse ==
  /\ pc \in {"peek", "auth", "request"}
  /\ cgone \/ (inq # <<>> /\ ~Accepted)
  /\ Goto("close")
  /\ UNCHANGED <<cfg, deadline, authed, clientVars, up, upVars, relayVars>>

\* Reading or writing past the deadline fails.
Timeout ==
  /\ deadline /\ pc \in {"peek", "auth", "request"}
  /\ Goto("close")
  /\ UNCHANGED <<cfg, deadline, authed, clientVars, up, upVars, relayVars>>

\* The handler has dialed; its error is answered.
DialOK ==
  /\ pc = "dial"
  /\ up' = "open" /\ Goto("ack")
  /\ UNCHANGED <<cfg, deadline, authed, clientVars, upVars, relayVars>>

DialFails ==
  /\ pc = "dial"
  /\ Goto("close")
  /\ UNCHANGED <<cfg, deadline, authed, clientVars, up, upVars, relayVars>>

\* Mutant: the deadline stays on the connection.
Ack_KeepsDeadline ==
  /\ pc = "ack"
  /\ \/ ~cgone /\ Goto("relay") /\ c2u' = "run" /\ u2c' = "run"
     \/ cgone /\ Goto("close") /\ UNCHANGED <<c2u, u2c>>
  /\ UNCHANGED <<cfg, deadline, authed, clientVars, up, upVars, clGot, clEof>>

\* The deadline is cleared, then the client is answered and the relay starts.
Ack ==
  /\ pc = "ack"
  /\ deadline' = FALSE
  /\ \/ Goto("relay") /\ c2u' = "run" /\ u2c' = "run"
     \/ cgone /\ Goto("close") /\ UNCHANGED <<c2u, u2c>>
  /\ UNCHANGED <<cfg, authed, clientVars, up, upVars, clGot, clEof>>

-----------------------------------------------------------------------------
(* relay and relayCopy.  A copy ends at the end of its source or at an      *)
(* error, and in both cases closes the writing side of its destination; a   *)
(* write to a broken connection may go unnoticed.                           *)

\* closeWrite(up): a plain snell.Conn has no CloseWrite, and a broken one no peer.
UpTold == upEof' = (reuse /\ ~upGone) /\ UNCHANGED upGone

\* The copy's next write waits for the upstream to read: payload, or the zero chunk
\* of closeWrite on a pooledConn; a snell.Conn is told nothing.
UpBlocks == ufull /\ ~upGone /\ (reuse \/ (inq # <<>> /\ Head(inq) # "eof"))

CopyUp ==
  /\ c2u = "run" /\ ~cgone /\ inq # <<>> /\ ~UpBlocks
  /\ inq' = Tail(inq)
  /\ IF Head(inq) = "eof" THEN c2u' = "done" /\ UpTold /\ UNCHANGED upGot
     ELSE /\ IF upGone THEN c2u' \in {"err", "run"} /\ UNCHANGED upGot
             ELSE UNCHANGED c2u /\ upGot' = upGot + (IF Head(inq) = "data" THEN 1 ELSE 0)
          /\ UNCHANGED <<upEof, upGone>>
  /\ UNCHANGED <<cfg, pc, deadline, authed, todo, sent, cfin, cgone, cfull, up, upSent,
                 upq, upFin, ufull, clGot, clEof, u2c>>

\* Mutant: an error reading the client is not an end.
CopyUpFails_Retries == c2u = "run" /\ cgone /\ UNCHANGED mixedVars

CopyUpFails ==
  /\ c2u = "run" /\ (cgone \/ (deadline /\ inq = <<>>))
  /\ reuse => ~UpBlocks
  /\ c2u' = "err" /\ UpTold
  /\ UNCHANGED <<cfg, pc, deadline, authed, clientVars, up, upGot, upSent, upq,
                 upFin, ufull, clGot, clEof, u2c>>

\* Its next write waits for the client; the FIN of a TCP connection waits for nobody.
DownBlocks == cfull /\ ~cgone /\ upq > 0

CopyDown ==
  /\ u2c = "run" /\ ~DownBlocks
  /\ \/ /\ upq > 0 /\ upq' = upq - 1
        /\ IF cgone THEN u2c' \in {"err", "run"} /\ UNCHANGED clGot
           ELSE clGot' = clGot + 1 /\ UNCHANGED u2c
        /\ UNCHANGED clEof
     \/ /\ upq = 0 /\ (upFin \/ upGone)
        /\ u2c' = IF upGone /\ ~upFin THEN "err" ELSE "done"
        /\ clEof' = ~cgone
        /\ UNCHANGED <<upq, clGot>>
  /\ UNCHANGED <<cfg, pc, deadline, authed, clientVars, up, upGot, upEof, upSent,
                 upFin, upGone, ufull, c2u>>

\* Mutant: the relay ends with its first direction.
RelayReturns_First ==
  /\ pc = "relay" /\ (c2u # "run" \/ u2c # "run")
  /\ Goto("close")
  /\ UNCHANGED <<cfg, deadline, authed, clientVars, up, upVars, relayVars>>

RelayReturns ==
  /\ pc = "relay" /\ c2u # "run" /\ u2c # "run"
  /\ Goto("close")
  /\ UNCHANGED <<cfg, deadline, authed, clientVars, up, upVars, relayVars>>

\* serveUDPAssociate returns.
AssociateEnds ==
  /\ pc = "associate"
  /\ Goto("close")
  /\ UNCHANGED <<cfg, deadline, authed, clientVars, up, upVars, relayVars>>

\* Mutant: an error before the relay leaves the upstream open.
Closes_RelayOnly ==
  /\ pc = "close"
  /\ up' = IF up = "open" /\ c2u # "off" THEN "closed" ELSE up
  /\ Goto("closed")
  /\ UNCHANGED <<cfg, deadline, authed, clientVars, upVars, relayVars>>

\* The deferred up.Close and c.Close.
Closes ==
  /\ pc = "close"
  /\ up' = IF up = "open" THEN "closed" ELSE up
  /\ Goto("closed")
  /\ UNCHANGED <<cfg, deadline, authed, clientVars, upVars, relayVars>>

ServeStep == Greet \/ Login \/ Request \/ Associate \/ Refuse \/ Ack \/ RelayReturns

-----------------------------------------------------------------------------
(* Properties                                                              *)

\* A connection whose ends did not break loses nothing: when it closes after a
\* relay, the upstream has got all the payload the client sent, pipelined with the
\* handshake or not, and the client all the upstream sent.  The end of one
\* direction does not cut the other, and comes after that direction's payload.
NothingLost ==
  LET whole == c2u # "off" /\ ~cgone /\ ~upGone IN
  /\ (pc = "closed" /\ whole) => upGot = sent /\ clGot = upSent
  /\ (upEof /\ whole) => upGot = sent
  /\ (clEof /\ whole) => clGot = upSent
=============================================================================
