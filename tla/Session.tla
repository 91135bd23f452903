------------------------------- MODULE Session -------------------------------
(***************************************************************************)
(* A client connection together with the dial of its upstream: MixedConn,  *)
(* whose handler or association calls NodeDial when the node has no pool.  *)
(* A node with reuse dials through its pool (SnellPool), which here        *)
(* succeeds or fails.  An association that got its upstream goes on in     *)
(* UdpHub, which shows when it ends.                                       *)
(***************************************************************************)
EXTENDS MixedConn, NodeDial

vars == <<mixedVars, dialVars>>

Init == MixedInit /\ DialInit

-----------------------------------------------------------------------------
(* CONNECT: dialer.Dial in the handler                                     *)

ConnectDials == pc = "dial" /\ ~reuse /\ DialStarts("tcp") /\ UNCHANGED mixedVars

Dialed == DialOK /\ IF reuse THEN UNCHANGED dialVars ELSE ph = "ok" /\ Returns(socks)

DialFailed ==
  DialFails /\ IF reuse THEN UNCHANGED dialVars ELSE ph = "err" /\ Returns(socks)

\* The deferred closes, and with them the end of the socket of the upstream.
CloseAll ==
  /\ Closes
  /\ IF ~reuse /\ up # up' THEN Hangup ELSE UNCHANGED dialVars

-----------------------------------------------------------------------------
(* ASSOCIATE: udpDialer in serveUDPAssociate                               *)

AssociateDials == pc = "associate" /\ DialStarts("udp") /\ UNCHANGED mixedVars

\* UDP is not enabled for the listener, or the dial has failed.
AssociateRefused ==
  /\ AssociateEnds
  /\ \/ ph = "idle" /\ UNCHANGED dialVars
     \/ ph = "err" /\ Returns(socks)

\* With an upstream: the address is busy, the client or the upstream is gone.
AssociateOver == AssociateEnds /\ ph = "ok" /\ Returns(socks - 1)

-----------------------------------------------------------------------------
Ends == ClientSends \/ ClientBreaks \/ ClientStops \/ UpSends \/ UpBreaks \/ UpStops
Server == ServeStep \/ Timeout \/ CopyUp \/ CopyUpFails \/ CopyDown
Dials == DialProceeds \/ Expires \/ Reply
Calls == ConnectDials \/ AssociateDials
Handles == Dialed \/ DialFailed \/ AssociateRefused \/ CloseAll

AllDone == pc = "closed" /\ UNCHANGED vars

Next ==
  \/ (Ends \/ Server) /\ UNCHANGED dialVars
  \/ Dials /\ UNCHANGED mixedVars
  \/ Calls \/ Handles \/ AssociateOver \/ AllDone

Spec == Init /\ [][Next]_vars

\* The steps of a dial that the context bounds are taken at the latest when it is
\* done; the request is one small write on a new connection.
DialReturns == (ph = "open" \/ late) /\ DialProceeds /\ UNCHANGED mixedVars

\* up.Close writes a frame first when the connection is a wsConn, and then waits for
\* an upstream that does not read.
CloseMayBlock == pc = "close" /\ up = "open" /\ ufull /\ ~upGone

\* Goroutines that can run do, and timers fire.  Nothing is assumed of the client,
\* of the upstream and its answer, that they read what is written included, nor of
\* how long an association lives.
FairSpec ==
  /\ Spec
  /\ WF_vars(ServeStep /\ UNCHANGED dialVars)
  /\ WF_vars(Timeout /\ UNCHANGED dialVars)
  /\ WF_vars((CopyUp \/ CopyUpFails) /\ ~UpBlocks /\ UNCHANGED dialVars)
  /\ WF_vars(CopyDown /\ UNCHANGED dialVars)
  /\ WF_vars(Expires /\ UNCHANGED mixedVars)
  /\ WF_vars(DialReturns) /\ WF_vars((Calls \/ Handles) /\ ~CloseMayBlock)

-----------------------------------------------------------------------------
(* Properties                                                              *)

\* Nobody makes the program dial without the credentials the listener asks for, and
\* a closed client connection has left nothing open, whatever step of the handshake,
\* the dial, the association or the relay ended it.
UpstreamOwned ==
  /\ (needAuth /\ (up # "none" \/ ph # "idle")) => authed
  /\ pc = "closed" => up # "open" /\ socks = 0

\* The handshake deadline: a client that says nothing more, or a dial that hangs,
\* ends the handshake, and no deadline is left to cut what follows it.  A dial through
\* a pool ends here because Pool.Dial returns: SnellPool says when it does not.
HandshakeBounded ==
  pc \in Handshake ~>
    (pc \notin Handshake /\ [](pc \in {"relay", "associate"} => ~deadline))

\* A relay whose two ends have sent all they send is over, whatever the order of
\* their ends, unless one of them, its connection intact, never again reads: the
\* relay clears every deadline, so a copy with something to write to it waits for
\* ever, and so does the close of a WebSocket upstream.
RelayEnds ==
  (pc = "relay" /\ (cfin \/ cgone) /\ (upFin \/ upGone)) ~>
    \/ pc = "closed"
    \/ [](c2u = "run" /\ UpBlocks)
    \/ [](u2c = "run" /\ DownBlocks)
    \/ []CloseMayBlock

\* An ASSOCIATE gets its upstream or ends, unless the server never answers the UDP
\* request: ReadReply in ListenPacket is the one step of a dial that neither the
\* context nor the end of the client bounds.
AssociateAnswered ==
  (pc = "associate" /\ ph # "ok") ~> (ph = "ok" \/ pc = "closed" \/ [](ph = "reply"))
=============================================================================
