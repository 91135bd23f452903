------------------------------- MODULE TfoConn -------------------------------
(***************************************************************************)
(* dialer/tfo.go: a connection that dials on its first Write, so that the  *)
(* TLS ClientHello travels as TCP Fast Open data, or on its first Read.    *)
(* Callers: the TLS writer (messages 1, 2, ... in order, stopping at an    *)
(* error), the TLS reader, whoever closes the connection (a cancelled      *)
(* handshake closes it from another goroutine), and whoever sets deadlines.*)
(***************************************************************************)
EXTENDS Naturals, Sequences

CONSTANTS
  MaxMsgs,     \* messages the writer has
  MaxSets      \* bound on deadline changes; a deadline is the number of its change

ASSUME TfoAssumption == MaxMsgs \in Nat \ {0} /\ MaxSets \in Nat

VARIABLES
  once,        \* sync.Once: free, dialing, publishing or done
  first,       \* who runs it: "w", "r" or "none"
  dialed,      \* dialFn returned a connection
  conn, err, closed,   \* the fields conn # nil, err # nil, closed
  rdl, wdl,    \* rdeadline, wdeadline
  sock,        \* the TCP connection: none, open or closed
  sockR, sockW,\* the deadlines set on it
  wire,        \* messages the TCP connection carries
  w, wn, acked,\* the writer: where it is, its message, how many were accepted
  r            \* the reader

dlVars == <<rdl, wdl, sockR, sockW>>
wrVars == <<w, wn, acked>>
onceVars == <<once, first, dialed>>
vars == <<onceVars, conn, err, closed, dlVars, sock, wire, wrVars, r>>

Init ==
  /\ once = "free" /\ first = "none" /\ dialed = FALSE
  /\ conn = FALSE /\ err = FALSE /\ closed = FALSE
  /\ rdl = 0 /\ wdl = 0 /\ sock = "none" /\ sockR = 0 /\ sockW = 0
  /\ wire = <<>> /\ w = "idle" /\ wn = 1 /\ acked = 0 /\ r = "idle"

\* A message was accepted: the writer goes on to the next one.
Acked == acked' = wn /\ wn' = wn + 1 /\ w' = "idle"
Fail == w' = "failed" /\ UNCHANGED <<wn, acked>>

-----------------------------------------------------------------------------
\* Write tests closed under the lock, then joins the Once.
Enter ==
  /\ w = "idle" /\ wn <= MaxMsgs
  /\ IF closed THEN Fail ELSE w' = "once" /\ UNCHANGED <<wn, acked>>
  /\ UNCHANGED <<onceVars, conn, err, closed, dlVars, sock, wire, r>>

ReadEnter ==
  /\ r = "idle"
  /\ r' = "once"
  /\ UNCHANGED <<onceVars, conn, err, closed, dlVars, sock, wire, wrVars>>

\* The first caller of the Once dials; the others wait until it has published.
StartDial ==
  /\ once = "free"
  /\ \E t \in {"w", "r"} : (IF t = "w" THEN w ELSE r) = "once" /\ first' = t
  /\ once' = "dial"
  /\ UNCHANGED <<dialed, conn, err, closed, dlVars, sock, wire, wrVars, r>>

\* Mutant: a dial by Read sends the writer's message, ahead of its Write.
DialOK_AlwaysEarly ==
  /\ once = "dial"
  /\ once' = "publish" /\ dialed' = TRUE
  /\ sock' = "open" /\ wire' = <<wn>>
  /\ UNCHANGED <<first, conn, err, closed, dlVars, wrVars, r>>

\* dialFn: the destinations in turn, with the writer's message as early data.
DialOK ==
  /\ once = "dial"
  /\ once' = "publish" /\ dialed' = TRUE
  /\ sock' = "open" /\ wire' = IF first = "w" THEN <<wn>> ELSE <<>>
  /\ UNCHANGED <<first, conn, err, closed, dlVars, wrVars, r>>

DialFails ==
  /\ once = "dial"
  /\ once' = "publish" /\ dialed' = FALSE
  /\ UNCHANGED <<first, conn, err, closed, dlVars, sock, wire, wrVars, r>>

\* The thread that ran the Once: a Write is done, a Read goes on.
FirstReturns ==
  IF first = "w"
  THEN (IF err' THEN Fail ELSE Acked) /\ UNCHANGED r
  ELSE r' = "post" /\ UNCHANGED wrVars

\* Mutant: publish does not look at closed.
Publish_Blind ==
  /\ once = "publish"
  /\ once' = "done"
  /\ conn' = dialed /\ err' = ~dialed
  /\ IF dialed THEN sockR' = rdl /\ sockW' = wdl ELSE UNCHANGED <<sockR, sockW>>
  /\ FirstReturns
  /\ UNCHANGED <<first, dialed, closed, rdl, wdl, sock, wire>>

\* Mutant: the deadlines recorded so far are not applied.
Publish_NoDeadline ==
  /\ once = "publish"
  /\ once' = "done"
  /\ conn' = (dialed /\ ~closed) /\ err' = (closed \/ ~dialed)
  /\ sock' = IF closed /\ dialed THEN "closed" ELSE sock
  /\ FirstReturns
  /\ UNCHANGED <<first, dialed, closed, dlVars, wire>>

\* publish, under the lock: a Close meanwhile closes what was dialed, and so does
\* a failure to set the deadlines recorded meanwhile.
Publish ==
  /\ once = "publish"
  /\ once' = "done"
  /\ \/ /\ dialed /\ ~closed
        /\ sockR' = rdl /\ sockW' = wdl
        /\ conn' = TRUE /\ err' = FALSE /\ UNCHANGED sock
     \/ /\ err' = TRUE /\ conn' = FALSE
        /\ sock' = IF dialed THEN "closed" ELSE "none"
        /\ UNCHANGED <<sockR, sockW>>
  /\ FirstReturns
  /\ UNCHANGED <<first, dialed, closed, rdl, wdl, wire>>

\* A caller that waited: the error, or the connection read under the lock.
AfterOnce ==
  /\ once = "done" /\ w = "once"
  /\ IF err \/ ~conn THEN Fail ELSE w' = "io" /\ UNCHANGED <<wn, acked>>
  /\ UNCHANGED <<onceVars, conn, err, closed, dlVars, sock, wire, r>>

ReadAfterOnce ==
  /\ once = "done" /\ r \in {"once", "post"}
  /\ r' = IF err \/ closed \/ ~conn THEN "failed" ELSE "io"
  /\ UNCHANGED <<onceVars, conn, err, closed, dlVars, sock, wire, wrVars>>

\* conn.Write; a closed connection refuses, an open one may fail (deadline).
SockWrite ==
  /\ w = "io"
  /\ \/ sock = "open" /\ wire' = Append(wire, wn) /\ Acked
     \/ Fail /\ UNCHANGED wire
  /\ UNCHANGED <<onceVars, conn, err, closed, dlVars, sock, r>>

\* conn.Read: data, or an error (a closed connection, a deadline, the peer).
SockRead ==
  /\ r = "io"
  /\ r' \in (IF sock = "open" THEN {"idle", "failed"} ELSE {"failed"})
  /\ UNCHANGED <<onceVars, conn, err, closed, dlVars, sock, wire, wrVars>>

\* Mutant: Close cancels the dial only.
Close_NoSock ==
  /\ ~closed
  /\ closed' = TRUE
  /\ UNCHANGED <<onceVars, conn, err, dlVars, sock, wire, wrVars, r>>

Close ==
  /\ ~closed
  /\ closed' = TRUE
  /\ sock' = IF conn THEN "closed" ELSE sock
  /\ UNCHANGED <<onceVars, conn, err, dlVars, wire, wrVars, r>>

\* SetDeadline, SetReadDeadline, SetWriteDeadline: recorded, and set on the
\* connection when there is one (a closed one refuses).
SetDeadline ==
  LET d == (IF rdl > wdl THEN rdl ELSE wdl) + 1 IN
  /\ d <= MaxSets
  /\ \E k \in {{"r"}, {"w"}, {"r", "w"}} :
       /\ rdl' = (IF "r" \in k THEN d ELSE rdl)
       /\ wdl' = (IF "w" \in k THEN d ELSE wdl)
       /\ sockR' = (IF conn /\ sock = "open" /\ "r" \in k THEN d ELSE sockR)
       /\ sockW' = (IF conn /\ sock = "open" /\ "w" \in k THEN d ELSE sockW)
  /\ UNCHANGED <<onceVars, conn, err, closed, sock, wire, wrVars, r>>

\* The writer has finished or failed, the reader failed, the connection is closed.
AllDone ==
  /\ closed /\ r = "failed" /\ (w = "failed" \/ wn > MaxMsgs)
  /\ UNCHANGED vars

Dial == DialOK \/ DialFails
Next == \/ Enter \/ ReadEnter \/ StartDial \/ Dial \/ Publish \/ AfterOnce \/ ReadAfterOnce
        \/ SockWrite \/ SockRead \/ Close \/ SetDeadline \/ AllDone
Spec == Init /\ [][Next]_vars

\* The dial ends once its context is cancelled, and calls on a closed TCP
\* connection return; nothing is assumed of an open one.
FairSpec ==
  /\ Spec
  /\ WF_vars(StartDial) /\ WF_vars(closed /\ Dial) /\ WF_vars(Publish)
  /\ WF_vars(AfterOnce) /\ WF_vars(ReadAfterOnce)
  /\ WF_vars(sock = "closed" /\ SockWrite) /\ WF_vars(sock = "closed" /\ SockRead)

-----------------------------------------------------------------------------
(* Properties                                                              *)

TypeOK ==
  /\ once \in {"free", "dial", "publish", "done"} /\ first \in {"none", "w", "r"}
  /\ dialed \in BOOLEAN /\ conn \in BOOLEAN /\ err \in BOOLEAN /\ closed \in BOOLEAN
  /\ rdl \in 0..MaxSets /\ wdl \in 0..MaxSets /\ sockR \in 0..MaxSets /\ sockW \in 0..MaxSets
  /\ sock \in {"none", "open", "closed"} /\ wire \in Seq(1..MaxMsgs)
  /\ w \in {"idle", "once", "io", "failed"} /\ wn \in 1..(MaxMsgs + 1) /\ acked \in 0..MaxMsgs
  /\ r \in {"idle", "once", "post", "io", "failed"}

\* Close racing the dial leaks nothing: once the dial is over, the TCP connection
\* is open exactly while the tfoConn holds it and was not closed (publish, Close).
NoLeak == once = "done" => (sock = "open" <=> conn /\ ~closed)

\* However Write, Read and the dial are ordered, the TCP connection carries the
\* messages in order, none twice and none missing, and a message Write accepted
\* is on it (the early data is the first Write's or nobody's).
ExactlyOnce ==
  /\ \A i \in DOMAIN wire : wire[i] = i
  /\ once = "done" => (acked <= Len(wire) /\ Len(wire) <= acked + 1)
  /\ (Len(wire) = acked + 1 /\ once = "done") => err

\* The deadlines in force on the TCP connection are the last ones set, before,
\* during or after the dial.
DeadlinesKept == (conn /\ sock = "open") => sockR = rdl /\ sockW = wdl

\* Close releases every caller: a Write waiting for the other's dial, the dialer,
\* and a Read on the connection return.
CloseReleases ==
  /\ (closed /\ w # "idle") ~> w \in {"idle", "failed"}
  /\ (closed /\ r # "idle") ~> r \in {"idle", "failed"}
=============================================================================
