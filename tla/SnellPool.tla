------------------------------ MODULE SnellPool ------------------------------
(***************************************************************************)
(* The pool of reusable Snell transports of one node: dialer/pool.go with  *)
(* the session state of snell/v4.go it depends on.  Actors: the sessions   *)
(* (one goroutine per proxied client, Dial -> relay -> Close, the relay    *)
(* being a reader and a writer goroutine), the Warm goroutine, the caller  *)
(* of Pool.Close, and the remote server, which is external.                *)
(*                                                                         *)
(* The pool is used for nodes with Reuse only (serve.go dialerFor), so     *)
(* every request is CONNECT-V2 and every pooledConn is marked reusable.    *)
(***************************************************************************)
EXTENDS Naturals, Sequences, FiniteSets

CONSTANTS
  Conns,       \* transports that can be dialled
  Sessions,    \* proxied client connections
  NoConn,      \* "holds no transport"
  NoSession,   \* "serves no session"
  MaxIdle,     \* poolMaxIdle
  MaxUses,     \* poolMaxUses
  MaxTries,    \* attempts of Pool.Dial
  Preconnect,  \* transports Warm builds
  IdleAge,     \* poolIdleAge, in ticks
  MaxTime,     \* bound of the clock
  MaxWire,     \* bound on data frames in flight in one direction
  StrayZero,   \* may the server send a second zero chunk?
  WebSocket,   \* is the transport a wsConn, whose Close writes a frame first?
  Stalls       \* may the server stop reading for good?

ASSUME PoolAssumption ==
  /\ NoConn \notin Conns
  /\ NoSession \notin Sessions
  /\ MaxIdle \in Nat /\ MaxUses \in Nat \ {0} /\ MaxTries \in Nat \ {0}
  /\ Preconnect \in Nat /\ IdleAge \in Nat /\ MaxTime \in Nat
  /\ MaxWire \in Nat
  /\ StrayZero \in BOOLEAN /\ WebSocket \in BOOLEAN /\ Stalls \in BOOLEAN

VARIABLES
  idle,        \* Pool.idle
  closed,      \* Pool.closed
  doomed,      \* what Pool.Close took out of idle and has still to close
  popper,      \* the session whose pop holds the lock, or NoSession
  popAt,       \* the time that pop has read
  expired,     \* the transport it is closing, or NoConn
  now,         \* the monotonic clock
  wpc, wleft, wconn,            \* the Warm goroutine
  tr,          \* transport: unborn, open or closed
  reply, peerClosed,            \* the fields of snell.Conn
  up, down,    \* frames in flight to the server and from it
  dropped,     \* the peer ended the TLS stream
  stalled,     \* the peer stopped reading and the send buffer is full
  srv,         \* what the server believes about the transport
  connects,    \* CONNECTs written on a transport so far (history)
  pc, held, uses, tries,        \* a session inside Pool.Dial
  rd, wr,      \* its relay goroutines
  got          \* sessions whose bytes this session's client received (history)

poolVars == <<idle, closed, doomed, popper, popAt, expired, now>>
warmVars == <<wpc, wleft, wconn>>
connVars == <<reply, peerClosed, dropped, stalled, connects>>
wireVars == <<tr, up, down, srv>>
sesVars  == <<pc, held, uses, tries>>
relVars  == <<rd, wr, got>>
vars == <<poolVars, warmVars, connVars, wireVars, sesVars, relVars>>

-----------------------------------------------------------------------------
Frame     == [kind : {"connect", "reply", "error", "data", "zero"}, ses : Sessions]
IdleEntry == [conn : Conns, uses : Nat, used : Nat]
IdleSrv   == [ses |-> NoSession, replied |-> FALSE, fin |-> FALSE, cfin |-> FALSE]
SrvState  == [ses : Sessions \cup {NoSession}, replied : BOOLEAN,
              fin : BOOLEAN, cfin : BOOLEAN]
F(k, s)   == [kind |-> k, ses |-> s]

ConnsOf(q) == {q[i].conn : i \in DOMAIN q}
IdleConns == ConnsOf(idle)
\* What pop or Pool.Close is closing.
Closing == ConnsOf(doomed) \cup ({expired} \ {NoConn})

\* The age of e at time t, the one pop has read.
Expired(e, t) == t > e.used + IdleAge

\* All else done under p.mu is one step.
Locked == popper # NoSession

\* wsConn.Close writes a frame without a deadline: on a full buffer it waits for
\* the peer to read or to end the stream.
Blocked(c) == WebSocket /\ stalled[c]

\* net.Conn.Close on every transport of D; what the server makes of the frames
\* still in flight is not observed.
Shut(D) ==
  /\ tr'   = [c \in Conns |-> IF c \in D THEN "closed" ELSE tr[c]]
  /\ up'   = [c \in Conns |-> IF c \in D THEN <<>> ELSE up[c]]
  /\ down' = [c \in Conns |-> IF c \in D THEN <<>> ELSE down[c]]
  /\ srv'  = [c \in Conns |-> IF c \in D THEN IdleSrv ELSE srv[c]]

\* A frame written to c; a broken transport swallows it.
Send(c, f) == up' = IF dropped[c] THEN up ELSE [up EXCEPT ![c] = Append(@, f)]

\* factory succeeded: a transport whose PING was answered, at a frame boundary.
Open(c) ==
  /\ tr[c] = "unborn"
  /\ tr' = [tr EXCEPT ![c] = "open"]
  /\ UNCHANGED <<up, down, srv>>

\* put: the test, and the list with the entry appended.
PutOK_NoFlag(u)  == u < MaxUses /\ Len(idle) < MaxIdle                  \* mutant
PutOK_OneMore(u) == u <= MaxUses /\ ~closed /\ Len(idle) < MaxIdle      \* mutant
PutOK(u) == u < MaxUses /\ ~closed /\ Len(idle) < MaxIdle

Entry(c, u) == [conn |-> c, uses |-> u, used |-> now]
Added_Front(c, u) == <<Entry(c, u)>> \o idle                            \* mutant
Added(c, u) == Append(idle, Entry(c, u))

-----------------------------------------------------------------------------
Init ==
  /\ idle = <<>> /\ closed = FALSE /\ doomed = <<>> /\ now = 0
  /\ popper = NoSession /\ popAt = 0 /\ expired = NoConn
  /\ wpc = (IF Preconnect > 0 THEN "dial" ELSE "done")
  /\ wleft = Preconnect /\ wconn = NoConn
  /\ tr = [c \in Conns |-> "unborn"]
  /\ reply = [c \in Conns |-> FALSE] /\ peerClosed = [c \in Conns |-> FALSE]
  /\ up = [c \in Conns |-> <<>>] /\ down = [c \in Conns |-> <<>>]
  /\ dropped = [c \in Conns |-> FALSE] /\ stalled = [c \in Conns |-> FALSE]
  /\ srv = [c \in Conns |-> IdleSrv]
  /\ connects = [c \in Conns |-> 0]
  /\ pc = [s \in Sessions |-> "new"] /\ held = [s \in Sessions |-> NoConn]
  /\ uses = [s \in Sessions |-> 0] /\ tries = [s \in Sessions |-> 0]
  /\ rd = [s \in Sessions |-> "off"] /\ wr = [s \in Sessions |-> "off"]
  /\ got = [s \in Sessions |-> {}]

-----------------------------------------------------------------------------
(* Pool.Dial                                                               *)

\* A client asks for a connection.
Arrive(s) ==
  /\ pc[s] = "new"
  /\ pc' = [pc EXCEPT ![s] = "take"]
  /\ UNCHANGED <<poolVars, warmVars, connVars, wireVars, held, uses, tries, relVars>>

\* Mutant: the entry handed out stays in the list.
Turn_Keeps(s, t) ==
  /\ idle # <<>>
  /\ popper' = NoSession /\ popAt' = 0
  /\ held' = [held EXCEPT ![s] = idle[1].conn]
  /\ uses' = [uses EXCEPT ![s] = idle[1].uses + 1]
  /\ pc' = [pc EXCEPT ![s] = "write"]
  /\ UNCHANGED <<idle, expired>>

\* One turn of pop's loop, under the lock: an empty list is a miss, an expired
\* front entry is taken out to be closed, one that is not expired is handed out.
Turn(s, t) ==
  \/ /\ idle = <<>>
     /\ popper' = NoSession /\ popAt' = 0
     /\ pc' = [pc EXCEPT ![s] = "miss"]
     /\ UNCHANGED <<idle, expired, held, uses>>
  \/ /\ idle # <<>> /\ Expired(idle[1], t)
     /\ idle' = Tail(idle)
     /\ popper' = s /\ popAt' = t
     /\ expired' = idle[1].conn
     /\ UNCHANGED <<pc, held, uses>>
  \/ /\ idle # <<>> /\ ~Expired(idle[1], t)
     /\ idle' = Tail(idle)
     /\ popper' = NoSession /\ popAt' = 0
     /\ held' = [held EXCEPT ![s] = idle[1].conn]
     /\ uses' = [uses EXCEPT ![s] = idle[1].uses + 1]
     /\ pc' = [pc EXCEPT ![s] = "write"]
     /\ UNCHANGED expired

\* take calls pop, which takes the lock and reads the time once.
Take(s) ==
  /\ pc[s] = "take" /\ expired = NoConn
  /\ \/ ~Locked /\ Turn(s, now)
     \/ popper = s /\ Turn(s, popAt)
  /\ UNCHANGED <<closed, doomed, now, warmVars, connVars, wireVars, tries, relVars>>

\* The Close of the expired transport returns.
PopClose(s) ==
  /\ popper = s /\ expired # NoConn /\ ~Blocked(expired)
  /\ Shut({expired})
  /\ expired' = NoConn
  /\ UNCHANGED <<idle, closed, doomed, popper, popAt, now, warmVars, connVars,
                 sesVars, relVars>>

\* Mutant: who finds nothing looks again until a transport has come back.
Miss_Polls(s) ==
  /\ pc[s] = "miss"
  /\ pc' = [pc EXCEPT ![s] = "take"]
  /\ UNCHANGED <<poolVars, warmVars, connVars, wireVars, held, uses, tries, relVars>>

\* take found nothing: a done context or a closed pool ends the Dial, else the
\* factory is called.
Miss(s) ==
  /\ pc[s] = "miss"
  /\ \/ pc' = [pc EXCEPT ![s] = "failed"]          \* ctx.Err() or errPoolClosed
     \/ ~Locked /\ ~closed /\ pc' = [pc EXCEPT ![s] = "dial"]
  /\ UNCHANGED <<poolVars, warmVars, connVars, wireVars, held, uses, tries, relVars>>

\* The factory returns: a transport, or an error (the deadline of ctx at the
\* latest), which take returns without a retry.
Factory(s) ==
  /\ pc[s] = "dial"
  /\ \/ \E c \in Conns :
          /\ Open(c)
          /\ held' = [held EXCEPT ![s] = c]
          /\ uses' = [uses EXCEPT ![s] = 1]
          /\ pc' = [pc EXCEPT ![s] = "recheck"]
     \/ /\ pc' = [pc EXCEPT ![s] = "failed"]
        /\ UNCHANGED <<wireVars, held, uses>>
  /\ UNCHANGED <<poolVars, warmVars, connVars, tries, relVars>>

\* The pool may have been closed while the factory ran; a transport nothing was
\* written to has room for the close frame.
Recheck(s) ==
  /\ pc[s] = "recheck" /\ ~Locked
  /\ IF closed
     THEN /\ Shut({held[s]})
          /\ held' = [held EXCEPT ![s] = NoConn]
          /\ pc' = [pc EXCEPT ![s] = "failed"]
     ELSE /\ pc' = [pc EXCEPT ![s] = "write"]
          /\ UNCHANGED <<wireVars, held>>
  /\ UNCHANGED <<poolVars, warmVars, connVars, uses, tries, relVars>>

\* WriteConnect, then MarkReusable; nobody waits for the reply here.
WriteConnect(s) ==
  LET c == held[s] IN
  /\ pc[s] = "write" /\ ~stalled[c]
  /\ Send(c, F("connect", s))
  /\ connects' = [connects EXCEPT ![c] = @ + 1]
  /\ pc' = [pc EXCEPT ![s] = "ready"]
  /\ UNCHANGED <<poolVars, warmVars, reply, peerClosed, dropped, stalled, tr, down, srv,
                 held, uses, tries, relVars>>

\* A SetDeadline or the write fails, on a broken transport or at the deadline,
\* and the next attempt starts.  The deadline that is over, or the broken stream,
\* lets Close return at once.
WriteFails(s) ==
  LET c == held[s] IN
  /\ pc[s] = "write"
  /\ Shut({c})
  /\ held' = [held EXCEPT ![s] = NoConn]
  /\ tries' = [tries EXCEPT ![s] = @ + 1]
  /\ pc' = [pc EXCEPT ![s] = IF tries[s] + 1 = MaxTries THEN "failed" ELSE "take"]
  /\ UNCHANGED <<poolVars, warmVars, connVars, uses, relVars>>

-----------------------------------------------------------------------------
(* The relay of a session, and pooledConn                                  *)

StartRelay(s) ==
  /\ pc[s] = "ready"
  /\ pc' = [pc EXCEPT ![s] = "relay"]
  /\ rd' = [rd EXCEPT ![s] = "run"]
  /\ wr' = [wr EXCEPT ![s] = "run"]
  /\ UNCHANGED <<poolVars, warmVars, connVars, wireVars, held, uses, tries, got>>

\* The client cannot be answered: the deferred up.Close runs without a relay.
\* Nothing was read, so PeerClosed is false and the transport is closed, after a
\* zero chunk written without a deadline.
Abort(s) ==
  /\ pc[s] = "ready" /\ ~stalled[held[s]]
  /\ Shut({held[s]})
  /\ held' = [held EXCEPT ![s] = NoConn]
  /\ pc' = [pc EXCEPT ![s] = "closed"]
  /\ UNCHANGED <<poolVars, warmVars, connVars, uses, tries, relVars>>

\* Conn.Write for the client's bytes.
WriteData(s) ==
  LET c == held[s] IN
  /\ wr[s] = "run" /\ ~stalled[c] /\ Len(up[c]) < MaxWire
  /\ Send(c, F("data", s))
  /\ UNCHANGED <<poolVars, warmVars, connVars, tr, down, srv, sesVars, relVars>>

\* Mutant: the client's end of file is not passed on.
CloseWrite_NoZero(s) ==
  /\ wr[s] = "run"
  /\ wr' = [wr EXCEPT ![s] = "closed"]
  /\ UNCHANGED <<poolVars, warmVars, connVars, wireVars, sesVars, rd, got>>

\* The client's stream ended, or a write failed: closeWrite sends the zero
\* chunk (HalfClose), which fails only on a broken transport.
CloseWrite(s) ==
  LET c == held[s] IN
  /\ wr[s] = "run"
  /\ \/ /\ ~stalled[c]
        /\ wr' = [wr EXCEPT ![s] = "closed"]
        /\ Send(c, F("zero", s))
     \/ /\ dropped[c]
        /\ wr' = [wr EXCEPT ![s] = "err"]
        /\ UNCHANGED up
  /\ UNCHANGED <<poolVars, warmVars, connVars, tr, down, srv, sesVars, rd, got>>

\* Conn.Read on the next frame.  The first byte until the reply was read must be
\* that of a tunnel reply: an error reply, a zero chunk or another byte ends the
\* copy with an error, and leftover payload may happen to begin with it.  After
\* the reply, payload goes to the client (which may be gone) and a zero chunk is
\* end of file and sets peerClosed.
ReadReply(s) ==
  LET c == held[s]  f == Head(down[c]) IN
  /\ rd[s] = "run" /\ down[c] # <<>> /\ ~reply[c]
  /\ reply' = [reply EXCEPT ![c] = f.kind # "zero"]
  /\ \/ /\ rd' = [rd EXCEPT ![s] = IF f.kind = "reply" THEN "run" ELSE "done"]
        /\ UNCHANGED got
     \/ /\ f.kind = "data"
        /\ got' = [got EXCEPT ![s] = @ \cup {f.ses}]
        /\ UNCHANGED rd
  /\ down' = [down EXCEPT ![c] = Tail(@)]
  /\ UNCHANGED <<poolVars, warmVars, peerClosed, dropped, stalled, connects, tr, up, srv,
                 sesVars, wr>>

ReadPayload(s) ==
  LET c == held[s]  f == Head(down[c]) IN
  /\ rd[s] = "run" /\ down[c] # <<>> /\ reply[c] /\ f.kind # "zero"
  /\ got' = [got EXCEPT ![s] = @ \cup {f.ses}]
  /\ \E r \in {"run", "done"} : rd' = [rd EXCEPT ![s] = r]
  /\ down' = [down EXCEPT ![c] = Tail(@)]
  /\ UNCHANGED <<poolVars, warmVars, connVars, tr, up, srv, sesVars, wr>>

ReadZero(s) ==
  LET c == held[s]  f == Head(down[c]) IN
  /\ rd[s] = "run" /\ down[c] # <<>> /\ reply[c] /\ f.kind = "zero"
  /\ peerClosed' = [peerClosed EXCEPT ![c] = TRUE]
  /\ rd' = [rd EXCEPT ![s] = "done"]
  /\ down' = [down EXCEPT ![c] = Tail(@)]
  /\ UNCHANGED <<poolVars, warmVars, reply, dropped, stalled, connects, tr, up, srv,
                 sesVars, wr, got>>

\* The TLS stream ended: end of file or an error, and peerClosed stays unset.
ReadDrop(s) ==
  /\ rd[s] = "run" /\ down[held[s]] = <<>> /\ dropped[held[s]]
  /\ rd' = [rd EXCEPT ![s] = "done"]
  /\ UNCHANGED <<poolVars, warmVars, connVars, wireVars, sesVars, wr, got>>

RelayOver(s) == pc[s] = "relay" /\ rd[s] = "done" /\ wr[s] \in {"closed", "err"}

\* pooledConn.Close, both copies having returned: the transport goes back only
\* if the zero chunk was sent and the peer's was seen.
CloseDiscard(s) ==
  /\ RelayOver(s)
  /\ wr[s] = "err" \/ ~peerClosed[held[s]]
  /\ ~Blocked(held[s])
  /\ Shut({held[s]})
  /\ held' = [held EXCEPT ![s] = NoConn]
  /\ pc' = [pc EXCEPT ![s] = "closed"]
  /\ UNCHANGED <<poolVars, warmVars, connVars, uses, tries, relVars>>

\* Mutant: the peer's zero chunk is not awaited.
CloseReset_NoPeer(s) ==
  LET c == held[s] IN
  /\ RelayOver(s) /\ wr[s] = "closed"
  /\ reply' = [reply EXCEPT ![c] = FALSE]
  /\ peerClosed' = [peerClosed EXCEPT ![c] = FALSE]
  /\ pc' = [pc EXCEPT ![s] = "put"]
  /\ UNCHANGED <<poolVars, warmVars, dropped, stalled, connects, wireVars, held, uses,
                 tries, relVars>>

\* SetReadDeadline fails only on a socket that this process has closed, which a
\* transport in use never is.
CloseReset(s) ==
  LET c == held[s] IN
  /\ RelayOver(s)
  /\ wr[s] = "closed" /\ peerClosed[c]
  /\ reply' = [reply EXCEPT ![c] = FALSE]
  /\ peerClosed' = [peerClosed EXCEPT ![c] = FALSE]
  /\ pc' = [pc EXCEPT ![s] = "put"]
  /\ UNCHANGED <<poolVars, warmVars, dropped, stalled, connects, wireVars, held, uses,
                 tries, relVars>>

\* Mutant: put's answer is ignored.
PutBack_Ignored(s) ==
  /\ pc[s] = "put"
  /\ idle' = (IF PutOK(uses[s]) THEN Added(held[s], uses[s]) ELSE idle)
  /\ held' = [held EXCEPT ![s] = NoConn]
  /\ pc' = [pc EXCEPT ![s] = "closed"]
  /\ UNCHANGED <<closed, doomed, popper, popAt, expired, now, warmVars, connVars, wireVars,
                 uses, tries, relVars>>

\* put, which looks at the uses before it takes the lock.
PutBack(s) ==
  /\ pc[s] = "put"
  /\ uses[s] < MaxUses => ~Locked
  /\ IF PutOK(uses[s])
     THEN /\ idle' = Added(held[s], uses[s])
          /\ held' = [held EXCEPT ![s] = NoConn]
          /\ pc' = [pc EXCEPT ![s] = "closed"]
     ELSE /\ pc' = [pc EXCEPT ![s] = "shut"]
          /\ UNCHANGED <<idle, held>>
  /\ UNCHANGED <<closed, doomed, popper, popAt, expired, now, warmVars, connVars, wireVars,
                 uses, tries, relVars>>

\* The pool did not take the transport back.
Refused(s) ==
  /\ pc[s] = "shut" /\ ~Blocked(held[s])
  /\ Shut({held[s]})
  /\ held' = [held EXCEPT ![s] = NoConn]
  /\ pc' = [pc EXCEPT ![s] = "closed"]
  /\ UNCHANGED <<poolVars, warmVars, connVars, uses, tries, relVars>>

-----------------------------------------------------------------------------
(* Pool.Warm: one transport after the other, until one fails or does not   *)
(* fit                                                                     *)

WarmFactory ==
  /\ wpc = "dial"
  /\ \/ \E c \in Conns : Open(c) /\ wconn' = c /\ wpc' = "put"
     \/ wpc' = "done" /\ UNCHANGED <<wireVars, wconn>>
  /\ UNCHANGED <<poolVars, wleft, connVars, sesVars, relVars>>

\* Mutant: the loop does not count.
WarmPut_Endless ==
  /\ wpc = "put" /\ PutOK(0)
  /\ idle' = Added(wconn, 0)
  /\ wleft' = wleft - 1
  /\ wpc' = "dial" /\ wconn' = NoConn
  /\ UNCHANGED <<closed, doomed, popper, popAt, expired, now, wireVars, connVars, sesVars, relVars>>

WarmPut ==
  /\ wpc = "put" /\ ~Locked
  /\ IF PutOK(0)
     THEN /\ idle' = Added(wconn, 0)
          /\ wleft' = wleft - 1
          /\ wpc' = IF wleft > 1 THEN "dial" ELSE "done"
          /\ UNCHANGED wireVars
     ELSE /\ Shut({wconn})
          /\ wpc' = "done"
          /\ UNCHANGED <<idle, wleft>>
  /\ wconn' = NoConn
  /\ UNCHANGED <<closed, doomed, popper, popAt, expired, now, connVars, sesVars, relVars>>

-----------------------------------------------------------------------------
(* Pool.Close: the flag and the list under the lock, the closing after it, *)
(* one transport after the other                                           *)

PoolClose ==
  /\ ~closed /\ ~Locked
  /\ closed' = TRUE
  /\ doomed' = idle
  /\ idle' = <<>>
  /\ UNCHANGED <<popper, popAt, expired, now, warmVars, connVars, wireVars, sesVars, relVars>>

PoolShut ==
  /\ doomed # <<>> /\ ~Blocked(doomed[1].conn)
  /\ Shut({doomed[1].conn})
  /\ doomed' = Tail(doomed)
  /\ UNCHANGED <<idle, closed, popper, popAt, expired, now, warmVars, connVars, sesVars, relVars>>

Tick ==
  /\ now < MaxTime
  /\ now' = now + 1
  /\ UNCHANGED <<idle, closed, doomed, popper, popAt, expired, warmVars, connVars, wireVars,
                 sesVars, relVars>>

-----------------------------------------------------------------------------
(* The server (external): one session at a time on a transport, a reply,   *)
(* payload, one zero chunk, and the next CONNECT after both zero chunks    *)

SrvOnly == UNCHANGED <<poolVars, warmVars, connVars, tr, sesVars, relVars>>
Alive(c) == tr[c] = "open" /\ ~dropped[c]

SrvReceive(c) ==
  LET f == Head(up[c]) IN
  /\ Alive(c) /\ ~stalled[c] /\ up[c] # <<>>
  /\ \/ /\ f.kind = "connect" /\ srv[c].ses = NoSession
        /\ srv' = [srv EXCEPT ![c] = [IdleSrv EXCEPT !.ses = f.ses]]
     \/ f.kind = "zero" /\ srv' = [srv EXCEPT ![c].cfin = TRUE]
     \/ f.kind = "data" /\ UNCHANGED srv
  /\ up' = [up EXCEPT ![c] = Tail(@)]
  /\ UNCHANGED down /\ SrvOnly

SrvSend(c) ==
  LET v == srv[c] IN
  /\ Alive(c) /\ v.ses # NoSession /\ ~v.fin
  /\ \/ /\ ~v.replied
        /\ \E k \in {"reply", "error"} : down' = [down EXCEPT ![c] = Append(@, F(k, v.ses))]
        /\ srv' = [srv EXCEPT ![c].replied = TRUE]
     \/ /\ v.replied /\ Len(down[c]) < MaxWire
        /\ down' = [down EXCEPT ![c] = Append(@, F("data", v.ses))]
        /\ UNCHANGED srv
     \/ /\ v.replied
        /\ down' = [down EXCEPT ![c] = Append(@, F("zero", v.ses))]
        /\ srv' = [srv EXCEPT ![c].fin = TRUE]
  /\ UNCHANGED up /\ SrvOnly

\* Both directions ended; a sloppy server may repeat its zero chunk.
SrvNext(c) ==
  LET v == srv[c] IN
  /\ Alive(c) /\ v.ses # NoSession /\ v.fin /\ v.cfin
  /\ \/ UNCHANGED down
     \/ StrayZero /\ down' = [down EXCEPT ![c] = Append(@, F("zero", v.ses))]
  /\ srv' = [srv EXCEPT ![c] = IdleSrv]
  /\ UNCHANGED up /\ SrvOnly

\* The peer, or the path to it, ends the TLS stream; bytes already received
\* can still be read.
Drop(c) ==
  /\ Alive(c)
  /\ dropped' = [dropped EXCEPT ![c] = TRUE]
  /\ stalled' = [stalled EXCEPT ![c] = FALSE]
  /\ UNCHANGED <<poolVars, warmVars, reply, peerClosed, connects, wireVars,
                 sesVars, relVars>>

\* The server reads no more, and what it has not read fills the buffers.
Stall(c) ==
  /\ Stalls /\ Alive(c) /\ up[c] # <<>>
  /\ stalled' = [stalled EXCEPT ![c] = TRUE]
  /\ UNCHANGED <<poolVars, warmVars, reply, peerClosed, dropped, connects, wireVars,
                 sesVars, relVars>>

-----------------------------------------------------------------------------
\* Everything has come to rest.
AllDone ==
  /\ \A s \in Sessions : pc[s] \in {"closed", "failed"}
  /\ wpc = "done" /\ closed /\ doomed = <<>>
  /\ UNCHANGED vars

DialStep(s) ==
  \/ Take(s) \/ PopClose(s) \/ Miss(s) \/ Factory(s) \/ Recheck(s)
  \/ WriteConnect(s) \/ WriteFails(s)
ReaderStep(s) == ReadReply(s) \/ ReadPayload(s) \/ ReadZero(s) \/ ReadDrop(s)
CloseStep(s) == CloseDiscard(s) \/ CloseReset(s) \/ PutBack(s) \/ Refused(s)
SessionStep(s) ==
  \/ Arrive(s) \/ DialStep(s) \/ StartRelay(s) \/ Abort(s)
  \/ WriteData(s) \/ CloseWrite(s) \/ ReaderStep(s) \/ CloseStep(s)
ServerStep(c) == SrvReceive(c) \/ SrvSend(c) \/ SrvNext(c) \/ Drop(c) \/ Stall(c)
Next ==
  \/ \E s \in Sessions : SessionStep(s)
  \/ \E c \in Conns : ServerStep(c)
  \/ WarmFactory \/ WarmPut \/ PoolClose \/ PoolShut \/ Tick \/ AllDone

Spec == Init /\ [][Next]_vars

\* Goroutines that are not blocked run, a sync.Mutex is handed to whoever waits
\* for it, and a factory called by a session ends at the deadline of its context,
\* as does the write of the request.  Nothing is assumed of clients, of the server
\* (a Close that is Blocked waits for it), of the clock, or of Warm's factory.
FairSpec ==
  /\ Spec
  /\ \A s \in Sessions : WF_vars(DialStep(s) \/ StartRelay(s) \/ Abort(s) \/ CloseStep(s))
  /\ WF_vars(WarmPut) /\ WF_vars(PoolShut)

-----------------------------------------------------------------------------
(* Properties                                                              *)

PoolTypeOK ==
  /\ idle \in Seq(IdleEntry) /\ closed \in BOOLEAN
  /\ doomed \in Seq(IdleEntry) /\ now \in Nat
  /\ popper \in Sessions \cup {NoSession} /\ popAt \in Nat
  /\ expired \in Conns \cup {NoConn}
  /\ wpc \in {"dial", "put", "done"} /\ wleft \in Nat /\ wconn \in Conns \cup {NoConn}
WireTypeOK ==
  /\ tr \in [Conns -> {"unborn", "open", "closed"}]
  /\ up \in [Conns -> Seq(Frame)] /\ down \in [Conns -> Seq(Frame)]
  /\ srv \in [Conns -> SrvState]
ConnTypeOK ==
  /\ reply \in [Conns -> BOOLEAN] /\ peerClosed \in [Conns -> BOOLEAN]
  /\ dropped \in [Conns -> BOOLEAN] /\ stalled \in [Conns -> BOOLEAN]
  /\ connects \in [Conns -> Nat]
SesTypeOK ==
  /\ pc \in [Sessions -> {"new", "take", "miss", "dial", "recheck", "write",
                         "ready", "relay", "put", "shut", "closed", "failed"}]
  /\ held \in [Sessions -> Conns \cup {NoConn}]
  /\ uses \in [Sessions -> Nat] /\ tries \in [Sessions -> Nat]
  /\ rd \in [Sessions -> {"off", "run", "done"}]
  /\ wr \in [Sessions -> {"off", "run", "closed", "err"}]
  /\ got \in [Sessions -> SUBSET Sessions]

\* Every variable of the pool, of snell.Conn, of the wire and of a session has
\* its range; in particular Warm's loop never counts below zero.
TypeOK == PoolTypeOK /\ WireTypeOK /\ ConnTypeOK /\ SesTypeOK

HeldConns == {held[s] : s \in Sessions} \ {NoConn}
WarmConns == {wconn} \ {NoConn}

\* No transport leaks and none is used after it was closed: in every
\* interleaving of Dial, Close, Warm and Pool.Close, a transport is open exactly
\* while the idle list, a session, Warm, pop or the closing Pool.Close refers to it.
NoLeak == \A c \in Conns :
  tr[c] = "open" <=> c \in IdleConns \cup HeldConns \cup WarmConns \cup Closing

\* A transport has one owner: pop, put, take and Pool.Close never leave it both
\* in the idle list and in use, in use by two sessions, or twice in the list.
OneOwner ==
  /\ \A i, j \in DOMAIN idle : idle[i].conn = idle[j].conn => i = j
  /\ \A s, t \in Sessions : held[s] = held[t] /\ held[s] # NoConn => s = t
  /\ \A i, j \in DOMAIN doomed : doomed[i].conn = doomed[j].conn => i = j
  /\ IdleConns \cap (HeldConns \cup WarmConns \cup Closing) = {}
  /\ HeldConns \cap (WarmConns \cup Closing) = {}
  /\ WarmConns \cap Closing = {} /\ expired \notin ConnsOf(doomed)

\* A closed pool keeps nothing: put and the second isClosed of take see the flag
\* whenever Pool.Close ran before them (pool.go put, take).
ClosedPoolEmpty == (closed => idle = <<>>) /\ (doomed # <<>> => closed)

\* poolMaxUses bounds the CONNECTs a transport ever carries, through every path
\* pop -> Dial -> Close -> put and with Warm's PING not counted.
UsesBounded == \A c \in Conns : connects[c] <= MaxUses

\* A client receives its own session's bytes only, over reused transports and
\* whatever the order of half-closes, drops, error replies and stray chunks.
NoCrossSession == \A s \in Sessions : got[s] \subseteq {s}

\* The server never meets a CONNECT inside a session, nor bytes outside it:
\* HalfClose precedes the next WriteConnect on the transport.
UpstreamFramed == \A c \in Conns :
  (tr[c] = "open" /\ up[c] # <<>>) =>
    LET f == Head(up[c])  v == srv[c] IN
    IF f.kind = "connect" THEN v.ses = NoSession \/ (v.fin /\ v.cfin)
                          ELSE v.ses = f.ses /\ ~v.cfin

\* Handing out an idle transport leaves none behind that was expired when pop read
\* the time: entries are kept in the order of their timestamps, so dropping at the
\* front is enough (pop), however long the closing under the lock takes.
NoExpiredSurvivor ==
  [][\A s \in Sessions : (pc[s] = "take" /\ pc'[s] = "write") =>
        LET t == IF popper = s THEN popAt ELSE now IN
        \A i \in DOMAIN idle' : ~Expired(idle'[i], t)]_vars

Dialling(s) == pc[s] \in {"take", "miss", "dial", "recheck", "write"}
LockStuck == expired # NoConn /\ Blocked(expired)

\* Pool.Dial returns: three attempts at most, and it waits neither for Warm nor
\* for the server's reply, and for a server that stopped reading only in one case:
\* a pop, its own or another's, closes an expired WebSocket transport that the
\* server no longer reads, and holds the lock until the stream ends.
DialReturns == \A s \in Sessions : Dialling(s) ~> (~Dialling(s) \/ LockStuck)

\* The Close of c, or of one before it in Pool.Close's list, waits for the server.
CloseStuck(c) ==
  \/ Blocked(c) /\ \E s \in Sessions : held[s] = c /\ (RelayOver(s) \/ pc[s] = "shut")
  \/ c \in ConnsOf(doomed) /\ Blocked(doomed[1].conn)

\* After Pool.Close every transport is closed in the end, except one whose relay
\* still runs and one whose Close is stuck: Close racing Warm, take and put loses
\* none.
ClosedPoolDrains ==
  \A c \in Conns : (closed /\ tr[c] = "open") ~>
     \/ tr[c] = "closed" \/ CloseStuck(c)
     \/ \E s \in Sessions : held[s] = c /\ pc[s] = "relay" /\ ~RelayOver(s)

-----------------------------------------------------------------------------
(* Refinement: the pool leases transports (ConnLease)                      *)

ASSUME LeaseAssumption == Sessions \cap {"unborn", "free", "gone", "warmer", "closer"} = {}

Lease(c) ==
  IF tr[c] = "unborn" THEN "unborn"
  ELSE IF tr[c] = "closed" THEN "gone"
  ELSE IF c \in IdleConns THEN "free"
  ELSE IF c \in HeldConns THEN CHOOSE s \in Sessions : held[s] = c
  ELSE IF c = wconn THEN "warmer" ELSE "closer"

Served(c) ==
  IF c \in IdleConns THEN idle[CHOOSE i \in DOMAIN idle : idle[i].conn = c].uses
  ELSE IF c \in HeldConns THEN uses[CHOOSE s \in Sessions : held[s] = c] ELSE 0

Leases == INSTANCE ConnLease WITH
  lease <- [c \in Conns |-> Lease(c)], served <- [c \in Conns |-> Served(c)], shut <- closed

\* The pool implements exclusive, bounded leases that end for good at Pool.Close.
ImplementsLeases == Leases!Spec
=============================================================================
