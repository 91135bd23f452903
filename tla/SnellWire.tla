------------------------------ MODULE SnellWire ------------------------------
(***************************************************************************)
(* One direction of a Snell v4 stream: the writer of snell/v4.go, the      *)
(* transport under it, and the reader at the other end.  The transport is  *)
(* TLS alone, or the WebSocket layer of dialer/ws.go on it, where a frame  *)
(* is two writes and the goroutine that reads answers pings on the same    *)
(* connection.  Each end counts the nonces by itself: nothing on the wire  *)
(* numbers a frame, so one step lost by either end is never recovered.     *)
(*                                                                         *)
(* Bytes are counted, not represented.  A frame is its kind, the nonces it *)
(* was sealed with and its lengths.                                        *)
(***************************************************************************)
EXTENDS Naturals, Sequences, SequencesExt

CONSTANTS
  FrameSize,   \* the TCP segment the writer aims its first frame at
  MaxPayload,  \* most payload of one frame
  Lens,        \* lengths of the payloads that are written
  MaxCalls,    \* bound: calls of Write, WritePacket and HalfClose
  MaxPings,    \* bound: WebSocket pings
  MaxWire      \* bound: chunks in flight, the socket's buffer

\* A segment has room for the salt, the longest identity, the most padding and a byte
\* (frameSize is 1460), and its size fits the 16 bits of the writer.
ASSUME WireAssumption ==
  /\ FrameSize \in Nat /\ FrameSize >= 607 /\ FrameSize < 65536
  /\ MaxPayload \in Nat \ {0} /\ Lens \subseteq Nat \ {0}
  /\ MaxCalls \in Nat /\ MaxPings \in Nat /\ MaxWire \in Nat \ {0}

VARIABLES
  conf,     \* of the connection: ws, the identity's length, the first padding
  w,        \* v4Writer: nonce, saltSent, payLimit, lastWrite
  mu,       \* who holds w.mu: free, or the call being made
  left,     \* bytes of that call not framed yet
  writeM,   \* who holds wsConn.writeM: free, bin, pong or close
  held,     \* the body the holder of writeM has still to write
  pings,    \* pings sent to us, and of those not answered
  dead,     \* the connection takes no more bytes
  pipe,     \* WebSocket headers and bodies in flight
  rx,       \* Snell frames in flight, below the reader
  rd,       \* Conn and v4Reader at the other end
  calls,    \* calls made
  written,  \* payload bytes framed (history)
  zeros,    \* how many were framed ahead of each zero chunk (history)
  got,      \* payload bytes returned by the reader (history)
  seen,     \* how many were returned ahead of each zero chunk (history)
  last      \* the last frame cut by Write, and its place since the start (history)

sendVars == <<conf, w, mu, left, calls, written, zeros, last>>
wsVars == <<writeM, held, pings, pipe>>
readVars == <<rd, got, seen>>
vars == <<sendVars, wsVars, dead, rx, readVars>>

SaltSize == 16
HeaderSize == 23     \* headerPlainSize and the AEAD's tag
TagSize == 16
Chunk(k, op, f) == [k |-> k, op |-> op, f |-> f]
NoBody == [kind |-> "none"]

Init ==
  /\ conf \in [ws : BOOLEAN, id : {0, 24, 40}, pad : {256, 511}]
  /\ w = [nonce |-> 0, saltSent |-> FALSE, payLimit |-> 0, lastWrite |-> "zero"]
  /\ mu = "free" /\ left = 0 /\ calls = 0 /\ dead = FALSE
  /\ writeM = "free" /\ held = NoBody /\ pings = [sent |-> 0, due |-> 0] /\ pipe = <<>>
  /\ rx = <<>>
  /\ rd = [nonce |-> 0, keyed |-> FALSE, buf |-> 0, reply |-> FALSE,
           peerClosed |-> FALSE, resetAt |-> 0, lost |-> FALSE, err |-> "none"]
  /\ written = 0 /\ zeros = <<>> /\ got = 0 /\ seen = <<>>
  /\ last = [len |-> 1, wire |-> 0, nth |-> 1]

-----------------------------------------------------------------------------
(* v4Writer                                                                *)

\* A packet above the limit is refused before anything is touched.
CallOK(kind, n) == kind = "packet" => n <= MaxPayload

\* Conn.Write, WritePacket or HalfClose takes w.mu.
Begin ==
  /\ mu = "free" /\ calls < MaxCalls /\ ~dead
  /\ \/ \E kind \in {"write", "packet"}, n \in Lens :
          /\ CallOK(kind, n) /\ mu' = kind /\ left' = n
     \/ mu' = "zero" /\ left' = 0
  /\ calls' = calls + 1
  /\ UNCHANGED <<conf, w, written, zeros, last, wsVars, dead, rx, readVars>>

\* Mutant: the first frame leaves no room for the identity.
NextPayloadLimit_NoIdentity ==
  CASE w.lastWrite = "zero" -> (FrameSize + 65536 - 55 - conf.pad) % 65536
    [] w.lastWrite = "idle" -> FrameSize - 39
    [] OTHER                -> w.payLimit

\* nextPayloadLimit, in 16 bits.
NextPayloadLimit ==
  CASE w.lastWrite = "zero" -> (FrameSize + 65536 - 55 - conf.id - conf.pad) % 65536
    [] w.lastWrite = "idle" -> FrameSize - 39
    [] OTHER                -> w.payLimit

Smaller(a, b) == IF a <= b THEN a ELSE b

\* writeFrame seals a header, and the payload when there is one.
Sealed(n, pad) ==
  [kind |-> IF n = 0 THEN "zero" ELSE "data", salt |-> ~w.saltSent,
   hn |-> w.nonce, bn |-> w.nonce + 1, len |-> n, pad |-> pad]

WireSize(f) ==
  (IF f.salt THEN SaltSize + conf.id ELSE 0) + HeaderSize
    + (IF f.kind = "data" THEN f.pad + f.len + TagSize ELSE 0)

\* The next frame of the call, and the writer's pacing after it.
NextFrame ==
  LET next  == NextPayloadLimit
      limit == IF next \in 1..MaxPayload THEN next ELSE MaxPayload
      n     == IF mu = "write" THEN Smaller(limit, left) ELSE left
  IN  [f |-> Sealed(n, IF n > 0 /\ ~w.saltSent THEN conf.pad ELSE 0),
       w |-> [w EXCEPT !.nonce = @ + (IF n = 0 THEN 1 ELSE 2), !.saltSent = TRUE,
                       !.payLimit = IF mu = "write"
                                      THEN Smaller(next + FrameSize - 39, MaxPayload) ELSE @,
                       !.lastWrite = IF mu = "write" THEN "recent" ELSE @]]

\* The call returns when its last byte is in the transport.
Return(n) == /\ left' = n /\ mu' = IF n = 0 THEN "free" ELSE mu

\* writeFrame up to writeFull: on TLS the frame goes out; under WebSocket its
\* header does, once writeM is free, and its body follows.
SendFrame ==
  /\ mu # "free" /\ held = NoBody /\ ~dead /\ Len(pipe) + Len(rx) < MaxWire
  /\ conf.ws => writeM = "free"
  /\ LET x == NextFrame
     IN  /\ w' = x.w
         /\ written' = written + x.f.len
         /\ zeros' = IF x.f.kind = "zero" THEN Append(zeros, written) ELSE zeros
         /\ last' = IF mu # "write" THEN last
                    ELSE [len |-> x.f.len, wire |-> WireSize(x.f),
                          nth |-> IF w.lastWrite = "recent" THEN last.nth + 1 ELSE 1]
         /\ IF conf.ws
            THEN /\ pipe' = Append(pipe, Chunk("head", "bin", NoBody))
                 /\ writeM' = "bin" /\ held' = x.f /\ left' = left - x.f.len
                 /\ UNCHANGED <<rx, mu>>
            ELSE /\ rx' = Append(rx, x.f) /\ Return(left - x.f.len)
                 /\ UNCHANGED <<pipe, writeM, held>>
  /\ UNCHANGED <<conf, calls, pings, dead, readVars>>

\* The masked body; writeM is given back.
SendBody ==
  /\ writeM = "bin" /\ ~dead
  /\ pipe' = Append(pipe, Chunk("body", "bin", held))
  /\ writeM' = "free" /\ held' = NoBody /\ Return(left)
  /\ UNCHANGED <<conf, w, calls, written, zeros, last, pings, dead, rx, readVars>>

\* A call fails on a broken connection: part of its frame may be out.
SendFails ==
  /\ dead /\ mu # "free"
  /\ mu' = "free" /\ left' = 0 /\ held' = NoBody
  /\ writeM' = IF writeM = "bin" THEN "free" ELSE writeM
  /\ UNCHANGED <<conf, w, calls, written, zeros, last, pings, pipe, dead, rx, readVars>>

\* More than 30 s without a Write.
Idle ==
  /\ w.lastWrite = "recent" /\ mu = "free" /\ calls < MaxCalls
  /\ w' = [w EXCEPT !.lastWrite = "idle"]
  /\ UNCHANGED <<conf, mu, left, calls, written, zeros, last, wsVars, dead, rx, readVars>>

-----------------------------------------------------------------------------
(* wsConn, and the connection below                                        *)

\* The peer pings; the reading goroutine will answer.
Ping ==
  /\ conf.ws /\ ~dead /\ pings.sent < MaxPings
  /\ pings' = [sent |-> pings.sent + 1, due |-> pings.due + 1]
  /\ UNCHANGED <<sendVars, writeM, held, pipe, dead, rx, readVars>>

\* Mutant: the pong is written with writeFrame, without the lock.
PongBlind ==
  /\ pings.due > 0 /\ ~dead /\ Len(pipe) + Len(rx) < MaxWire
  /\ pings' = [pings EXCEPT !.due = @ - 1]
  /\ pipe' = Append(pipe, Chunk("head", "empty", NoBody))
  /\ UNCHANGED <<sendVars, writeM, held, dead, rx, readVars>>

\* writeLockedFrame(0xA) by the goroutine that reads: a pong without payload
\* is a header alone.
Pong ==
  /\ pings.due > 0 /\ writeM = "free" /\ ~dead /\ Len(pipe) + Len(rx) < MaxWire
  /\ pings' = [pings EXCEPT !.due = @ - 1]
  /\ \/ pipe' = Append(pipe, Chunk("head", "empty", NoBody)) /\ UNCHANGED writeM
     \/ pipe' = Append(pipe, Chunk("head", "pong", NoBody)) /\ writeM' = "pong"
  /\ UNCHANGED <<sendVars, held, dead, rx, readVars>>

\* The close frame, under the lock too, and then Conn.Close.
CloseFrame ==
  /\ conf.ws /\ writeM = "free" /\ ~dead /\ Len(pipe) + Len(rx) < MaxWire
  /\ pipe' = Append(pipe, Chunk("head", "close", NoBody)) /\ writeM' = "close"
  /\ UNCHANGED <<sendVars, held, pings, dead, rx, readVars>>

ControlBody ==
  /\ writeM \in {"pong", "close"} /\ ~dead
  /\ pipe' = Append(pipe, Chunk("body", writeM, NoBody))
  /\ writeM' = "free" /\ dead' = (writeM = "close")
  /\ UNCHANGED <<sendVars, held, pings, rx, readVars>>

\* The connection is closed below, or breaks, at any moment.
Drop ==
  /\ ~dead /\ dead' = TRUE
  /\ writeM' = IF writeM = "bin" THEN "bin" ELSE "free"
  /\ UNCHANGED <<sendVars, held, pings, pipe, rx, readVars>>

\* wsConn.Read at the other end: a header says what its body is, and how long.
WsRead ==
  /\ pipe # <<>> /\ rd.err = "none"
  /\ LET h == Head(pipe)
         bare == h.op = "empty"
         whole == h.k = "head" /\ (bare \/ (Len(pipe) > 1 /\ pipe[2].k = "body"
                                                         /\ pipe[2].op = h.op))
     IN  /\ bare \/ Len(pipe) > 1
         /\ pipe' = IF bare THEN Tail(pipe) ELSE Tail(Tail(pipe))
         /\ rx' = IF whole /\ h.op = "bin" THEN Append(rx, pipe[2].f) ELSE rx
         /\ rd' = IF whole THEN rd ELSE [rd EXCEPT !.err = "garbled"]
  /\ UNCHANGED <<sendVars, writeM, held, pings, dead, got, seen>>

-----------------------------------------------------------------------------
(* v4Reader and Conn at the other end                                      *)

\* Mutant: the reader counts two nonces for a zero chunk.
OpenFrame_Two ==
  LET f == Head(rx)
      opens == f.hn = rd.nonce /\ f.salt = ~rd.keyed /\ ~rd.lost
  IN  CASE opens /\ f.kind = "zero" -> [kind |-> "zero", nonce |-> rd.nonce + 2]
        [] opens /\ f.kind = "data" /\ f.bn = rd.nonce + 1 -> [kind |-> "data", nonce |-> rd.nonce + 2]
        [] OTHER -> [kind |-> "bad", nonce |-> rd.nonce + 1]

\* readFrame on the next frame: what comes out, and the nonce after it.  The
\* reader takes the salt once, ahead of the first header.
OpenFrame ==
  LET f == Head(rx)
      opens == f.hn = rd.nonce /\ f.salt = ~rd.keyed /\ ~rd.lost
  IN  CASE opens /\ f.kind = "zero" -> [kind |-> "zero", nonce |-> rd.nonce + 1]
        [] opens /\ f.kind = "data" /\ f.bn = rd.nonce + 1 -> [kind |-> "data", nonce |-> rd.nonce + 2]
        [] OTHER -> [kind |-> "bad", nonce |-> rd.nonce + 1]

\* ReadReply: one byte, and the message after it when the byte is cmdError.  A
\* zero chunk there is an error and no half-close.
ReadReply ==
  /\ ~rd.reply /\ rd.err = "none" /\ rd.buf = 0 /\ rx # <<>>
  /\ LET o == OpenFrame
         r == [rd EXCEPT !.nonce = o.nonce, !.keyed = TRUE]
         after == Head(rx).len - 1
     IN  \/ o.kind = "bad" /\ rd' = [r EXCEPT !.err = "garbled"] /\ UNCHANGED <<got, seen>>
         \/ o.kind = "zero" /\ rd' = r /\ seen' = Append(seen, got) /\ UNCHANGED got
         \/ \E n \in {0} \cup ({after} \cap 2..257) :
              /\ o.kind = "data"
              /\ rd' = [r EXCEPT !.buf = after - n, !.reply = TRUE]
              /\ got' = got + 1 + n /\ UNCHANGED seen
  /\ rx' = Tail(rx)
  /\ UNCHANGED <<sendVars, wsVars, dead>>

\* Read with room for a frame, or ReadPacket: what is left of the last frame,
\* else the next frame, where a zero chunk is the end of the stream.
Read ==
  /\ rd.reply /\ rd.err = "none"
  /\ \/ /\ rd.buf > 0
        /\ got' = got + rd.buf /\ rd' = [rd EXCEPT !.buf = 0]
        /\ UNCHANGED <<rx, seen>>
     \/ /\ rd.buf = 0 /\ rx # <<>> /\ rx' = Tail(rx)
        /\ LET o == OpenFrame
               r == [rd EXCEPT !.nonce = o.nonce, !.keyed = TRUE]
           IN  /\ rd' = CASE o.kind = "bad"  -> [r EXCEPT !.err = "garbled"]
                          [] o.kind = "zero" -> [r EXCEPT !.peerClosed = TRUE]
                          [] OTHER           -> r
               /\ got' = IF o.kind = "data" THEN got + Head(rx).len ELSE got
               /\ seen' = IF o.kind = "zero" THEN Append(seen, got) ELSE seen
  /\ UNCHANGED <<sendVars, wsVars, dead>>

\* A read deadline in the middle of a Snell frame, or of a WebSocket frame under it,
\* a pong included: io.ReadFull drops what it had.  The bytes behind are then read out
\* of place, by either layer, and no Snell frame opens any more.
ReadTimesOut ==
  /\ rd.err = "none" /\ rd.buf = 0 /\ ~rd.lost
  /\ rx # <<>> \/ pipe # <<>>
  /\ rd' = [rd EXCEPT !.lost = TRUE]
  /\ UNCHANGED <<sendVars, wsVars, dead, rx, got, seen>>

\* The stream stops with no zero chunk: an error, or io.EOF that is no half-close.
ReadEnds ==
  /\ dead /\ rx = <<>> /\ rd.buf = 0 /\ rd.err = "none"
  /\ \A i \in DOMAIN pipe : Len(pipe) = 1 /\ pipe[i].op # "empty"
  /\ rd' = [rd EXCEPT !.err = "ended"]
  /\ UNCHANGED <<sendVars, wsVars, dead, rx, got, seen>>

\* The pool takes the half-closed stream for its next request.
ResetReply ==
  /\ rd.peerClosed /\ rd.err = "none"
  /\ rd' = [rd EXCEPT !.reply = FALSE, !.peerClosed = FALSE, !.resetAt = Len(seen)]
  /\ UNCHANGED <<sendVars, wsVars, dead, rx, got, seen>>

Next ==
  \/ Begin \/ SendFrame \/ SendBody \/ SendFails \/ Idle
  \/ Ping \/ Pong \/ CloseFrame \/ ControlBody \/ Drop \/ WsRead
  \/ ReadReply \/ Read \/ ReadTimesOut \/ ReadEnds \/ ResetReply

Spec == Init /\ [][Next]_vars

-----------------------------------------------------------------------------
\* The two ends stay in step for any mix of Write, WritePacket and HalfClose,
\* pongs and closes: the reader returns bytes only of what was written, finds
\* each zero chunk after exactly the bytes it was written after, reports a
\* half-close only for one it found in this exchange (Conn.Read, PeerClosed),
\* and fails to open a frame only when a deadline made it drop bytes.
InStep ==
  /\ IsPrefix(seen, zeros)
  /\ got + rd.buf <= IF Len(seen) < Len(zeros) THEN zeros[Len(seen) + 1] ELSE written
  /\ rd.peerClosed => Len(seen) > rd.resetAt
  /\ rd.err = "garbled" => rd.lost

\* The frames Write cuts fit the segments nextPayloadLimit aims at: the first
\* one, with salt, identity and padding, is within one TCP segment, and so is
\* the first after 30 s; the n-th since then is within n of them; and a payload
\* is never empty or above maxPayload, whatever 16 bits make of the sum.
FrameFits ==
  /\ last.len \in 1..MaxPayload
  /\ last.wire <= last.nth * FrameSize
=============================================================================
