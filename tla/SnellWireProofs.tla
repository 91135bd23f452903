---------------------------- MODULE SnellWireProofs ----------------------------
(***************************************************************************)
(* One direction of a Snell stream for any segment size, payloads, number  *)
(* of calls, pings and chunks in flight: the two ends count the same       *)
(* nonces, and the writer's frames fit the segments it aims at.            *)
(***************************************************************************)
EXTENDS SnellWire, TLAPS

-----------------------------------------------------------------------------
(* What is in its range, and what a sealed frame is.                       *)

Ops == {"bin", "pong", "close"}
SealedFrame ==
  {f \in [kind : {"zero", "data"}, salt : BOOLEAN, hn : Nat, bn : Nat, len : Nat, pad : Nat] :
     f.bn = f.hn + 1 /\ (f.salt <=> f.hn = 0) /\ (f.kind = "zero" <=> f.len = 0)}
Chunks == [k : {"head", "body"}, op : Ops \cup {"empty"}, f : SealedFrame \cup {NoBody}]

Ranges ==
  /\ conf \in [ws : BOOLEAN, id : {0, 24, 40}, pad : {256, 511}]
  /\ w \in [nonce : Nat, saltSent : BOOLEAN, payLimit : Nat, lastWrite : {"zero", "idle", "recent"}]
  /\ mu \in {"free", "write", "packet", "zero"} /\ left \in Nat
  /\ writeM \in {"free"} \cup Ops /\ held \in SealedFrame \cup {NoBody}
  /\ pings \in [sent : Nat, due : Nat] /\ dead \in BOOLEAN
  /\ pipe \in Seq(Chunks) /\ rx \in Seq(SealedFrame)
  /\ rd \in [nonce : Nat, keyed : BOOLEAN, buf : Nat, reply : BOOLEAN, peerClosed : BOOLEAN,
             resetAt : Nat, lost : BOOLEAN, err : {"none", "garbled", "ended"}]
  /\ written \in Nat /\ got \in Nat /\ zeros \in Seq(Nat) /\ seen \in Seq(Nat)

\* Each end counts from its own first frame, which carries the salt.
Salted == (w.saltSent <=> w.nonce > 0) /\ (rd.keyed <=> rd.nonce > 0)

-----------------------------------------------------------------------------
(* WebSocket: a header is followed by its body, whoever writes it.         *)

IsBody(c, op) == c.k = "body" /\ c.op = op
IsHead(c, op) == c.k = "head" /\ c.op = op

Framing ==
  /\ ~conf.ws => pipe = <<>> /\ writeM = "free" /\ pings.due = 0
  /\ writeM = "bin" <=> held # NoBody
  /\ writeM # "free" => Len(pipe) > 0 /\ IsHead(pipe[Len(pipe)], writeM)
  /\ Len(pipe) > 0 => pipe[1].k = "head"
  /\ \A i \in 1..Len(pipe) :
       /\ IsBody(pipe[i], "bin") => pipe[i].f # NoBody
       /\ pipe[i].k = "body" => pipe[i].op # "empty"
       /\ (pipe[i].k = "head" /\ pipe[i].op # "empty") =>
            IF i < Len(pipe) THEN IsBody(pipe[i + 1], pipe[i].op) ELSE dead \/ writeM = pipe[i].op
       /\ (pipe[i].k = "body" \/ pipe[i].op = "empty") /\ i < Len(pipe) => pipe[i + 1].k = "head"

-----------------------------------------------------------------------------
(* The frames between the two ends, in the order they were sealed.         *)

After(f) == f.hn + (IF f.kind = "zero" THEN 1 ELSE 2)

\* The nonce of the frame behind those below the reader.
Below == IF rx = <<>> THEN rd.nonce ELSE After(rx[Len(rx)])

\* The books number the bytes, the zero chunks or the nonces, by place.
Books == [Nat -> Nat]

ReaderOrdered == \A i \in 1..Len(rx) : rx[i].hn = IF i = 1 THEN rd.nonce ELSE After(rx[i - 1])

\* due[i] is the nonce of the first frame whose body is at i or behind it.
PipeOrdered(due) ==
  \A i \in 1..Len(pipe) :
    IF IsBody(pipe[i], "bin") THEN pipe[i].f.hn = due[i] /\ due[i + 1] = After(pipe[i].f)
    ELSE due[i + 1] = due[i]

WriterOrdered(n) ==
  /\ (~dead /\ held = NoBody) => n = w.nonce
  /\ (~dead /\ held # NoBody) => n = held.hn /\ After(held) = w.nonce

Ordered(due) ==
  ReaderOrdered /\ due[1] = Below /\ PipeOrdered(due) /\ WriterOrdered(due[Len(pipe) + 1])

Limit(z) == IF z < Len(zeros) THEN zeros[z + 1] ELSE written

\* The frame agrees with the ledger: how much was written before nonce n, in bytes
\* (off[n]) and in zero chunks (nz[n]).
Agrees(f, off, nz) ==
  /\ After(f) \leq w.nonce
  /\ off[After(f)] = off[f.hn] + f.len
  /\ nz[After(f)] = nz[f.hn] + (IF f.kind = "zero" THEN 1 ELSE 0)
  /\ IF f.kind = "zero" THEN nz[f.hn] < Len(zeros) /\ zeros[nz[f.hn] + 1] = off[f.hn]
     ELSE off[After(f)] \leq Limit(nz[f.hn])

\* The frames that are sealed and not read.
Flying ==
  {rx[i] : i \in 1..Len(rx)}
    \cup {pipe[i].f : i \in {j \in 1..Len(pipe) : IsBody(pipe[j], "bin")}} \cup ({held} \ {NoBody})

Ledger(off, nz) ==
  /\ rd.nonce \leq w.nonce
  /\ off[rd.nonce] = got + rd.buf /\ nz[rd.nonce] = Len(seen)
  /\ off[w.nonce] = written /\ nz[w.nonce] = Len(zeros)
  /\ \A f \in Flying : Agrees(f, off, nz)

Chained ==
  /\ \E due \in Books : Ordered(due)
  /\ \E off \in Books, nz \in Books : Ledger(off, nz)

-----------------------------------------------------------------------------
(* What the reader has told its caller.                                    *)

Matched == Len(seen) \leq Len(zeros) /\ \A i \in 1..Len(seen) : seen[i] = zeros[i]

Rising == \A i \in 1..Len(zeros) : zeros[i] \leq Limit(i)

Told ==
  /\ Matched /\ Rising
  /\ got + rd.buf \leq Limit(Len(seen))
  /\ rd.resetAt \leq Len(seen) /\ (rd.peerClosed => rd.resetAt < Len(seen))
  /\ rd.err = "garbled" => rd.lost

StepInv == Ranges /\ Salted /\ Framing /\ Told /\ (rd.err = "none" => Chained)

-----------------------------------------------------------------------------
(* The writer.                                                             *)

\* The limit is a number of bytes, whatever 16 bits make of the sum.
LEMMA LimitIsNat == ASSUME Ranges PROVE NextPayloadLimit \in Nat
<1>1. FrameSize - 39 \in Nat
  BY WireAssumption DEF WireAssumption
<1>2. w.payLimit \in Nat
  BY DEF Ranges
<1>3. (FrameSize + 65536 - 55 - conf.id - conf.pad) % 65536 \in Nat
  <2>1. conf.id \in {0, 24, 40} /\ conf.pad \in {256, 511}
    BY DEF Ranges
  <2>2. FrameSize \in Nat /\ FrameSize >= 607
    BY WireAssumption DEF WireAssumption
  <2>. QED BY <2>1, <2>2
<1>. QED BY <1>1, <1>2, <1>3 DEF NextPayloadLimit

\* A frame is sealed with the writer's next nonces, and the writer counts them.
LEMMA NextSealed ==
  ASSUME Ranges, Salted, mu # "free"
  PROVE  /\ NextFrame.f \in SealedFrame /\ NextFrame.f.hn = w.nonce
         /\ NextFrame.f.len \leq left
         /\ NextFrame.w \in [nonce : Nat, saltSent : BOOLEAN, payLimit : Nat,
                             lastWrite : {"zero", "idle", "recent"}]
         /\ NextFrame.w.nonce = After(NextFrame.f) /\ NextFrame.w.saltSent
<1>. DEFINE next  == NextPayloadLimit
            limit == IF next \in 1..MaxPayload THEN next ELSE MaxPayload
            n     == IF mu = "write" THEN Smaller(limit, left) ELSE left
            pad   == IF n > 0 /\ ~w.saltSent THEN conf.pad ELSE 0
            v     == [w EXCEPT !.nonce = @ + (IF n = 0 THEN 1 ELSE 2), !.saltSent = TRUE,
                               !.payLimit = IF mu = "write"
                                              THEN Smaller(next + FrameSize - 39, MaxPayload) ELSE @,
                               !.lastWrite = IF mu = "write" THEN "recent" ELSE @]
<1>1. NextFrame.f = Sealed(n, pad) /\ NextFrame.w = v
  BY DEF NextFrame
<1>2. next \in Nat
  BY LimitIsNat
<1>9. FrameSize - 39 \in Nat /\ MaxPayload \in Nat
  BY WireAssumption DEF WireAssumption
<1>3. left \in Nat
      /\ w \in [nonce : Nat, saltSent : BOOLEAN, payLimit : Nat, lastWrite : {"zero", "idle", "recent"}]
  BY DEF Ranges
<1>8. conf.pad \in Nat
  BY DEF Ranges
<1>. HIDE DEF next
<1>4. n \in Nat /\ n \leq left /\ pad \in Nat
  BY <1>2, <1>3, <1>8, <1>9 DEF Smaller
<1>5. Smaller(next + FrameSize - 39, MaxPayload) \in Nat
  <2>1. next + FrameSize - 39 = next + (FrameSize - 39)
    BY <1>2, WireAssumption DEF WireAssumption
  <2>. QED BY <1>2, <1>9, <2>1 DEF Smaller
<1>. HIDE DEF n, pad
<1>6. /\ Sealed(n, pad) \in SealedFrame /\ Sealed(n, pad).hn = w.nonce /\ Sealed(n, pad).len = n
      /\ After(Sealed(n, pad)) = w.nonce + (IF n = 0 THEN 1 ELSE 2)
  <2>. DEFINE s == Sealed(n, pad)
  <2>1. w.nonce \in Nat /\ w.nonce + 1 \in Nat /\ (~w.saltSent) \in BOOLEAN
    BY <1>3
  <2>2. s \in [kind : {"zero", "data"}, salt : BOOLEAN, hn : Nat, bn : Nat, len : Nat, pad : Nat]
    BY <2>1, <1>4 DEF Sealed
  <2>3. /\ s.hn = w.nonce /\ s.bn = w.nonce + 1 /\ s.len = n /\ (s.kind = "zero" <=> n = 0)
        /\ s.salt = ~w.saltSent
    BY DEF Sealed
  <2>4. s.salt <=> w.nonce = 0
    <3>1. w.nonce = 0 <=> ~(w.nonce > 0)
      BY <2>1
    <3>. QED BY <2>3, <3>1, ZenonT(30) DEF Salted
  <2>. HIDE DEF s
  <2>5. s \in SealedFrame
    BY <2>2, <2>3, <2>4 DEF SealedFrame
  <2>6. After(s) = w.nonce + (IF n = 0 THEN 1 ELSE 2)
    BY <2>3 DEF After
  <2>. QED BY <2>3, <2>5, <2>6 DEF s
<1>7. /\ v.nonce = w.nonce + (IF n = 0 THEN 1 ELSE 2) /\ v.saltSent
      /\ v \in [nonce : Nat, saltSent : BOOLEAN, payLimit : Nat, lastWrite : {"zero", "idle", "recent"}]
  <2>1. PICK q \in Nat : q = w.nonce + (IF n = 0 THEN 1 ELSE 2)
    BY <1>3
  <2>2. PICK p \in Nat : p = IF mu = "write" THEN Smaller(next + FrameSize - 39, MaxPayload) ELSE w.payLimit
    BY <1>3, <1>5
  <2>3. PICK l \in {"zero", "idle", "recent"} : l = IF mu = "write" THEN "recent" ELSE w.lastWrite
    BY <1>3
  <2>4. v = [w EXCEPT !.nonce = q, !.saltSent = TRUE, !.payLimit = p, !.lastWrite = l]
    BY <2>1, <2>2, <2>3
  <2>. HIDE DEF v
  <2>. QED BY <1>3, <2>1, <2>4
<1>. QED BY <1>1, <1>4, <1>6, <1>7

\* What SendFrame does: the frame is under way, in one write or after its header.
LEMMA SendEffect ==
  ASSUME Ranges, Salted, Framing, SendFrame
  PROVE  \E f \in SealedFrame :
           /\ f.hn = w.nonce /\ ~dead /\ held = NoBody /\ writeM = "free" /\ mu # "free"
           /\ w'.nonce = After(f) /\ w'.saltSent
           /\ w' \in [nonce : Nat, saltSent : BOOLEAN, payLimit : Nat, lastWrite : {"zero", "idle", "recent"}]
           /\ left' \in Nat /\ mu' \in {mu, "free"} /\ written' = written + f.len
           /\ zeros' = (IF f.kind = "zero" THEN Append(zeros, written) ELSE zeros)
           /\ \/ /\ conf.ws /\ pipe' = Append(pipe, Chunk("head", "bin", NoBody))
                 /\ writeM' = "bin" /\ held' = f /\ rx' = rx
              \/ /\ ~conf.ws /\ rx' = Append(rx, f) /\ UNCHANGED <<pipe, writeM, held>>
           /\ UNCHANGED <<conf, pings, dead, rd, got, seen>>
<1>. DEFINE x == NextFrame
<1>1. /\ x.f \in SealedFrame /\ x.f.hn = w.nonce /\ x.f.len \leq left
      /\ x.w \in [nonce : Nat, saltSent : BOOLEAN, payLimit : Nat, lastWrite : {"zero", "idle", "recent"}]
      /\ x.w.nonce = After(x.f) /\ x.w.saltSent
  BY NextSealed DEF SendFrame
<1>2. /\ mu # "free" /\ held = NoBody /\ ~dead /\ (conf.ws => writeM = "free")
      /\ w' = x.w /\ written' = written + x.f.len
      /\ zeros' = (IF x.f.kind = "zero" THEN Append(zeros, written) ELSE zeros)
      /\ IF conf.ws
            THEN /\ pipe' = Append(pipe, Chunk("head", "bin", NoBody))
                 /\ writeM' = "bin" /\ held' = x.f /\ left' = left - x.f.len
                 /\ UNCHANGED <<rx, mu>>
            ELSE /\ rx' = Append(rx, x.f) /\ Return(left - x.f.len)
                 /\ UNCHANGED <<pipe, writeM, held>>
      /\ UNCHANGED <<conf, pings, dead, rd, got, seen>>
  BY DEF SendFrame, readVars
<1>3. left - x.f.len \in Nat
  <2>1. left \in Nat /\ x.f.len \in Nat
    BY <1>1 DEF Ranges, SealedFrame
  <2>. QED BY <1>1, <2>1
<1>4. left' \in Nat /\ mu' \in {mu, "free"}
  BY <1>2, <1>3 DEF Return
<1>5. writeM = "free"
  BY <1>2 DEF Framing
<1>6. PICK f \in SealedFrame : f = x.f
  BY <1>1
<1>. HIDE DEF x
<1>. QED BY <1>1, <1>2, <1>4, <1>5, <1>6

\* A sealed frame is a body, and nothing else is.
LEMMA BodyKinds ==
  /\ NoBody \notin SealedFrame
  /\ \A op \in Ops \cup {"empty"} :
       /\ Chunk("head", op, NoBody) \in Chunks /\ IsHead(Chunk("head", op, NoBody), op)
       /\ Chunk("head", op, NoBody).f = NoBody
       /\ \A f \in SealedFrame \cup {NoBody} :
            /\ Chunk("body", op, f) \in Chunks /\ IsBody(Chunk("body", op, f), op)
            /\ Chunk("body", op, f).f = f
BY DEF SealedFrame, NoBody, Chunk, Chunks, IsHead, IsBody

\* The frame on top of the reader is opened with the reader's next nonces, or the
\* reader has lost its place.
LEMMA OpenEffect ==
  ASSUME Ranges, Salted, Chained, rx # <<>>
  PROVE  /\ rd.lost => OpenFrame.kind = "bad" /\ OpenFrame.nonce \in Nat /\ OpenFrame.nonce > 0
         /\ ~rd.lost => /\ OpenFrame.kind = Head(rx).kind
                        /\ OpenFrame.nonce = After(Head(rx))
<1>. DEFINE f == Head(rx)
<1>1. f \in SealedFrame /\ f = rx[1] /\ 1 \in 1..Len(rx)
  BY DEF Ranges
<1>2. f.hn = rd.nonce
  BY <1>1 DEF Chained, Ordered, ReaderOrdered
<1>3. rd.nonce \in Nat /\ rd.keyed \in BOOLEAN /\ f.hn \in Nat /\ f.salt \in BOOLEAN /\ f.kind \in {"zero", "data"}
  BY <1>1 DEF Ranges, SealedFrame
<1>4. f.bn = f.hn + 1 /\ (f.salt <=> f.hn = 0)
  BY <1>1 DEF SealedFrame
<1>5. f.salt = ~rd.keyed
  <2>1. f.hn = 0 <=> ~(rd.nonce > 0)
    BY <1>2, <1>3
  <2>. QED BY <1>3, <1>4, <2>1, ZenonT(30) DEF Salted
<1>. DEFINE opens == f.hn = rd.nonce /\ f.salt = ~rd.keyed /\ ~rd.lost
<1>. HIDE DEF f
<1>6. OpenFrame =
        CASE opens /\ f.kind = "zero" -> [kind |-> "zero", nonce |-> rd.nonce + 1]
          [] opens /\ f.kind = "data" /\ f.bn = rd.nonce + 1 -> [kind |-> "data", nonce |-> rd.nonce + 2]
          [] OTHER -> [kind |-> "bad", nonce |-> rd.nonce + 1]
  BY DEF OpenFrame, f
<1>9. opens <=> ~rd.lost
  BY <1>2, <1>5
<1>. HIDE DEF opens
<1>7. CASE rd.lost
  <2>1. OpenFrame = [kind |-> "bad", nonce |-> rd.nonce + 1]
    BY <1>6, <1>7, <1>9
  <2>. QED BY <1>3, <1>7, <2>1
<1>8. CASE ~rd.lost
  <2>1. CASE f.kind = "zero"
    <3>1. OpenFrame = [kind |-> "zero", nonce |-> rd.nonce + 1]
      BY <1>6, <1>8, <1>9, <2>1
    <3>. QED BY <1>2, <1>8, <2>1, <3>1 DEF After, f
  <2>2. CASE f.kind = "data"
    <3>1. OpenFrame = [kind |-> "data", nonce |-> rd.nonce + 2]
      BY <1>2, <1>4, <1>6, <1>8, <1>9, <2>2
    <3>. QED BY <1>2, <1>8, <2>2, <3>1 DEF After, f
  <2>. QED BY <1>3, <2>1, <2>2
<1>. QED BY <1>7, <1>8

\* What a read of the next frame does to the reader, once for both callers.
Taken(f) ==
  /\ f \in SealedFrame /\ f = rx[1] /\ rx' = Tail(rx) /\ rd.buf = 0 /\ rd.err = "none"
  /\ rd' \in [nonce : Nat, keyed : BOOLEAN, buf : Nat, reply : BOOLEAN, peerClosed : BOOLEAN,
              resetAt : Nat, lost : BOOLEAN, err : {"none", "garbled", "ended"}]
  /\ rd'.lost = rd.lost /\ rd'.resetAt = rd.resetAt /\ rd'.keyed /\ rd'.nonce > 0
  /\ \/ rd.lost /\ rd'.err = "garbled" /\ rd'.buf = 0 /\ rd'.peerClosed = rd.peerClosed
        /\ got' = got /\ seen' = seen
     \/ /\ ~rd.lost /\ rd'.err = "none" /\ rd'.nonce = After(f)
        /\ IF f.kind = "zero"
           THEN rd'.buf = 0 /\ got' = got /\ seen' = Append(seen, got)
           ELSE /\ got' \in Nat /\ got' + rd'.buf = got + f.len /\ seen' = seen
                /\ rd'.peerClosed = rd.peerClosed

LEMMA AfterNat == ASSUME NEW f \in SealedFrame PROVE After(f) \in Nat /\ After(f) > 0 /\ After(f) > f.hn
BY DEF SealedFrame, After

LEMMA ReadReplyTakes ==
  ASSUME Ranges, Salted, Chained, ReadReply PROVE Taken(rx[1])
<1>. DEFINE f == rx[1]
            o == OpenFrame
            r == [rd EXCEPT !.nonce = o.nonce, !.keyed = TRUE]
<1>1. /\ rx # <<>> /\ rx' = Tail(rx) /\ rd.buf = 0 /\ rd.err = "none" /\ f = Head(rx)
      /\ f \in SealedFrame
  BY DEF ReadReply, Ranges
<1>2. /\ \/ o.kind = "bad" /\ rd' = [r EXCEPT !.err = "garbled"] /\ UNCHANGED <<got, seen>>
         \/ o.kind = "zero" /\ rd' = r /\ seen' = Append(seen, got) /\ UNCHANGED got
         \/ \E n \in {0} \cup ({f.len - 1} \cap 2..257) :
              /\ o.kind = "data"
              /\ rd' = [r EXCEPT !.buf = f.len - 1 - n, !.reply = TRUE]
              /\ got' = got + 1 + n /\ UNCHANGED seen
  BY <1>1 DEF ReadReply
<1>3. /\ rd.lost => o.kind = "bad" /\ o.nonce \in Nat /\ o.nonce > 0
      /\ ~rd.lost => o.kind = f.kind /\ o.nonce = After(f)
  BY <1>1, OpenEffect
<1>4. After(f) \in Nat /\ After(f) > 0 /\ f.len \in Nat /\ f.kind \in {"zero", "data"}
      /\ (f.kind = "zero" <=> f.len = 0)
  BY <1>1, AfterNat DEF SealedFrame
<1>5. rd \in [nonce : Nat, keyed : BOOLEAN, buf : Nat, reply : BOOLEAN, peerClosed : BOOLEAN,
              resetAt : Nat, lost : BOOLEAN, err : {"none", "garbled", "ended"}] /\ got \in Nat
  BY DEF Ranges
<1>6. PICK k : k = o.kind
  OBVIOUS
<1>7. PICK m : m = o.nonce
  OBVIOUS
<1>8. /\ r = [rd EXCEPT !.nonce = m, !.keyed = TRUE]
  BY <1>7
<1>. HIDE DEF f, o, r
<1>9. CASE rd.lost
  <2>1. rd' = [rd EXCEPT !.nonce = m, !.keyed = TRUE, !.err = "garbled"] /\ m \in Nat /\ m > 0
        /\ UNCHANGED <<got, seen>>
    BY <1>2, <1>3, <1>6, <1>7, <1>8, <1>9
  <2>. QED BY <1>1, <1>5, <1>9, <2>1 DEF Taken, f
<1>10. CASE ~rd.lost /\ f.kind = "zero"
  <2>1. rd' = [rd EXCEPT !.nonce = m, !.keyed = TRUE] /\ m = After(f) /\ m \in Nat /\ m > 0
        /\ got' = got /\ seen' = Append(seen, got)
    BY <1>2, <1>3, <1>4, <1>6, <1>7, <1>8, <1>10
  <2>. QED BY <1>1, <1>5, <1>10, <2>1 DEF Taken, f
<1>11. CASE ~rd.lost /\ f.kind = "data"
  <2>1. PICK n \in {0} \cup ({f.len - 1} \cap 2..257) :
              /\ rd' = [r EXCEPT !.buf = f.len - 1 - n, !.reply = TRUE]
              /\ got' = got + 1 + n /\ UNCHANGED seen
    BY <1>2, <1>3, <1>6, <1>11
  <2>2. n \in Nat /\ f.len - 1 - n \in Nat /\ (f.len - 1 - n) + (got + 1 + n) = got + f.len
    BY <1>4, <1>5, <1>11
  <2>3. PICK b \in Nat : b = f.len - 1 - n
    BY <2>2
  <2>4. rd' = [rd EXCEPT !.nonce = m, !.keyed = TRUE, !.buf = b, !.reply = TRUE] /\ m = After(f)
        /\ m \in Nat /\ m > 0
    BY <1>3, <1>4, <1>6, <1>7, <1>8, <1>11, <2>1, <2>3
  <2>5. rd'.buf = b /\ got' \in Nat /\ got' + b = got + f.len
    BY <1>5, <2>1, <2>2, <2>3, <2>4
  <2>6. /\ rd' \in [nonce : Nat, keyed : BOOLEAN, buf : Nat, reply : BOOLEAN, peerClosed : BOOLEAN,
                    resetAt : Nat, lost : BOOLEAN, err : {"none", "garbled", "ended"}]
        /\ rd'.nonce = m /\ rd'.keyed /\ rd'.lost = rd.lost /\ rd'.err = rd.err
        /\ rd'.resetAt = rd.resetAt /\ rd'.peerClosed = rd.peerClosed
    BY <1>5, <2>3, <2>4
  <2>. QED BY <1>1, <1>11, <2>1, <2>4, <2>5, <2>6 DEF Taken, f
<1>. QED BY <1>4, <1>9, <1>10, <1>11 DEF f

LEMMA ReadTakes ==
  ASSUME Ranges, Salted, Chained, Read, rd.buf = 0 PROVE Taken(rx[1])
<1>. DEFINE f == rx[1]
            o == OpenFrame
            r == [rd EXCEPT !.nonce = o.nonce, !.keyed = TRUE]
<1>1. /\ rx # <<>> /\ rx' = Tail(rx) /\ rd.err = "none" /\ f = Head(rx) /\ f \in SealedFrame
  BY DEF Read, Ranges
<1>2. /\ rd' = CASE o.kind = "bad"  -> [r EXCEPT !.err = "garbled"]
                 [] o.kind = "zero" -> [r EXCEPT !.peerClosed = TRUE]
                 [] OTHER           -> r
      /\ got' = IF o.kind = "data" THEN got + f.len ELSE got
      /\ seen' = IF o.kind = "zero" THEN Append(seen, got) ELSE seen
  BY <1>1 DEF Read, Ranges
<1>3. /\ rd.lost => o.kind = "bad" /\ o.nonce \in Nat /\ o.nonce > 0
      /\ ~rd.lost => o.kind = f.kind /\ o.nonce = After(f)
  BY <1>1, OpenEffect
<1>4. After(f) \in Nat /\ After(f) > 0 /\ f.len \in Nat /\ f.kind \in {"zero", "data"}
      /\ (f.kind = "zero" <=> f.len = 0)
  BY <1>1, AfterNat DEF SealedFrame
<1>5. rd \in [nonce : Nat, keyed : BOOLEAN, buf : Nat, reply : BOOLEAN, peerClosed : BOOLEAN,
              resetAt : Nat, lost : BOOLEAN, err : {"none", "garbled", "ended"}] /\ got \in Nat
  BY DEF Ranges
<1>6. PICK k : k = o.kind
  OBVIOUS
<1>7. PICK m : m = o.nonce
  OBVIOUS
<1>8. /\ r = [rd EXCEPT !.nonce = m, !.keyed = TRUE]
  BY <1>7
<1>. HIDE DEF f, o, r
<1>9. CASE rd.lost
  <2>1. k = "bad"
    BY <1>3, <1>6, <1>9
  <2>2. rd' = [r EXCEPT !.err = "garbled"]
    BY <1>2, <1>6, <2>1
  <2>3. rd' = [rd EXCEPT !.nonce = m, !.keyed = TRUE, !.err = "garbled"] /\ m \in Nat /\ m > 0
        /\ UNCHANGED <<got, seen>>
    BY <1>2, <1>3, <1>6, <1>7, <1>8, <1>9, <2>1, <2>2
  <2>. QED BY <1>1, <1>5, <1>9, <2>3 DEF Taken, f
<1>10. CASE ~rd.lost /\ f.kind = "zero"
  <2>1. k = "zero"
    BY <1>3, <1>6, <1>10
  <2>2. rd' = [r EXCEPT !.peerClosed = TRUE]
    BY <1>2, <1>6, <2>1
  <2>3. rd' = [rd EXCEPT !.nonce = m, !.keyed = TRUE, !.peerClosed = TRUE] /\ m = After(f)
        /\ m \in Nat /\ m > 0 /\ got' = got /\ seen' = Append(seen, got)
    BY <1>2, <1>3, <1>4, <1>6, <1>7, <1>8, <1>10, <2>1, <2>2
  <2>. QED BY <1>1, <1>5, <1>10, <2>3 DEF Taken, f
<1>11. CASE ~rd.lost /\ f.kind = "data"
  <2>1. k = "data"
    BY <1>3, <1>6, <1>11
  <2>2. rd' = r
    BY <1>2, <1>6, <2>1
  <2>3. rd' = [rd EXCEPT !.nonce = m, !.keyed = TRUE] /\ m = After(f)
        /\ m \in Nat /\ m > 0 /\ got' = got + f.len /\ seen' = seen
    BY <1>2, <1>3, <1>4, <1>6, <1>7, <1>8, <1>11, <2>1, <2>2
  <2>4. rd'.buf = 0 /\ got' \in Nat /\ got' + 0 = got'
    BY <1>4, <1>5, <2>3
  <2>. QED BY <1>1, <1>5, <1>11, <2>3, <2>4 DEF Taken, f
<1>. QED BY <1>4, <1>9, <1>10, <1>11 DEF f

-----------------------------------------------------------------------------
(* The ranges, the salt and the WebSocket frames, action by action.        *)

LEMMA AppendSeq ==
  ASSUME NEW S, NEW s \in Seq(S), NEW e \in S PROVE Append(s, e) \in Seq(S)
OBVIOUS

LEMMA EmptySeq ==
  ASSUME NEW S, NEW s \in Seq(S), Len(s) = 0 PROVE s = <<>>
OBVIOUS

LEMMA TakenRanges ==
  ASSUME Ranges, rx # <<>>, Taken(rx[1]), UNCHANGED <<sendVars, wsVars, dead>>
  PROVE  Ranges'
<1>1. rx' \in Seq(SealedFrame)
  BY DEF Taken, Ranges
<1>3. got \in Nat /\ seen \in Seq(Nat)
  BY DEF Ranges
<1>4. (got' = got /\ (seen' = seen \/ seen' = Append(seen, got))) \/ (got' \in Nat /\ seen' = seen)
  BY DEF Taken
<1>5. got' \in Nat /\ seen' \in Seq(Nat)
  <2>1. Append(seen, got) \in Seq(Nat)
    BY <1>3, AppendSeq
  <2>. QED BY <1>3, <1>4, <2>1
<1>2. rd' \in [nonce : Nat, keyed : BOOLEAN, buf : Nat, reply : BOOLEAN, peerClosed : BOOLEAN,
               resetAt : Nat, lost : BOOLEAN, err : {"none", "garbled", "ended"}]
  BY DEF Taken
<1>. QED BY <1>1, <1>2, <1>5 DEF Ranges, sendVars, wsVars

\* A header and its body leave the pipe together.
LEMMA TwoTails ==
  ASSUME NEW S, NEW s \in Seq(S), Len(s) > 1
  PROVE  /\ Tail(Tail(s)) \in Seq(S) /\ Len(Tail(Tail(s))) = Len(s) - 2
         /\ \A i \in 1..(Len(s) - 2) : Tail(Tail(s))[i] = s[i + 2]
<1>1. PICK u \in Seq(S) : /\ u = Tail(s) /\ Len(u) = Len(s) - 1 /\ Len(u) > 0
                         /\ \A i \in 1..(Len(s) - 1) : u[i] = s[i + 1]
  <2>1. Tail(s) \in Seq(S) /\ Len(Tail(s)) = Len(s) - 1 /\ \A i \in 1..(Len(s) - 1) : Tail(s)[i] = s[i + 1]
    OBVIOUS
  <2>2. Len(s) \in Nat
    OBVIOUS
  <2>3. Len(Tail(s)) > 0
    BY <2>1, <2>2
  <2>. QED BY <2>1, <2>3
<1>2. Len(s) \in Nat
  OBVIOUS
<1>3. Tail(u) \in Seq(S) /\ Len(Tail(u)) = Len(u) - 1 /\ \A i \in 1..(Len(u) - 1) : Tail(u)[i] = u[i + 1]
  BY <1>1
<1>. QED BY <1>1, <1>2, <1>3

LEMMA ReadRest ==
  ASSUME Ranges, Read, rd.buf # 0
  PROVE  /\ rd.err = "none" /\ got' = got + rd.buf /\ rd' = [rd EXCEPT !.buf = 0]
         /\ UNCHANGED <<rx, seen, sendVars, wsVars, dead>>
BY DEF Read, Ranges

LEMMA WsReadEffect ==
  ASSUME Ranges, Framing, WsRead
  PROVE  /\ Len(pipe) > 0 /\ rd.err = "none" /\ rd' = rd
         /\ \/ IsHead(pipe[1], "empty") /\ pipe' = Tail(pipe) /\ rx' = rx
            \/ \E op \in Ops :
                 /\ Len(pipe) > 1 /\ IsHead(pipe[1], op) /\ IsBody(pipe[2], op)
                 /\ pipe' = Tail(Tail(pipe))
                 /\ rx' = IF op = "bin" THEN Append(rx, pipe[2].f) ELSE rx
         /\ UNCHANGED <<sendVars, writeM, held, pings, dead, got, seen>>
<1>. DEFINE h == Head(pipe)
            bare == h.op = "empty"
            whole == h.k = "head" /\ (bare \/ (Len(pipe) > 1 /\ pipe[2].k = "body"
                                                         /\ pipe[2].op = h.op))
<1>1. /\ pipe # <<>> /\ rd.err = "none" /\ (bare \/ Len(pipe) > 1)
      /\ pipe' = (IF bare THEN Tail(pipe) ELSE Tail(Tail(pipe)))
      /\ rx' = (IF whole /\ h.op = "bin" THEN Append(rx, pipe[2].f) ELSE rx)
      /\ rd' = (IF whole THEN rd ELSE [rd EXCEPT !.err = "garbled"])
      /\ UNCHANGED <<sendVars, writeM, held, pings, dead, got, seen>>
  BY DEF WsRead
<1>2. Len(pipe) > 0 /\ h = pipe[1] /\ h \in Chunks /\ 1 \in 1..Len(pipe)
  BY <1>1 DEF Ranges
<1>3. h.k = "head" /\ h.op \in Ops \cup {"empty"}
  BY <1>2 DEF Framing, Chunks
<1>4. CASE bare
  <2>1. whole /\ ~(h.op = "bin")
    BY <1>3, <1>4
  <2>. HIDE DEF whole
  <2>2. rd' = rd /\ rx' = rx /\ pipe' = Tail(pipe)
    BY <1>1, <1>4, <2>1
  <2>. QED BY <1>1, <1>2, <1>3, <1>4, <2>2 DEF IsHead
<1>5. CASE ~bare
  <2>1. Len(pipe) > 1 /\ h.op \in Ops
    BY <1>1, <1>3, <1>5
  <2>2. IsBody(pipe[2], h.op)
    <3>1. IF 1 < Len(pipe) THEN IsBody(pipe[1 + 1], pipe[1].op) ELSE dead \/ writeM = pipe[1].op
      BY <1>2, <1>3, <1>5 DEF Framing
    <3>. QED BY <1>2, <2>1, <3>1
  <2>3. whole
    BY <1>3, <2>1, <2>2 DEF IsBody
  <2>. HIDE DEF whole
  <2>4. rd' = rd /\ rx' = (IF h.op = "bin" THEN Append(rx, pipe[2].f) ELSE rx)
        /\ pipe' = Tail(Tail(pipe)) /\ IsHead(pipe[1], h.op)
    BY <1>1, <1>2, <1>3, <1>5, <2>3 DEF IsHead
  <2>. HIDE DEF h
  <2>. QED BY <1>1, <1>2, <2>1, <2>2, <2>4
<1>. QED BY <1>4, <1>5

LEMMA RangesStep ==
  ASSUME Ranges, Salted, Framing, rd.err = "none" => Chained, [Next]_vars PROVE Ranges'
<1>1. CASE Begin
  <2>1. /\ mu' \in {"write", "packet", "zero"} /\ left' \in Nat
        /\ UNCHANGED <<conf, w, written, zeros, last, wsVars, dead, rx, readVars>>
    BY <1>1, WireAssumption DEF Begin, WireAssumption
  <2>. QED BY <2>1 DEF Ranges, wsVars, readVars
<1>2. CASE SendFrame
  <2>1. PICK f \in SealedFrame :
           /\ w' \in [nonce : Nat, saltSent : BOOLEAN, payLimit : Nat, lastWrite : {"zero", "idle", "recent"}]
           /\ left' \in Nat /\ mu' \in {mu, "free"} /\ written' = written + f.len
           /\ zeros' = (IF f.kind = "zero" THEN Append(zeros, written) ELSE zeros)
           /\ \/ /\ pipe' = Append(pipe, Chunk("head", "bin", NoBody))
                 /\ writeM' = "bin" /\ held' = f /\ rx' = rx
              \/ rx' = Append(rx, f) /\ UNCHANGED <<pipe, writeM, held>>
           /\ UNCHANGED <<conf, pings, dead, rd, got, seen>>
    BY <1>2, SendEffect
  <2>2. written' \in Nat /\ zeros' \in Seq(Nat)
    <3>1. written \in Nat /\ zeros \in Seq(Nat) /\ f.len \in Nat
      BY DEF Ranges, SealedFrame
    <3>2. zeros' = zeros \/ zeros' = Append(zeros, written)
      BY <2>1
    <3>. QED BY <2>1, <3>1, <3>2
  <2>3. pipe' \in Seq(Chunks) /\ rx' \in Seq(SealedFrame)
    <3>1. pipe \in Seq(Chunks) /\ rx \in Seq(SealedFrame)
      BY DEF Ranges
    <3>2. PICK c \in Chunks : c = Chunk("head", "bin", NoBody)
      BY BodyKinds DEF Ops
    <3>3. (pipe' = pipe \/ pipe' = Append(pipe, c)) /\ (rx' = rx \/ rx' = Append(rx, f))
      BY <2>1, <3>2
    <3>4. Append(pipe, c) \in Seq(Chunks) /\ Append(rx, f) \in Seq(SealedFrame)
      BY <3>1, AppendSeq
    <3>. QED BY <3>1, <3>3, <3>4
  <2>4. writeM' \in {"free"} \cup Ops /\ held' \in SealedFrame \cup {NoBody}
        /\ mu' \in {"free", "write", "packet", "zero"}
    <3>1. /\ writeM \in {"free"} \cup Ops /\ held \in SealedFrame \cup {NoBody}
          /\ mu \in {"free", "write", "packet", "zero"}
      BY DEF Ranges
    <3>2. writeM' \in {writeM, "bin"} /\ held' \in {held, f} /\ mu' \in {mu, "free"}
      BY <2>1
    <3>. QED BY <3>1, <3>2 DEF Ops
  <2>. QED BY <2>1, <2>2, <2>3, <2>4 DEF Ranges
<1>3. CASE SendBody
  <2>1. /\ pipe' = Append(pipe, Chunk("body", "bin", held)) /\ writeM' = "free" /\ held' = NoBody
        /\ left' = left /\ mu' \in {mu, "free"}
        /\ UNCHANGED <<conf, w, written, zeros, pings, dead, rx, readVars>>
    BY <1>3 DEF SendBody, Return
  <2>2. pipe' \in Seq(Chunks)
    BY <2>1, BodyKinds DEF Ranges, Ops
  <2>3. mu' \in {"free", "write", "packet", "zero"}
    BY <2>1 DEF Ranges
  <2>. QED BY <2>1, <2>2, <2>3 DEF Ranges, readVars
<1>4. CASE SendFails
  <2>1. /\ mu' = "free" /\ left' = 0 /\ held' = NoBody /\ writeM' \in {"free", writeM}
        /\ UNCHANGED <<conf, w, written, zeros, pings, pipe, dead, rx, readVars>>
    BY <1>4 DEF SendFails
  <2>. QED BY <2>1 DEF Ranges, readVars
<1>5. CASE Idle
  <2>1. /\ w' = [w EXCEPT !.lastWrite = "idle"]
        /\ UNCHANGED <<conf, mu, left, written, zeros, wsVars, dead, rx, readVars>>
    BY <1>5 DEF Idle
  <2>2. w' \in [nonce : Nat, saltSent : BOOLEAN, payLimit : Nat, lastWrite : {"zero", "idle", "recent"}]
    BY <2>1 DEF Ranges
  <2>. QED BY <2>1, <2>2 DEF Ranges, wsVars, readVars
<1>6. CASE Ping
  BY <1>6 DEF Ping, Ranges, sendVars, readVars
<1>7. CASE Pong \/ CloseFrame
  <2>1. /\ \E op \in {"empty", "pong", "close"} : pipe' = Append(pipe, Chunk("head", op, NoBody))
        /\ writeM' \in {writeM, "pong", "close"}
        /\ (pings' = [pings EXCEPT !.due = @ - 1] /\ pings.due > 0) \/ pings' = pings
        /\ UNCHANGED <<sendVars, held, dead, rx, readVars>>
    BY <1>7 DEF Pong, CloseFrame
  <2>2. pipe' \in Seq(Chunks)
    BY <2>1, BodyKinds DEF Ranges, Ops
  <2>3. pings' \in [sent : Nat, due : Nat]
    BY <2>1 DEF Ranges
  <2>. QED BY <2>1, <2>2, <2>3 DEF Ranges, sendVars, readVars, Ops
<1>8. CASE ControlBody
  <2>1. /\ writeM \in {"pong", "close"} /\ pipe' = Append(pipe, Chunk("body", writeM, NoBody))
        /\ writeM' = "free" /\ dead' \in BOOLEAN
        /\ UNCHANGED <<sendVars, held, pings, rx, readVars>>
    BY <1>8 DEF ControlBody
  <2>2. pipe' \in Seq(Chunks)
    BY <2>1, BodyKinds DEF Ranges, Ops
  <2>. QED BY <2>1, <2>2 DEF Ranges, sendVars, readVars
<1>9. CASE Drop
  BY <1>9 DEF Drop, Ranges, sendVars, readVars, Ops
<1>10. CASE WsRead
  <2>1. /\ rd' = rd /\ UNCHANGED <<sendVars, writeM, held, pings, dead, got, seen>>
        /\ \/ pipe' = Tail(pipe) /\ rx' = rx
           \/ pipe' = Tail(Tail(pipe)) /\ Len(pipe) > 1 /\ rx' = rx
           \/ /\ pipe' = Tail(Tail(pipe)) /\ Len(pipe) > 1 /\ rx' = Append(rx, pipe[2].f)
              /\ IsBody(pipe[2], "bin")
        /\ Len(pipe) > 0
    BY <1>10, WsReadEffect
  <2>2. pipe' \in Seq(Chunks)
    <3>1. pipe \in Seq(Chunks)
      BY DEF Ranges
    <3>2. Tail(pipe) \in Seq(Chunks)
      BY <2>1, <3>1
    <3>3. Len(pipe) > 1 => Tail(Tail(pipe)) \in Seq(Chunks)
      BY <3>1, TwoTails
    <3>. QED BY <2>1, <3>2, <3>3
  <2>3. rx' \in Seq(SealedFrame)
    <3>1. (Len(pipe) > 1 /\ IsBody(pipe[2], "bin")) => pipe[2].f \in SealedFrame
      <4>. SUFFICES ASSUME Len(pipe) > 1, IsBody(pipe[2], "bin") PROVE pipe[2].f \in SealedFrame
        OBVIOUS
      <4>1. 2 \in 1..Len(pipe) /\ pipe[2] \in Chunks
        BY DEF Ranges
      <4>2. pipe[2].f # NoBody
        BY <4>1 DEF Framing
      <4>. QED BY <4>1, <4>2 DEF Chunks
    <3>2. rx \in Seq(SealedFrame)
      BY DEF Ranges
    <3>3. rx' = rx \/ \E f \in SealedFrame : rx' = Append(rx, f)
      BY <2>1, <3>1
    <3>. QED BY <3>2, <3>3
  <2>. QED BY <2>1, <2>2, <2>3 DEF Ranges, sendVars
<1>11. CASE ReadReply
  <2>1. rd.err = "none" /\ rx # <<>> /\ UNCHANGED <<sendVars, wsVars, dead>>
    BY <1>11 DEF ReadReply
  <2>. QED BY <1>11, <2>1, ReadReplyTakes, TakenRanges
<1>12. CASE Read /\ rd.buf = 0
  <2>1. rd.err = "none" /\ rx # <<>> /\ UNCHANGED <<sendVars, wsVars, dead>>
    BY <1>12 DEF Read
  <2>. QED BY <1>12, <2>1, ReadTakes, TakenRanges
<1>13. CASE Read /\ rd.buf # 0
  <2>1. /\ got' = got + rd.buf /\ rd' = [rd EXCEPT !.buf = 0]
        /\ UNCHANGED <<rx, seen, sendVars, wsVars, dead>>
    BY <1>13, ReadRest
  <2>2. /\ rd \in [nonce : Nat, keyed : BOOLEAN, buf : Nat, reply : BOOLEAN, peerClosed : BOOLEAN,
                 resetAt : Nat, lost : BOOLEAN, err : {"none", "garbled", "ended"}]
        /\ got \in Nat
    BY DEF Ranges
  <2>3. /\ rd' \in [nonce : Nat, keyed : BOOLEAN, buf : Nat, reply : BOOLEAN, peerClosed : BOOLEAN,
                  resetAt : Nat, lost : BOOLEAN, err : {"none", "garbled", "ended"}]
    BY <2>1, <2>2
  <2>4. got' \in Nat
    BY <2>1, <2>2
  <2>. QED BY <2>1, <2>3, <2>4 DEF Ranges, sendVars, wsVars
<1>14. CASE ReadTimesOut \/ ReadEnds \/ ResetReply
  <2>1. /\ \/ rd' = [rd EXCEPT !.lost = TRUE]
           \/ rd' = [rd EXCEPT !.err = "ended"]
           \/ rd' = [rd EXCEPT !.reply = FALSE, !.peerClosed = FALSE, !.resetAt = Len(seen)]
        /\ UNCHANGED <<sendVars, wsVars, dead, rx, got, seen>>
    BY <1>14 DEF ReadTimesOut, ReadEnds, ResetReply
  <2>2. Len(seen) \in Nat
    BY DEF Ranges
  <2>3. rd' \in [nonce : Nat, keyed : BOOLEAN, buf : Nat, reply : BOOLEAN, peerClosed : BOOLEAN,
                 resetAt : Nat, lost : BOOLEAN, err : {"none", "garbled", "ended"}]
    <3>1. rd \in [nonce : Nat, keyed : BOOLEAN, buf : Nat, reply : BOOLEAN, peerClosed : BOOLEAN,
                  resetAt : Nat, lost : BOOLEAN, err : {"none", "garbled", "ended"}]
      BY DEF Ranges
    <3>. QED BY <2>1, <2>2, <3>1
  <2>. QED BY <2>1, <2>3 DEF Ranges, sendVars, wsVars
<1>15. CASE UNCHANGED vars
  BY <1>15 DEF Ranges, vars, sendVars, wsVars, readVars
<1>. QED
  BY <1>1, <1>2, <1>3, <1>4, <1>5, <1>6, <1>7, <1>8, <1>9, <1>10, <1>11, <1>12, <1>13, <1>14, <1>15
  DEF Next

\* A step leaves one end's count alone or moves it past the salt.
LEMMA SaltedStep ==
  ASSUME Ranges, Salted, Framing, rd.err = "none" => Chained, [Next]_vars PROVE Salted'
<1>1. CASE SendFrame
  <2>1. PICK f \in SealedFrame : w'.nonce = After(f) /\ w'.saltSent /\ rd' = rd
    BY <1>1, SendEffect
  <2>. QED BY <2>1, AfterNat DEF Salted
<1>2. CASE Idle
  <2>1. w'.saltSent = w.saltSent /\ w'.nonce = w.nonce /\ rd' = rd
    BY <1>2 DEF Idle, Ranges, readVars
  <2>. QED BY <2>1 DEF Salted
<1>3. CASE ReadReply
  <2>1. Taken(rx[1]) /\ w' = w
    BY <1>3, ReadReplyTakes DEF ReadReply, sendVars
  <2>. QED BY <2>1 DEF Salted, Taken
<1>4. CASE Read
  <2>1. CASE rd.buf = 0
    <3>1. Taken(rx[1]) /\ w' = w
      BY <1>4, <2>1, ReadTakes DEF Read, sendVars
    <3>. QED BY <3>1 DEF Salted, Taken
  <2>2. CASE rd.buf # 0
    <3>1. rd' = [rd EXCEPT !.buf = 0] /\ w' = w
      BY <1>4, <2>2, ReadRest DEF sendVars
    <3>2. rd'.keyed = rd.keyed /\ rd'.nonce = rd.nonce
      BY <3>1 DEF Ranges
    <3>. QED BY <3>1, <3>2 DEF Salted
  <2>. QED BY <2>1, <2>2
<1>5. CASE ReadTimesOut \/ ReadEnds \/ ResetReply
  <2>1. /\ \/ rd' = [rd EXCEPT !.lost = TRUE]
           \/ rd' = [rd EXCEPT !.err = "ended"]
           \/ rd' = [rd EXCEPT !.reply = FALSE, !.peerClosed = FALSE, !.resetAt = Len(seen)]
        /\ w' = w
    BY <1>5 DEF ReadTimesOut, ReadEnds, ResetReply, sendVars
  <2>2. rd'.keyed = rd.keyed /\ rd'.nonce = rd.nonce
    <3>1. rd \in [nonce : Nat, keyed : BOOLEAN, buf : Nat, reply : BOOLEAN, peerClosed : BOOLEAN,
                  resetAt : Nat, lost : BOOLEAN, err : {"none", "garbled", "ended"}]
      BY DEF Ranges
    <3>. QED BY <2>1, <3>1
  <2>. QED BY <2>1, <2>2 DEF Salted
<1>6. CASE WsRead
  <2>1. rd' = rd /\ w' = w
    BY <1>6, WsReadEffect DEF sendVars
  <2>. QED BY <2>1 DEF Salted
<1>7. CASE Begin \/ SendBody \/ SendFails \/ Ping \/ Pong \/ CloseFrame \/ ControlBody \/ Drop \/ UNCHANGED vars
  <2>1. rd' = rd /\ w' = w
    BY <1>7 DEF Begin, SendBody, SendFails, Ping, Pong, CloseFrame, ControlBody, Drop, vars, sendVars, readVars
  <2>. QED BY <2>1 DEF Salted
<1>. QED BY <1>1, <1>2, <1>3, <1>4, <1>5, <1>6, <1>7 DEF Next

\* A header goes out only when no header waits for its body.
LEMMA HeadFraming ==
  ASSUME Ranges, Framing, conf.ws, conf' = conf, ~dead, writeM = "free", NEW op \in Ops \cup {"empty"},
         pipe' = Append(pipe, Chunk("head", op, NoBody)),
         writeM' = IF op = "empty" THEN "free" ELSE op, (writeM' = "bin") <=> (held' # NoBody)
  PROVE  Framing'
<1>. DEFINE c == Chunk("head", op, NoBody)
<1>1. c.k = "head" /\ c.op = op /\ IsHead(c, op)
  BY DEF Chunk, IsHead
<1>2. Len(pipe') = Len(pipe) + 1 /\ Len(pipe) \in Nat /\ pipe'[Len(pipe) + 1] = c
      /\ \A i \in 1..Len(pipe) : pipe'[i] = pipe[i]
  BY DEF Ranges
<1>. HIDE DEF c
<1>3. Len(pipe) > 0 => pipe[Len(pipe)].k = "body" \/ pipe[Len(pipe)].op = "empty"
  <2>. SUFFICES ASSUME Len(pipe) > 0 PROVE pipe[Len(pipe)].k = "body" \/ pipe[Len(pipe)].op = "empty"
    OBVIOUS
  <2>1. Len(pipe) \in 1..Len(pipe) /\ pipe[Len(pipe)] \in Chunks
    BY <1>2 DEF Ranges
  <2>2. pipe[Len(pipe)].k \in {"head", "body"}
    BY <2>1 DEF Chunks
  <2>3. (pipe[Len(pipe)].k = "head" /\ pipe[Len(pipe)].op # "empty") => writeM = pipe[Len(pipe)].op
    BY <2>1 DEF Framing
  <2>4. pipe[Len(pipe)].op \in Ops \cup {"empty"}
    BY <2>1 DEF Chunks
  <2>. QED BY <2>2, <2>3, <2>4 DEF Ops
<1>4. \A i \in 1..Len(pipe') :
       /\ IsBody(pipe'[i], "bin") => pipe'[i].f # NoBody
       /\ pipe'[i].k = "body" => pipe'[i].op # "empty"
       /\ (pipe'[i].k = "head" /\ pipe'[i].op # "empty") =>
            IF i < Len(pipe') THEN IsBody(pipe'[i + 1], pipe'[i].op) ELSE dead' \/ writeM' = pipe'[i].op
       /\ (pipe'[i].k = "body" \/ pipe'[i].op = "empty") /\ i < Len(pipe') => pipe'[i + 1].k = "head"
  <2>. SUFFICES ASSUME NEW i \in 1..Len(pipe') PROVE
       /\ IsBody(pipe'[i], "bin") => pipe'[i].f # NoBody
       /\ pipe'[i].k = "body" => pipe'[i].op # "empty"
       /\ (pipe'[i].k = "head" /\ pipe'[i].op # "empty") =>
            IF i < Len(pipe') THEN IsBody(pipe'[i + 1], pipe'[i].op) ELSE dead' \/ writeM' = pipe'[i].op
       /\ (pipe'[i].k = "body" \/ pipe'[i].op = "empty") /\ i < Len(pipe') => pipe'[i + 1].k = "head"
    OBVIOUS
  <2>1. CASE i = Len(pipe) + 1
    BY <1>1, <1>2, <2>1 DEF IsBody
  <2>2. CASE i < Len(pipe)
    <3>1. pipe'[i] = pipe[i] /\ pipe'[i + 1] = pipe[i + 1] /\ i \in 1..Len(pipe)
      BY <1>2, <2>2
    <3>. QED BY <1>2, <2>2, <3>1 DEF Framing
  <2>3. CASE i = Len(pipe)
    <3>1. pipe'[i] = pipe[i] /\ pipe'[i + 1] = c /\ i \in 1..Len(pipe) /\ Len(pipe) > 0
      BY <1>2, <2>3
    <3>2. /\ IsBody(pipe[i], "bin") => pipe[i].f # NoBody
          /\ pipe[i].k = "body" => pipe[i].op # "empty"
          /\ pipe[i].k = "body" \/ pipe[i].op = "empty"
      BY <1>3, <2>3, <3>1 DEF Framing
    <3>3. pipe[i].k = "head" => pipe[i].op = "empty"
      BY <3>2
    <3>. QED BY <1>1, <3>1, <3>2, <3>3
  <2>. QED BY <1>2, <2>1, <2>2, <2>3
<1>5. pipe'[1].k = "head"
  <2>1. CASE Len(pipe) = 0 BY <1>1, <1>2, <2>1
  <2>2. CASE Len(pipe) > 0 BY <1>2, <2>2 DEF Framing
  <2>. QED BY <1>2, <2>1, <2>2
<1>6. writeM' # "free" => Len(pipe') > 0 /\ IsHead(pipe'[Len(pipe')], writeM')
  BY <1>1, <1>2
<1>. QED BY <1>4, <1>5, <1>6 DEF Framing

\* A body goes out right behind its header.
LEMMA BodyFraming ==
  ASSUME Ranges, Framing, conf' = conf, writeM \in Ops, NEW f \in SealedFrame \cup {NoBody},
         pipe' = Append(pipe, Chunk("body", writeM, f)), writeM = "bin" => f # NoBody,
         writeM' = "free", held' = NoBody
  PROVE  Framing'
<1>. DEFINE c == Chunk("body", writeM, f)
<1>1. c.k = "body" /\ c.op = writeM /\ c.f = f /\ IsBody(c, writeM)
  BY DEF Chunk, IsBody
<1>2. Len(pipe') = Len(pipe) + 1 /\ Len(pipe) \in Nat /\ pipe'[Len(pipe) + 1] = c
      /\ \A i \in 1..Len(pipe) : pipe'[i] = pipe[i]
  BY DEF Ranges
<1>. HIDE DEF c
<1>3. writeM # "free" /\ writeM # "empty" /\ conf.ws
  BY DEF Ops, Framing
<1>4. Len(pipe) > 0 /\ IsHead(pipe[Len(pipe)], writeM)
  BY <1>3 DEF Framing
<1>5. \A i \in 1..Len(pipe') :
       /\ IsBody(pipe'[i], "bin") => pipe'[i].f # NoBody
       /\ pipe'[i].k = "body" => pipe'[i].op # "empty"
       /\ (pipe'[i].k = "head" /\ pipe'[i].op # "empty") =>
            IF i < Len(pipe') THEN IsBody(pipe'[i + 1], pipe'[i].op) ELSE dead' \/ writeM' = pipe'[i].op
       /\ (pipe'[i].k = "body" \/ pipe'[i].op = "empty") /\ i < Len(pipe') => pipe'[i + 1].k = "head"
  <2>. SUFFICES ASSUME NEW i \in 1..Len(pipe') PROVE
       /\ IsBody(pipe'[i], "bin") => pipe'[i].f # NoBody
       /\ pipe'[i].k = "body" => pipe'[i].op # "empty"
       /\ (pipe'[i].k = "head" /\ pipe'[i].op # "empty") =>
            IF i < Len(pipe') THEN IsBody(pipe'[i + 1], pipe'[i].op) ELSE dead' \/ writeM' = pipe'[i].op
       /\ (pipe'[i].k = "body" \/ pipe'[i].op = "empty") /\ i < Len(pipe') => pipe'[i + 1].k = "head"
    OBVIOUS
  <2>1. CASE i = Len(pipe) + 1
    BY <1>1, <1>2, <1>3, <2>1 DEF IsBody
  <2>2. CASE i < Len(pipe)
    <3>1. pipe'[i] = pipe[i] /\ pipe'[i + 1] = pipe[i + 1] /\ i \in 1..Len(pipe)
      BY <1>2, <2>2
    <3>. QED BY <1>2, <2>2, <3>1 DEF Framing
  <2>3. CASE i = Len(pipe)
    <3>1. pipe'[i] = pipe[i] /\ pipe'[i + 1] = c /\ pipe[i].k = "head" /\ pipe[i].op = writeM /\ i < Len(pipe')
      BY <1>2, <1>4, <2>3 DEF IsHead
    <3>. QED BY <1>1, <1>3, <3>1 DEF IsBody
  <2>. QED BY <1>2, <2>1, <2>2, <2>3
<1>6. pipe'[1].k = "head"
  BY <1>2, <1>4 DEF Framing
<1>. QED BY <1>3, <1>5, <1>6 DEF Framing

\* A whole frame leaves at the other end.
LEMMA ShiftFraming ==
  ASSUME Ranges, Framing, NEW k \in {1, 2}, k \leq Len(pipe), pipe' \in Seq(Chunks),
         Len(pipe') = Len(pipe) - k, \A i \in 1..(Len(pipe) - k) : pipe'[i] = pipe[i + k],
         pipe[k].k = "body" \/ pipe[k].op = "empty", pipe[k].k = "body" => pipe[k].op # "empty",
         UNCHANGED <<conf, writeM, held, pings, dead>>
  PROVE  Framing'
<1>1. Len(pipe) \in Nat /\ k \in 1..Len(pipe) /\ k \in Nat /\ conf.ws
  BY DEF Ranges, Framing
<1>2. \A i \in 1..Len(pipe') :
        /\ i + k \in 1..Len(pipe) /\ pipe'[i] = pipe[i + k] /\ (i < Len(pipe') <=> i + k < Len(pipe))
        /\ i < Len(pipe') => pipe'[i + 1] = pipe[(i + k) + 1]
  <2>. SUFFICES ASSUME NEW i \in 1..Len(pipe') PROVE
        /\ i + k \in 1..Len(pipe) /\ pipe'[i] = pipe[i + k] /\ (i < Len(pipe') <=> i + k < Len(pipe))
        /\ i < Len(pipe') => pipe'[i + 1] = pipe[(i + k) + 1]
    OBVIOUS
  <2>1. i + k \in 1..Len(pipe) /\ pipe'[i] = pipe[i + k] /\ (i < Len(pipe') <=> i + k < Len(pipe))
    BY <1>1
  <2>2. i < Len(pipe') => i + 1 \in 1..(Len(pipe) - k) /\ (i + 1) + k = (i + k) + 1
    BY <1>1
  <2>. QED BY <2>1, <2>2
<1>3. Len(pipe') > 0 => pipe'[1].k = "head"
  <2>. SUFFICES ASSUME Len(pipe') > 0 PROVE pipe'[1].k = "head" OBVIOUS
  <2>1. pipe'[1] = pipe[k + 1] /\ k < Len(pipe)
    <3>1. k + 1 = 1 + k /\ 1 \in 1..(Len(pipe) - k) /\ k < Len(pipe)
      BY <1>1
    <3>. QED BY <3>1
  <2>2. pipe[k + 1].k = "head"
    BY <1>1, <2>1 DEF Framing
  <2>. QED BY <2>1, <2>2
<1>4. writeM # "free" => Len(pipe') > 0 /\ IsHead(pipe'[Len(pipe')], writeM)
  <2>. SUFFICES ASSUME writeM # "free" PROVE Len(pipe') > 0 /\ IsHead(pipe'[Len(pipe')], writeM)
    OBVIOUS
  <2>1. IsHead(pipe[Len(pipe)], writeM)
    BY DEF Framing
  <2>2. writeM # "empty"
    BY DEF Ranges, Ops
  <2>3. k # Len(pipe)
    BY <2>1, <2>2 DEF IsHead
  <2>4. Len(pipe') \in 1..(Len(pipe) - k) /\ Len(pipe') + k = Len(pipe)
    BY <1>1, <2>3
  <2>. QED BY <2>1, <2>4
<1>5. \A i \in 1..Len(pipe') :
       /\ IsBody(pipe'[i], "bin") => pipe'[i].f # NoBody
       /\ pipe'[i].k = "body" => pipe'[i].op # "empty"
       /\ (pipe'[i].k = "head" /\ pipe'[i].op # "empty") =>
            IF i < Len(pipe') THEN IsBody(pipe'[i + 1], pipe'[i].op) ELSE dead' \/ writeM' = pipe'[i].op
       /\ (pipe'[i].k = "body" \/ pipe'[i].op = "empty") /\ i < Len(pipe') => pipe'[i + 1].k = "head"
  BY <1>2 DEF Framing
<1>. QED BY <1>1, <1>3, <1>4, <1>5 DEF Framing

LEMMA FramingStep ==
  ASSUME Ranges, Framing, Salted, rd.err = "none" => Chained, [Next]_vars, Ranges' PROVE Framing'
<1>1. CASE SendFrame
  <2>1. PICK f \in SealedFrame :
           /\ ~dead /\ held = NoBody /\ writeM = "free" /\ UNCHANGED <<conf, dead, pings>>
           /\ \/ /\ conf.ws /\ pipe' = Append(pipe, Chunk("head", "bin", NoBody))
                 /\ writeM' = "bin" /\ held' = f
              \/ ~conf.ws /\ UNCHANGED <<pipe, writeM, held>>
    BY <1>1, SendEffect
  <2>2. CASE conf.ws
    <3>1. "bin" \in Ops \cup {"empty"} /\ held' # NoBody
      BY <2>1, <2>2, BodyKinds DEF Ops
    <3>. QED BY <2>1, <2>2, <3>1, HeadFraming
  <2>3. CASE ~conf.ws BY <2>1, <2>3 DEF Framing
  <2>. QED BY <2>2, <2>3
<1>2. CASE SendBody
  <2>1. writeM = "bin" /\ conf' = conf /\ pipe' = Append(pipe, Chunk("body", writeM, held))
        /\ writeM' = "free" /\ held' = NoBody
    BY <1>2 DEF SendBody
  <2>2. writeM \in Ops /\ held \in SealedFrame \cup {NoBody} /\ held # NoBody
    BY <2>1 DEF Ops, Framing, Ranges
  <2>. QED BY <2>1, <2>2, BodyFraming
<1>3. CASE ControlBody
  <2>1. writeM \in {"pong", "close"} /\ conf' = conf /\ pipe' = Append(pipe, Chunk("body", writeM, NoBody))
        /\ writeM' = "free" /\ held' = held
    BY <1>3 DEF ControlBody, sendVars
  <2>2. writeM \in Ops /\ writeM # "bin" /\ held = NoBody /\ NoBody \in SealedFrame \cup {NoBody}
    BY <2>1 DEF Ops, Framing
  <2>. QED BY <2>1, <2>2, BodyFraming
<1>4. CASE Pong \/ CloseFrame
  <2>1. writeM = "free" /\ ~dead /\ conf.ws /\ UNCHANGED <<conf, held>>
    BY <1>4 DEF Pong, CloseFrame, sendVars, Framing, Ranges
  <2>2. \E op \in {"empty", "pong", "close"} : /\ pipe' = Append(pipe, Chunk("head", op, NoBody))
                                              /\ writeM' = IF op = "empty" THEN "free" ELSE op
    BY <1>4, <2>1 DEF Pong, CloseFrame
  <2>3. PICK op \in {"empty", "pong", "close"} : /\ pipe' = Append(pipe, Chunk("head", op, NoBody))
                                              /\ writeM' = IF op = "empty" THEN "free" ELSE op
    BY <2>2
  <2>4. held = NoBody /\ writeM' # "bin" /\ op \in Ops \cup {"empty"}
    BY <2>1, <2>3 DEF Framing, Ops
  <2>. QED BY <2>1, <2>3, <2>4, HeadFraming
<1>5. CASE WsRead
  <2>1. /\ Len(pipe) > 0 /\ UNCHANGED <<conf, writeM, held, pings, dead>>
        /\ \/ IsHead(pipe[1], "empty") /\ pipe' = Tail(pipe)
           \/ \E op \in Ops : Len(pipe) > 1 /\ IsHead(pipe[1], op) /\ IsBody(pipe[2], op)
                              /\ pipe' = Tail(Tail(pipe))
    BY <1>5, WsReadEffect DEF sendVars
  <2>2. CASE IsHead(pipe[1], "empty") /\ pipe' = Tail(pipe)
    <3>1. Len(pipe') = Len(pipe) - 1 /\ \A i \in 1..(Len(pipe) - 1) : pipe'[i] = pipe[i + 1]
      BY <2>1, <2>2 DEF Ranges
    <3>2. pipe[1].op = "empty" /\ pipe[1].k = "head" /\ 1 \leq Len(pipe) /\ pipe' \in Seq(Chunks)
      BY <2>1, <2>2 DEF IsHead, Ranges
    <3>. QED BY <2>1, <3>1, <3>2, ShiftFraming
  <2>3. CASE \E op \in Ops : Len(pipe) > 1 /\ IsHead(pipe[1], op) /\ IsBody(pipe[2], op)
                             /\ pipe' = Tail(Tail(pipe))
    <3>1. Len(pipe) > 1 /\ pipe' = Tail(Tail(pipe)) /\ pipe[2].k = "body" /\ pipe[2].op # "empty"
      BY <2>3 DEF IsBody, Ops
    <3>2. Len(pipe') = Len(pipe) - 2 /\ \A i \in 1..(Len(pipe) - 2) : pipe'[i] = pipe[i + 2]
      <4>1. pipe \in Seq(Chunks)
        BY DEF Ranges
      <4>. QED BY <3>1, <4>1, TwoTails
    <3>3. 2 \leq Len(pipe) /\ pipe' \in Seq(Chunks)
      <4>1. pipe' \in Seq(Chunks)
        BY DEF Ranges
      <4>2. Len(pipe) \in Nat
        BY DEF Ranges
      <4>. QED BY <3>1, <4>1, <4>2
    <3>. QED BY <2>1, <3>1, <3>2, <3>3, ShiftFraming
  <2>. QED BY <2>1, <2>2, <2>3
<1>6. CASE SendFails
  <2>1. /\ dead /\ held' = NoBody /\ writeM' = (IF writeM = "bin" THEN "free" ELSE writeM)
        /\ UNCHANGED <<conf, pings, pipe, dead>>
    BY <1>6 DEF SendFails
  <2>. QED BY <2>1 DEF Framing
<1>7. CASE Drop
  <2>1. /\ dead' /\ writeM' = (IF writeM = "bin" THEN "bin" ELSE "free")
        /\ UNCHANGED <<conf, pings, pipe, held>>
    BY <1>7 DEF Drop, sendVars
  <2>. QED BY <2>1 DEF Framing
<1>8. CASE Ping
  <2>1. conf.ws /\ UNCHANGED <<conf, writeM, held, pipe, dead>>
    BY <1>8 DEF Ping, sendVars
  <2>. QED BY <2>1 DEF Framing
<1>9. CASE Begin \/ Idle \/ ReadReply \/ Read \/ ReadTimesOut \/ ReadEnds \/ ResetReply \/ UNCHANGED vars
  <2>1. UNCHANGED <<conf, wsVars, dead>>
    BY <1>9 DEF Begin, Idle, ReadReply, Read, ReadTimesOut, ReadEnds, ResetReply, vars, sendVars, wsVars
  <2>. QED BY <2>1 DEF Framing, wsVars
<1>. QED BY <1>1, <1>2, <1>3, <1>4, <1>5, <1>6, <1>7, <1>8, <1>9 DEF Next

-----------------------------------------------------------------------------
(* The frames in flight.                                                   *)

LEMMA FlyingSealed == ASSUME Ranges, Framing, NEW f \in Flying PROVE f \in SealedFrame
<1>1. CASE f \in {rx[i] : i \in 1..Len(rx)}
  BY <1>1 DEF Ranges
<1>2. CASE f \in {pipe[i].f : i \in {j \in 1..Len(pipe) : IsBody(pipe[j], "bin")}}
  <2>1. PICK i \in 1..Len(pipe) : IsBody(pipe[i], "bin") /\ f = pipe[i].f
    BY <1>2
  <2>2. pipe[i] \in Chunks /\ pipe[i].f # NoBody
    BY <2>1 DEF Ranges, Framing
  <2>. QED BY <2>1, <2>2 DEF Chunks
<1>3. CASE f \in {held} \ {NoBody}
  BY <1>3 DEF Ranges
<1>. QED BY <1>1, <1>2, <1>3 DEF Flying

\* A frame that is appended to the pipe flies on, and a header does not fly.
LEMMA FlyingAppend ==
  ASSUME Ranges, NEW c, pipe' = Append(pipe, c), rx' = rx
  PROVE  \A f \in Flying' : f \in Flying \/ (IsBody(c, "bin") /\ f = c.f) \/ (f = held' /\ held' # NoBody)
<1>. SUFFICES ASSUME NEW f \in Flying'
              PROVE  f \in Flying \/ (IsBody(c, "bin") /\ f = c.f) \/ (f = held' /\ held' # NoBody)
  OBVIOUS
<1>1. Len(pipe') = Len(pipe) + 1 /\ Len(pipe) \in Nat /\ pipe'[Len(pipe) + 1] = c
      /\ \A i \in 1..Len(pipe) : pipe'[i] = pipe[i]
  BY DEF Ranges
<1>2. CASE f \in {rx'[i] : i \in 1..Len(rx')}
  BY <1>2 DEF Flying
<1>3. CASE f \in {pipe'[i].f : i \in {j \in 1..Len(pipe') : IsBody(pipe'[j], "bin")}}
  <2>1. PICK i \in 1..Len(pipe') : IsBody(pipe'[i], "bin") /\ f = pipe'[i].f
    BY <1>3
  <2>2. CASE i = Len(pipe) + 1 BY <1>1, <2>1, <2>2
  <2>3. CASE i \in 1..Len(pipe) BY <1>1, <2>1, <2>3 DEF Flying
  <2>. QED BY <1>1, <2>2, <2>3
<1>4. CASE f \in {held'} \ {NoBody}
  BY <1>4
<1>. QED BY <1>2, <1>3, <1>4 DEF Flying

\* Reading moves frames from the pipe to the reader, and from there out.
LEMMA FlyingShift ==
  ASSUME Ranges, NEW k \in 0..Len(pipe), pipe' \in Seq(Chunks), Len(pipe') = Len(pipe) - k,
         \A i \in 1..(Len(pipe) - k) : pipe'[i] = pipe[i + k],
         held' = held, \A f \in {rx'[i] : i \in 1..Len(rx')} : f \in Flying
  PROVE  Flying' \subseteq Flying
<1>. SUFFICES ASSUME NEW f \in Flying' PROVE f \in Flying OBVIOUS
<1>1. CASE f \in {rx'[i] : i \in 1..Len(rx')} BY <1>1
<1>2. CASE f \in {pipe'[i].f : i \in {j \in 1..Len(pipe') : IsBody(pipe'[j], "bin")}}
  <2>1. PICK i \in 1..Len(pipe') : IsBody(pipe'[i], "bin") /\ f = pipe'[i].f
    BY <1>2
  <2>2. Len(pipe) \in Nat /\ i + k \in 1..Len(pipe) /\ pipe'[i] = pipe[i + k]
    <3>1. Len(pipe) \in Nat
      BY DEF Ranges
    <3>. QED BY <3>1
  <2>. QED BY <2>1, <2>2 DEF Flying
<1>3. CASE f \in {held'} \ {NoBody} BY <1>3 DEF Flying
<1>. QED BY <1>1, <1>2, <1>3 DEF Flying

\* The writer seals a frame and counts it.
Seals(f) ==
  /\ f.hn = w.nonce /\ w'.nonce = After(f) /\ written' = written + f.len
  /\ zeros' = IF f.kind = "zero" THEN Append(zeros, written) ELSE zeros

\* Room only grows as more is written.
LEMMA ZerosGrow ==
  ASSUME Ranges, NEW f \in SealedFrame, Seals(f)
  PROVE  /\ written' \in Nat /\ written' \geq written /\ zeros' \in Seq(Nat) /\ Len(zeros') \geq Len(zeros)
         /\ \A i \in 1..Len(zeros) : zeros'[i] = zeros[i]
         /\ f.kind = "zero" => /\ Len(zeros') = Len(zeros) + 1 /\ zeros'[Len(zeros) + 1] = written
                               /\ written' = written
         /\ f.kind # "zero" => zeros' = zeros
<1>1. written \in Nat /\ f.len \in Nat /\ zeros \in Seq(Nat) /\ Len(zeros) \in Nat
  BY DEF Ranges, SealedFrame
<1>5. written' = written + f.len /\ zeros' = (IF f.kind = "zero" THEN Append(zeros, written) ELSE zeros)
  BY DEF Seals
<1>2. written' \in Nat /\ written' \geq written
  BY <1>1, <1>5
<1>3. CASE f.kind = "zero"
  <2>1. zeros' = Append(zeros, written) /\ f.len = 0
    BY <1>3, <1>5 DEF SealedFrame
  <2>2. zeros' \in Seq(Nat) /\ Len(zeros') = Len(zeros) + 1 /\ zeros'[Len(zeros) + 1] = written
        /\ \A i \in 1..Len(zeros) : zeros'[i] = zeros[i]
    BY <1>1, <2>1
  <2>3. written' = written
    BY <1>1, <1>5, <2>1
  <2>4. Len(zeros') \geq Len(zeros)
    BY <1>1, <2>2
  <2>. QED BY <1>2, <1>3, <2>2, <2>3, <2>4
<1>4. CASE f.kind # "zero"
  <2>1. zeros' = zeros /\ Len(zeros) \geq Len(zeros)
    BY <1>1, <1>4, <1>5
  <2>. QED BY <1>1, <1>2, <1>4, <2>1
<1>. QED BY <1>3, <1>4

LEMMA LimitGrows ==
  ASSUME Ranges, NEW f \in SealedFrame, Seals(f), NEW z \in Nat
  PROVE  Limit(z) \in Nat /\ Limit(z)' \in Nat /\ Limit(z) \leq Limit(z)'
<1>1. written \in Nat /\ zeros \in Seq(Nat) /\ Len(zeros) \in Nat
  BY DEF Ranges
<1>2. /\ written' \in Nat /\ written' \geq written /\ zeros' \in Seq(Nat)
      /\ \A i \in 1..Len(zeros) : zeros'[i] = zeros[i]
      /\ f.kind = "zero" => /\ Len(zeros') = Len(zeros) + 1 /\ zeros'[Len(zeros) + 1] = written
                            /\ written' = written
      /\ f.kind # "zero" => zeros' = zeros
  BY ZerosGrow
<1>3. PICK m \in Nat : m = Len(zeros)
  BY <1>1
<1>4. CASE f.kind = "zero"
  <2>1. Len(zeros') = m + 1 /\ zeros'[m + 1] = written /\ written' = written
    BY <1>2, <1>3, <1>4
  <2>2. CASE z < m
    <3>1. z + 1 \in 1..m /\ z < m + 1
      BY <2>2
    <3>2. zeros'[z + 1] = zeros[z + 1] /\ zeros[z + 1] \in Nat
      BY <1>1, <1>2, <1>3, <3>1
    <3>. QED BY <1>3, <2>1, <2>2, <3>1, <3>2 DEF Limit
  <2>3. CASE z = m
    <3>1. z < m + 1 /\ ~(z < m)
      BY <2>3
    <3>. QED BY <1>1, <1>3, <2>1, <2>3, <3>1 DEF Limit
  <2>4. CASE z > m
    <3>1. ~(z < m + 1) /\ ~(z < m)
      BY <2>4
    <3>. QED BY <1>1, <1>3, <2>1, <3>1 DEF Limit
  <2>. QED BY <2>2, <2>3, <2>4
<1>5. CASE f.kind # "zero"
  <2>1. zeros' = zeros
    BY <1>2, <1>5
  <2>2. CASE z < Len(zeros)
    <3>1. zeros[z + 1] \in Nat
      BY <1>1, <2>2
    <3>. QED BY <2>1, <2>2, <3>1 DEF Limit
  <2>3. CASE ~(z < Len(zeros))
    BY <1>1, <1>2, <2>1, <2>3 DEF Limit
  <2>. QED BY <2>2, <2>3
<1>. QED BY <1>4, <1>5

\* The ledger of a step that seals nothing: the same.
LEMMA LedgerKept ==
  ASSUME NEW off, NEW nz, Ledger(off, nz), w'.nonce = w.nonce, UNCHANGED <<zeros, written>>, Flying' \subseteq Flying,
         rd'.nonce \leq w.nonce, off[rd'.nonce] = got' + rd'.buf, nz[rd'.nonce] = Len(seen')
  PROVE  Ledger(off, nz)'
<1>1. \A f \in Flying : Agrees(f, off, nz) => Agrees(f, off, nz)'
  BY DEF Agrees, Limit
<1>. QED BY <1>1 DEF Ledger

\* A frame is entered when it is sealed.
LEMMA LedgerSends ==
  ASSUME Ranges, Framing, NEW off \in Books, NEW nz \in Books, Ledger(off, nz),
         NEW f \in SealedFrame, Seals(f),
         UNCHANGED <<rd, got, seen>>, Flying' \subseteq Flying \cup {f}
  PROVE  \E o \in Books, z \in Books : Ledger(o, z)'
<1>1. PICK n \in Nat : n = After(f) /\ n > w.nonce
  BY AfterNat DEF Seals
<1>20. f.hn = w.nonce /\ w'.nonce = n
  BY <1>1 DEF Seals
<1>2. w.nonce \in Nat /\ f.len \in Nat /\ written \in Nat /\ Len(zeros) \in Nat /\ rd.nonce \in Nat
  BY DEF Ranges, SealedFrame
<1>3. PICK b \in Nat : b = written + f.len
  BY <1>2
<1>4. PICK m \in Nat : m = Len(zeros)
  BY <1>2
<1>5. PICK d \in Nat : d = (IF f.kind = "zero" THEN 1 ELSE 0)
  OBVIOUS
<1>6. m + d \in Nat
  OBVIOUS
<1>7. PICK o \in Books : o = [off EXCEPT ![n] = b]
  BY DEF Books
<1>8. PICK z \in Books : z = [nz EXCEPT ![n] = m + d]
  BY <1>6 DEF Books
<1>9. o[n] = b /\ z[n] = m + d /\ \A i \in Nat : i # n => o[i] = off[i] /\ z[i] = nz[i]
  BY <1>7, <1>8 DEF Books
<1>10. off[w.nonce] = written /\ nz[w.nonce] = m /\ rd.nonce \leq w.nonce
       /\ off[rd.nonce] = got + rd.buf /\ nz[rd.nonce] = Len(seen)
  BY <1>4 DEF Ledger
<1>11. /\ written' = b /\ b \geq written /\ Len(zeros') \in Nat /\ Len(zeros') = m + d
       /\ \A i \in 1..m : zeros'[i] = zeros[i]
       /\ f.kind = "zero" => zeros'[m + 1] = written /\ b = written
       /\ f.kind # "zero" => zeros' = zeros
  <2>1. /\ written' \geq written /\ zeros' \in Seq(Nat)
        /\ \A i \in 1..Len(zeros) : zeros'[i] = zeros[i]
        /\ f.kind = "zero" => /\ Len(zeros') = Len(zeros) + 1 /\ zeros'[Len(zeros) + 1] = written
                              /\ written' = written
        /\ f.kind # "zero" => zeros' = zeros
    BY ZerosGrow
  <2>2. Len(zeros') = m + d
    BY <1>4, <1>5, <2>1
  <2>3. written' = b
    BY <1>3 DEF Seals
  <2>. QED BY <1>4, <1>6, <2>1, <2>2, <2>3
<1>12. ASSUME NEW g \in Flying PROVE Agrees(g, o, z)'
  <2>1. /\ g \in SealedFrame /\ Agrees(g, off, nz)
    BY FlyingSealed DEF Ledger
  <2>2. PICK a \in Nat : a = After(g) /\ a > g.hn
    BY <2>1, AfterNat
  <2>3. g.hn \in Nat
    BY <2>1 DEF SealedFrame
  <2>4. a \leq w.nonce
    BY <2>1, <2>2 DEF Agrees
  <2>5. a # n /\ g.hn # n /\ a \leq n
    <3>1. n > w.nonce /\ a > g.hn
      BY <1>1, <2>2
    <3>. QED BY <1>2, <2>3, <2>4, <3>1
  <2>6. o[a] = off[a] /\ o[g.hn] = off[g.hn] /\ z[a] = nz[a] /\ z[g.hn] = nz[g.hn]
    BY <1>9, <2>3, <2>5
  <2>7. PICK k \in Nat : k = nz[g.hn]
    BY <2>3 DEF Books
  <2>8. PICK u \in Nat : u = off[a]
    BY DEF Books
  <2>9. /\ off[a] = off[g.hn] + g.len /\ nz[a] = k + (IF g.kind = "zero" THEN 1 ELSE 0)
        /\ IF g.kind = "zero" THEN k < m /\ zeros[k + 1] = off[g.hn] ELSE u \leq Limit(k)
    BY <1>4, <2>1, <2>2, <2>7, <2>8 DEF Agrees
  <2>10. g.kind = "zero" => k < Len(zeros') /\ zeros'[k + 1] = off[g.hn]
    <3>. SUFFICES ASSUME g.kind = "zero" PROVE k < Len(zeros') /\ zeros'[k + 1] = off[g.hn]
      OBVIOUS
    <3>1. k < m /\ zeros[k + 1] = off[g.hn]
      BY <2>9
    <3>2. k + 1 \in 1..m /\ k < m + d
      BY <3>1
    <3>. QED BY <1>11, <3>1, <3>2
  <2>11. g.kind # "zero" => u \leq Limit(k)'
    <3>. SUFFICES ASSUME g.kind # "zero" PROVE u \leq Limit(k)' OBVIOUS
    <3>1. u \leq Limit(k)
      BY <2>9
    <3>2. Limit(k) \in Nat /\ Limit(k)' \in Nat /\ Limit(k) \leq Limit(k)'
      BY LimitGrows
    <3>. QED BY <3>1, <3>2
  <2>12. w'.nonce = n
    BY <1>20
  <2>. HIDE DEF After, Limit
  <2>. QED BY <2>2, <2>5, <2>6, <2>7, <2>8, <2>9, <2>10, <2>11, <2>12 DEF Agrees
<1>13. Agrees(f, o, z)'
  <2>1. o[f.hn] = written /\ z[f.hn] = m /\ f.hn # n
    <3>1. n > w.nonce
      BY <1>1
    <3>2. w.nonce # n
      BY <1>2, <3>1
    <3>. QED BY <1>2, <1>9, <1>10, <1>20, <3>2
  <2>2. w'.nonce = n /\ n \leq n /\ o[n] = o[f.hn] + f.len
    BY <1>3, <1>9, <1>20, <2>1
  <2>3. z[n] = z[f.hn] + (IF f.kind = "zero" THEN 1 ELSE 0)
    BY <1>5, <1>9, <2>1
  <2>4. CASE f.kind = "zero"
    <3>2. d = 1
      BY <1>5, <2>4
    <3>3. Len(zeros') = m + d /\ zeros'[m + 1] = written
      BY <1>11, <2>4
    <3>1. m < Len(zeros') /\ zeros'[m + 1] = written
      BY <3>2, <3>3
    <3>. QED BY <1>1, <2>1, <2>2, <2>3, <2>4, <3>1 DEF Agrees
  <2>5. CASE f.kind # "zero"
    <3>1. Len(zeros') = m
      BY <1>4, <1>11, <2>5
    <3>2. ~(m < Len(zeros'))
      BY <3>1
    <3>3. Limit(m)' = b
      BY <1>11, <3>2 DEF Limit
    <3>4. o[n] \leq Limit(m)'
      BY <1>9, <3>3
    <3>. QED BY <1>1, <2>1, <2>2, <2>3, <2>5, <3>4 DEF Agrees
  <2>. QED BY <2>4, <2>5
<1>14. o[w'.nonce] = written' /\ z[w'.nonce] = Len(zeros')
  BY <1>9, <1>11, <1>20
<1>15. rd.nonce # n /\ rd.nonce \leq n
  <2>1. n > w.nonce /\ rd.nonce \leq w.nonce
    BY <1>1, <1>10
  <2>. QED BY <1>2, <2>1
<1>16. o[rd'.nonce] = got' + rd'.buf /\ z[rd'.nonce] = Len(seen') /\ rd'.nonce \leq w'.nonce
  BY <1>2, <1>9, <1>10, <1>15, <1>20
<1>17. \A g \in Flying' : Agrees(g, o, z)'
  BY <1>12, <1>13
<1>18. Ledger(o, z)'
  BY <1>14, <1>16, <1>17 DEF Ledger
<1>. QED BY <1>18

-----------------------------------------------------------------------------
(* The frames in flight carry one nonce after another.                     *)

LEMMA OrderAppend ==
  ASSUME Ranges, NEW due \in Books, PipeOrdered(due), NEW c, pipe' = Append(pipe, c), NEW v \in Nat,
         IF IsBody(c, "bin") THEN c.f.hn = due[Len(pipe) + 1] /\ v = After(c.f) ELSE v = due[Len(pipe) + 1]
  PROVE  \E d \in Books : PipeOrdered(d)' /\ d[1] = due[1] /\ d[Len(pipe') + 1] = v
<1>1. PICK m \in Nat : m = Len(pipe)
  BY DEF Ranges
<1>2. Len(pipe') = m + 1 /\ pipe'[m + 1] = c /\ \A i \in 1..m : pipe'[i] = pipe[i]
  BY <1>1 DEF Ranges
<1>3. PICK q \in Nat : q = m + 2
  OBVIOUS
<1>4. PICK d \in Books : d = [due EXCEPT ![q] = v]
  BY DEF Books
<1>5. d[q] = v /\ \A i \in Nat : i # q => d[i] = due[i]
  BY <1>4 DEF Books
<1>6. ASSUME NEW i \in 1..(m + 1)
      PROVE  IF IsBody(pipe'[i], "bin") THEN pipe'[i].f.hn = d[i] /\ d[i + 1] = After(pipe'[i].f)
             ELSE d[i + 1] = d[i]
  <2>1. i \in Nat /\ i # q
    BY <1>3
  <2>2. d[i] = due[i]
    BY <1>5, <2>1
  <2>3. CASE i = m + 1
    <3>1. i + 1 = q /\ pipe'[i] = c /\ d[i + 1] = v
      BY <1>2, <1>3, <1>5, <2>3
    <3>2. IF IsBody(c, "bin") THEN c.f.hn = due[i] /\ v = After(c.f) ELSE v = due[i]
      BY <1>1, <2>3
    <3>. QED BY <2>2, <3>1, <3>2
  <2>4. CASE i # m + 1
    <3>1. i \in 1..m /\ i + 1 \in Nat /\ i + 1 # q
      BY <1>3, <2>4
    <3>2. d[i + 1] = due[i + 1] /\ pipe'[i] = pipe[i]
      BY <1>2, <1>5, <3>1
    <3>3. IF IsBody(pipe[i], "bin") THEN pipe[i].f.hn = due[i] /\ due[i + 1] = After(pipe[i].f)
          ELSE due[i + 1] = due[i]
      BY <1>1, <3>1 DEF PipeOrdered
    <3>. QED BY <2>2, <3>2, <3>3
  <2>. QED BY <2>3, <2>4
<1>7. PipeOrdered(d)'
  BY <1>2, <1>6 DEF PipeOrdered
<1>8. 1 # q /\ (m + 1) + 1 = q
  BY <1>3
<1>. QED BY <1>2, <1>5, <1>7, <1>8

LEMMA OrderShift ==
  ASSUME Ranges, NEW due \in Books, PipeOrdered(due), NEW k \in 0..Len(pipe), Len(pipe') = Len(pipe) - k,
         \A i \in 1..(Len(pipe) - k) : pipe'[i] = pipe[i + k]
  PROVE  \E d \in Books : /\ PipeOrdered(d)' /\ d[1] = due[k + 1]
                          /\ d[Len(pipe') + 1] = due[Len(pipe) + 1]
<1>1. PICK m \in Nat : m = Len(pipe)
  BY DEF Ranges
<1>2. k \in Nat /\ k \leq m
  BY <1>1
<1>9. \A i \in Nat : due[i + k] \in Nat
  <2>1. \A i \in Nat : i + k \in Nat
    BY <1>2
  <2>2. \A i \in Nat : due[i] \in Nat
    BY DEF Books
  <2>. QED BY <2>1, <2>2
<1>3. PICK d \in Books : d = [i \in Nat |-> due[i + k]]
  BY <1>9 DEF Books
<1>4. \A i \in Nat : d[i] = due[i + k]
  BY <1>3
<1>5. ASSUME NEW i \in 1..(m - k)
      PROVE  IF IsBody(pipe'[i], "bin") THEN pipe'[i].f.hn = d[i] /\ d[i + 1] = After(pipe'[i].f)
             ELSE d[i + 1] = d[i]
  <2>1. i \in Nat /\ i + 1 \in Nat /\ i + k \in 1..m /\ (i + 1) + k = (i + k) + 1
    BY <1>2
  <2>4. d[i] = due[i + k] /\ d[i + 1] = due[(i + 1) + k]
    BY <1>4, <2>1
  <2>2. d[i] = due[i + k] /\ d[i + 1] = due[(i + k) + 1] /\ pipe'[i] = pipe[i + k]
    BY <1>1, <2>1, <2>4
  <2>3. IF IsBody(pipe[i + k], "bin")
        THEN pipe[i + k].f.hn = due[i + k] /\ due[(i + k) + 1] = After(pipe[i + k].f)
        ELSE due[(i + k) + 1] = due[i + k]
    BY <1>1, <2>1 DEF PipeOrdered
  <2>. QED BY <2>2, <2>3
<1>6. PipeOrdered(d)'
  BY <1>1, <1>5 DEF PipeOrdered
<1>7. d[1] = due[k + 1]
  <2>1. 1 + k = k + 1
    BY <1>2
  <2>. QED BY <1>4, <2>1
<1>8. d[Len(pipe') + 1] = due[Len(pipe) + 1]
  <2>1. (m - k) + 1 \in Nat /\ ((m - k) + 1) + k = m + 1
    BY <1>2
  <2>. QED BY <1>1, <1>4, <2>1
<1>. QED BY <1>6, <1>7, <1>8

LEMMA ReaderAppend ==
  ASSUME Ranges, ReaderOrdered, NEW f \in SealedFrame, rx' = Append(rx, f), f.hn = Below, rd'.nonce = rd.nonce
  PROVE  ReaderOrdered' /\ Below' = After(f)
<1>1. PICK m \in Nat : m = Len(rx)
  BY DEF Ranges
<1>2. Len(rx') = m + 1 /\ rx'[m + 1] = f /\ \A i \in 1..m : rx'[i] = rx[i]
  BY <1>1 DEF Ranges
<1>3. rx' # <<>>
  BY <1>2
<1>4. Below' = After(f)
  BY <1>2, <1>3 DEF Below
<1>5. ASSUME NEW i \in 1..(m + 1)
      PROVE  rx'[i].hn = IF i = 1 THEN rd.nonce ELSE After(rx'[i - 1])
  <2>1. CASE i = m + 1 /\ m = 0
    <3>2. rx \in Seq(SealedFrame)
      BY DEF Ranges
    <3>1. rx = <<>>
      BY <1>1, <2>1, <3>2, EmptySeq
    <3>. QED BY <1>2, <2>1, <3>1 DEF Below
  <2>2. CASE i = m + 1 /\ m # 0
    <3>1. rx # <<>> /\ i # 1 /\ i - 1 = m /\ m \in 1..m
      BY <1>1, <2>2 DEF Ranges
    <3>. QED BY <1>1, <1>2, <2>2, <3>1 DEF Below
  <2>3. CASE i # m + 1
    <3>1. i \in 1..m
      BY <2>3
    <3>2. rx[i].hn = IF i = 1 THEN rd.nonce ELSE After(rx[i - 1])
      BY <1>1, <3>1 DEF ReaderOrdered
    <3>3. i # 1 => i - 1 \in 1..m
      BY <3>1
    <3>. QED BY <1>2, <3>1, <3>2, <3>3
  <2>. QED BY <2>1, <2>2, <2>3
<1>. QED BY <1>2, <1>4, <1>5 DEF ReaderOrdered

LEMMA ReaderTakes ==
  ASSUME Ranges, ReaderOrdered, rx # <<>>, rx' = Tail(rx), rd'.nonce = After(rx[1])
  PROVE  ReaderOrdered' /\ Below' = Below
<1>1. PICK m \in Nat : m = Len(rx)
  BY DEF Ranges
<1>2. m > 0 /\ Len(rx') = m - 1 /\ \A i \in 1..(m - 1) : rx'[i] = rx[i + 1]
  BY <1>1 DEF Ranges
<1>3. ASSUME NEW i \in 1..(m - 1)
      PROVE  rx'[i].hn = IF i = 1 THEN rd'.nonce ELSE After(rx'[i - 1])
  <2>1. i + 1 \in 1..m /\ i + 1 # 1 /\ (i + 1) - 1 = i
    BY <1>2
  <2>2. rx[i + 1].hn = After(rx[i])
    BY <1>1, <2>1 DEF ReaderOrdered
  <2>3. CASE i = 1 BY <1>2, <2>2, <2>3
  <2>4. CASE i # 1
    <3>1. i - 1 \in 1..(m - 1) /\ (i - 1) + 1 = i
      BY <2>4
    <3>2. rx'[i - 1] = rx[i] /\ rx'[i] = rx[i + 1]
      BY <1>2, <3>1
    <3>. QED BY <2>2, <2>4, <3>2
  <2>. QED BY <2>3, <2>4
<1>4. ReaderOrdered'
  BY <1>2, <1>3 DEF ReaderOrdered
<1>5. Below' = Below
  <2>1. CASE m = 1
    <3>2. rx' \in Seq(SealedFrame) /\ Len(rx') = 0
      BY <1>2, <2>1 DEF Ranges
    <3>1. rx' = <<>>
      BY <3>2, EmptySeq
    <3>. QED BY <1>1, <2>1, <3>1 DEF Below
  <2>2. CASE m # 1
    <3>1. m - 1 \in 1..(m - 1) /\ (m - 1) + 1 = m /\ Len(rx') # 0
      BY <1>2, <2>2
    <3>2. rx'[m - 1] = rx[m]
      BY <1>2, <3>1
    <3>3. rx' # <<>>
      BY <3>1
    <3>. QED BY <1>1, <1>2, <3>2, <3>3 DEF Below
  <2>. QED BY <2>1, <2>2
<1>. QED BY <1>4, <1>5

LEMMA OrderedStep ==
  ASSUME Ranges, Salted, Framing, NEW due \in Books, Ordered(due), Chained, Next, Ranges', rd.err = "none",
         rd'.err = "none"
  PROVE  \E d \in Books : Ordered(d)'
<1>1. ReaderOrdered /\ due[1] = Below /\ PipeOrdered(due) /\ WriterOrdered(due[Len(pipe) + 1])
  BY DEF Ordered
<1>2. Len(pipe) \in Nat /\ due[Len(pipe) + 1] \in Nat /\ w.nonce \in Nat
  <2>1. Len(pipe) \in Nat /\ w.nonce \in Nat
    BY DEF Ranges
  <2>2. Len(pipe) + 1 \in Nat
    BY <2>1
  <2>. QED BY <2>1, <2>2 DEF Books
<1>3. ASSUME UNCHANGED <<pipe, rx>>, rd'.nonce = rd.nonce,
             dead' \/ (dead' = dead /\ held' = held /\ w'.nonce = w.nonce)
      PROVE  Ordered(due)'
  BY <1>1, <1>3 DEF Ordered, ReaderOrdered, Below, PipeOrdered, WriterOrdered
<1>4. CASE SendFrame
  <2>1. PICK f \in SealedFrame :
          /\ f.hn = w.nonce /\ ~dead /\ held = NoBody /\ writeM = "free" /\ w'.nonce = After(f)
          /\ \/ conf.ws /\ pipe' = Append(pipe, Chunk("head", "bin", NoBody)) /\ held' = f /\ rx' = rx
             \/ ~conf.ws /\ rx' = Append(rx, f) /\ UNCHANGED <<pipe, held>>
          /\ UNCHANGED <<rd, dead>>
    BY <1>4, SendEffect
  <2>2. due[Len(pipe) + 1] = w.nonce
    BY <1>1, <2>1 DEF WriterOrdered
  <2>3. CASE conf.ws
    <3>1. PICK c : c = Chunk("head", "bin", NoBody)
      OBVIOUS
    <3>2. pipe' = Append(pipe, c) /\ held' = f /\ rx' = rx /\ ~IsBody(c, "bin")
      BY <2>1, <2>3, <3>1 DEF Chunk, IsBody
    <3>3. PICK d \in Books : PipeOrdered(d)' /\ d[1] = due[1] /\ d[Len(pipe') + 1] = due[Len(pipe) + 1]
      BY <1>1, <1>2, <3>2, OrderAppend
    <3>4. Below' = Below /\ ReaderOrdered'
      BY <1>1, <2>1, <3>2 DEF Below, ReaderOrdered
    <3>5. held' # NoBody
      BY <3>2, BodyKinds
    <3>6. WriterOrdered(d[Len(pipe) + 1])'
      BY <2>1, <2>2, <3>2, <3>3, <3>5 DEF WriterOrdered
    <3>. QED BY <1>1, <3>3, <3>4, <3>6 DEF Ordered
  <2>4. CASE ~conf.ws
    <3>1. pipe = <<>> /\ pipe' = <<>> /\ Len(pipe) = 0 /\ rx' = Append(rx, f) /\ held' = NoBody
      BY <2>1, <2>4 DEF Framing
    <3>2. f.hn = Below
      BY <1>1, <2>1, <2>2, <3>1
    <3>3. ReaderOrdered' /\ Below' = After(f)
      BY <1>1, <2>1, <3>1, <3>2, ReaderAppend
    <3>4. PICK n \in Nat : n = After(f)
      BY AfterNat
    <3>5. PICK d \in Books : d = [due EXCEPT ![1] = n]
      BY DEF Books
    <3>6. d[1] = n
      BY <3>5 DEF Books
    <3>7. Len(pipe') = 0 /\ PipeOrdered(d)'
      BY <3>1 DEF PipeOrdered
    <3>8. d[Len(pipe) + 1]' = n
      BY <3>6, <3>7
    <3>9. WriterOrdered(d[Len(pipe) + 1])'
      BY <2>1, <3>1, <3>4, <3>8 DEF WriterOrdered
    <3>. QED BY <3>3, <3>4, <3>6, <3>7, <3>9 DEF Ordered
  <2>. QED BY <2>3, <2>4
<1>5. CASE SendBody
  <2>1. writeM = "bin" /\ ~dead /\ pipe' = Append(pipe, Chunk("body", "bin", held)) /\ held' = NoBody
        /\ UNCHANGED <<w, rx, rd, dead>>
    BY <1>5 DEF SendBody, readVars
  <2>2. held # NoBody /\ held \in SealedFrame
    BY <2>1 DEF Framing, Ranges
  <2>3. held.hn = due[Len(pipe) + 1] /\ After(held) = w.nonce
    BY <1>1, <2>1, <2>2 DEF WriterOrdered
  <2>4. PICK c : c = Chunk("body", "bin", held)
    OBVIOUS
  <2>5. IsBody(c, "bin") /\ c.f = held
    BY <2>4 DEF Chunk, IsBody
  <2>6. PICK v \in Nat : v = w.nonce
    BY <1>2
  <2>7. PICK d \in Books : PipeOrdered(d)' /\ d[1] = due[1] /\ d[Len(pipe') + 1] = v
    <3>1. pipe' = Append(pipe, c) /\ c.f.hn = due[Len(pipe) + 1] /\ v = After(c.f)
      BY <2>1, <2>3, <2>4, <2>5, <2>6
    <3>. QED BY <1>1, <2>5, <3>1, OrderAppend
  <2>8. Below' = Below /\ ReaderOrdered'
    BY <1>1, <2>1 DEF Below, ReaderOrdered
  <2>9. WriterOrdered(d[Len(pipe) + 1])'
    BY <2>1, <2>6, <2>7 DEF WriterOrdered
  <2>. QED BY <1>1, <2>7, <2>8, <2>9 DEF Ordered
<1>6. CASE ControlBody \/ Pong \/ CloseFrame
  <2>1. held = NoBody /\ held' = NoBody /\ ~dead /\ UNCHANGED <<w, rx, rd>>
    <3>1. writeM # "bin" /\ ~dead /\ UNCHANGED <<w, rx, rd, held>>
      BY <1>6 DEF ControlBody, Pong, CloseFrame, sendVars, readVars
    <3>. QED BY <3>1 DEF Framing
  <2>2. PICK c : pipe' = Append(pipe, c) /\ ~IsBody(c, "bin")
    <3>1. CASE ControlBody
      <4>1. pipe' = Append(pipe, Chunk("body", writeM, NoBody)) /\ writeM # "bin"
        BY <3>1 DEF ControlBody
      <4>2. ~IsBody(Chunk("body", writeM, NoBody), "bin")
        BY <4>1 DEF IsBody, Chunk
      <4>. QED BY <4>1, <4>2
    <3>2. CASE Pong \/ CloseFrame
      <4>1. \E op \in {"empty", "pong", "close"} : pipe' = Append(pipe, Chunk("head", op, NoBody))
        BY <3>2 DEF Pong, CloseFrame
      <4>2. \A op : ~IsBody(Chunk("head", op, NoBody), "bin")
        BY DEF IsBody, Chunk
      <4>. QED BY <4>1, <4>2
    <3>. QED BY <1>6, <3>1, <3>2
  <2>3. due[Len(pipe) + 1] = w.nonce
    BY <1>1, <2>1 DEF WriterOrdered
  <2>4. PICK d \in Books : PipeOrdered(d)' /\ d[1] = due[1] /\ d[Len(pipe') + 1] = due[Len(pipe) + 1]
    BY <1>1, <1>2, <2>2, OrderAppend
  <2>5. Below' = Below /\ ReaderOrdered'
    BY <1>1, <2>1 DEF Below, ReaderOrdered
  <2>6. WriterOrdered(d[Len(pipe) + 1])'
    BY <2>1, <2>3, <2>4 DEF WriterOrdered
  <2>. QED BY <1>1, <2>4, <2>5, <2>6 DEF Ordered
<1>7. CASE WsRead
  <2>1. /\ Len(pipe) > 0 /\ rd' = rd /\ UNCHANGED <<w, held, dead>>
        /\ \/ IsHead(pipe[1], "empty") /\ pipe' = Tail(pipe) /\ rx' = rx
           \/ \E op \in Ops :
                /\ Len(pipe) > 1 /\ IsHead(pipe[1], op) /\ IsBody(pipe[2], op)
                /\ pipe' = Tail(Tail(pipe))
                /\ rx' = IF op = "bin" THEN Append(rx, pipe[2].f) ELSE rx
    BY <1>7, WsReadEffect DEF sendVars
  <2>2. pipe \in Seq(Chunks)
    BY DEF Ranges
  <2>3. CASE IsHead(pipe[1], "empty") /\ pipe' = Tail(pipe) /\ rx' = rx
    <3>1. Len(pipe') = Len(pipe) - 1 /\ \A i \in 1..(Len(pipe) - 1) : pipe'[i] = pipe[i + 1]
      BY <2>1, <2>2, <2>3
    <3>2. 1 \in 0..Len(pipe) /\ 1 \in 1..Len(pipe) /\ 1 + 1 = 2
      BY <1>2, <2>1
    <3>9. \E d \in Books : /\ PipeOrdered(d)' /\ d[1] = due[1 + 1]
                           /\ d[Len(pipe') + 1] = due[Len(pipe) + 1]
      BY <1>1, <3>1, <3>2, OrderShift
    <3>3. PICK d \in Books : PipeOrdered(d)' /\ d[1] = due[2] /\ d[Len(pipe') + 1] = due[Len(pipe) + 1]
      BY <3>2, <3>9
    <3>4. ~IsBody(pipe[1], "bin")
      BY <2>3 DEF IsBody, IsHead
    <3>5. due[2] = due[1]
      BY <1>1, <3>2, <3>4 DEF PipeOrdered
    <3>6. Below' = Below /\ ReaderOrdered'
      BY <1>1, <2>1, <2>3 DEF Below, ReaderOrdered
    <3>7. WriterOrdered(d[Len(pipe) + 1])'
      BY <1>1, <2>1, <3>3 DEF WriterOrdered
    <3>. QED BY <1>1, <3>3, <3>5, <3>6, <3>7 DEF Ordered
  <2>4. ASSUME NEW op \in Ops, Len(pipe) > 1, IsHead(pipe[1], op), IsBody(pipe[2], op), pipe' = Tail(Tail(pipe)),
               rx' = IF op = "bin" THEN Append(rx, pipe[2].f) ELSE rx
        PROVE  \E d \in Books : Ordered(d)'
    <3>1. Len(pipe') = Len(pipe) - 2 /\ \A i \in 1..(Len(pipe) - 2) : pipe'[i] = pipe[i + 2]
      BY <2>2, <2>4, TwoTails
    <3>2. 2 \in 0..Len(pipe) /\ 1 \in 1..Len(pipe) /\ 2 \in 1..Len(pipe) /\ 1 + 1 = 2 /\ 2 + 1 = 3
      BY <1>2, <2>4
    <3>9. \E d \in Books : /\ PipeOrdered(d)' /\ d[1] = due[2 + 1]
                           /\ d[Len(pipe') + 1] = due[Len(pipe) + 1]
      <4>1. PICK k \in 0..Len(pipe) : k = 2
        BY <3>2
      <4>2. Len(pipe') = Len(pipe) - k /\ \A i \in 1..(Len(pipe) - k) : pipe'[i] = pipe[i + k]
        BY <3>1, <4>1
      <4>3. \E d \in Books : /\ PipeOrdered(d)' /\ d[1] = due[k + 1]
                             /\ d[Len(pipe') + 1] = due[Len(pipe) + 1]
        BY <1>1, <4>2, OrderShift
      <4>. QED BY <4>1, <4>3
    <3>3. PICK d \in Books : PipeOrdered(d)' /\ d[1] = due[3] /\ d[Len(pipe') + 1] = due[Len(pipe) + 1]
      BY <3>2, <3>9
    <3>4. ~IsBody(pipe[1], "bin")
      BY <2>4 DEF IsBody, IsHead
    <3>5. due[2] = Below
      BY <1>1, <3>2, <3>4 DEF PipeOrdered
    <3>6. WriterOrdered(d[Len(pipe) + 1])'
      BY <1>1, <2>1, <3>3 DEF WriterOrdered
    <3>7. CASE op = "bin"
      <4>1. PICK f \in SealedFrame : f = pipe[2].f
        <5>1. pipe[2].f # NoBody /\ pipe[2] \in Chunks
          BY <2>2, <2>4, <3>2, <3>7 DEF Framing
        <5>. QED BY <5>1 DEF Chunks
      <4>2. f.hn = due[2] /\ due[3] = After(f)
        BY <1>1, <2>4, <3>2, <3>7, <4>1 DEF PipeOrdered
      <4>3. rx' = Append(rx, f) /\ f.hn = Below /\ rd'.nonce = rd.nonce
        BY <2>1, <2>4, <3>5, <3>7, <4>1, <4>2
      <4>4. ReaderOrdered' /\ Below' = After(f)
        BY <1>1, <4>3, ReaderAppend
      <4>. QED BY <3>3, <3>6, <4>2, <4>4 DEF Ordered
    <3>8. CASE op # "bin"
      <4>1. ~IsBody(pipe[2], "bin")
        BY <2>4, <3>8 DEF IsBody
      <4>2. due[3] = due[2]
        BY <1>1, <3>2, <4>1 DEF PipeOrdered
      <4>3. Below' = Below /\ ReaderOrdered'
        BY <1>1, <2>1, <2>4, <3>8 DEF Below, ReaderOrdered
      <4>. QED BY <3>3, <3>5, <3>6, <4>2, <4>3 DEF Ordered
    <3>. QED BY <3>7, <3>8
  <2>. QED BY <2>1, <2>3, <2>4
<1>8. ASSUME Taken(rx[1]), rx # <<>>, UNCHANGED <<sendVars, wsVars, dead>> PROVE Ordered(due)'
  <2>1. rx' = Tail(rx) /\ rd'.nonce = After(rx[1]) /\ UNCHANGED <<w, pipe, held, dead>>
    BY <1>8 DEF Taken, sendVars, wsVars
  <2>2. ReaderOrdered' /\ Below' = Below
    BY <1>1, <1>8, <2>1, ReaderTakes
  <2>. QED BY <1>1, <2>1, <2>2 DEF Ordered, PipeOrdered, WriterOrdered
<1>9. CASE ReadReply
  <2>1. rx # <<>> /\ UNCHANGED <<sendVars, wsVars, dead>>
    BY <1>9 DEF ReadReply
  <2>. QED BY <1>8, <1>9, <2>1, ReadReplyTakes
<1>10. CASE Read /\ rd.buf = 0
  <2>1. rx # <<>> /\ UNCHANGED <<sendVars, wsVars, dead>>
    BY <1>10 DEF Read
  <2>. QED BY <1>8, <1>10, <2>1, ReadTakes
<1>11. CASE Read /\ rd.buf # 0
  <2>1. rd' = [rd EXCEPT !.buf = 0] /\ UNCHANGED <<rx, sendVars, wsVars, dead>>
    BY <1>11, ReadRest
  <2>2. rd'.nonce = rd.nonce
    BY <2>1 DEF Ranges
  <2>. QED BY <1>3, <2>1, <2>2 DEF sendVars, wsVars
<1>12. CASE ReadTimesOut \/ ReadEnds \/ ResetReply
  <2>1. /\ \/ rd' = [rd EXCEPT !.lost = TRUE]
           \/ rd' = [rd EXCEPT !.err = "ended"]
           \/ rd' = [rd EXCEPT !.reply = FALSE, !.peerClosed = FALSE, !.resetAt = Len(seen)]
        /\ UNCHANGED <<sendVars, wsVars, dead, rx>>
    BY <1>12 DEF ReadTimesOut, ReadEnds, ResetReply
  <2>2. rd'.nonce = rd.nonce
    <3>1. rd \in [nonce : Nat, keyed : BOOLEAN, buf : Nat, reply : BOOLEAN, peerClosed : BOOLEAN,
                  resetAt : Nat, lost : BOOLEAN, err : {"none", "garbled", "ended"}]
      BY DEF Ranges
    <3>. QED BY <2>1, <3>1
  <2>. QED BY <1>3, <2>1, <2>2 DEF sendVars, wsVars
<1>13. CASE Begin \/ Ping
  BY <1>3, <1>13 DEF Begin, Ping, sendVars, wsVars, readVars
<1>14. CASE Idle
  <2>1. w'.nonce = w.nonce /\ UNCHANGED <<wsVars, dead, rx, readVars>>
    BY <1>14 DEF Idle, Ranges
  <2>. QED BY <1>3, <2>1 DEF wsVars, readVars
<1>15. CASE SendFails \/ Drop
  <2>1. dead' /\ UNCHANGED <<pipe, rx, readVars>>
    BY <1>15 DEF SendFails, Drop
  <2>. QED BY <1>3, <2>1 DEF readVars
<1>. QED
  BY <1>4, <1>5, <1>6, <1>7, <1>9, <1>10, <1>11, <1>12, <1>13, <1>14, <1>15 DEF Next

-----------------------------------------------------------------------------
(* The books agree with the frames in flight.                              *)

LEMMA FlyingReader ==
  ASSUME Ranges, NEW f, rx' = Append(rx, f), UNCHANGED <<pipe, held>> PROVE Flying' \subseteq Flying \cup {f}
<1>. SUFFICES ASSUME NEW g \in Flying', g # f PROVE g \in Flying OBVIOUS
<1>1. Len(rx') = Len(rx) + 1 /\ Len(rx) \in Nat /\ rx'[Len(rx) + 1] = f
      /\ \A i \in 1..Len(rx) : rx'[i] = rx[i]
  BY DEF Ranges
<1>2. CASE g \in {rx'[i] : i \in 1..Len(rx')}
  <2>1. PICK i \in 1..Len(rx') : g = rx'[i]
    BY <1>2
  <2>2. i \in 1..Len(rx)
    BY <1>1, <2>1
  <2>. QED BY <1>1, <2>1, <2>2 DEF Flying
<1>3. CASE g \notin {rx'[i] : i \in 1..Len(rx')}
  BY <1>3 DEF Flying
<1>. QED BY <1>2, <1>3

LEMMA FlyingPipe ==
  ASSUME Ranges, Framing, WsRead PROVE Flying' \subseteq Flying
<1>1. /\ Len(pipe) > 0 /\ held' = held
      /\ \/ IsHead(pipe[1], "empty") /\ pipe' = Tail(pipe) /\ rx' = rx
         \/ \E op \in Ops :
              /\ Len(pipe) > 1 /\ IsHead(pipe[1], op) /\ IsBody(pipe[2], op)
              /\ pipe' = Tail(Tail(pipe))
              /\ rx' = IF op = "bin" THEN Append(rx, pipe[2].f) ELSE rx
  BY WsReadEffect
<1>2. pipe \in Seq(Chunks) /\ Len(pipe) \in Nat
  BY DEF Ranges
<1>3. CASE pipe' = Tail(pipe) /\ rx' = rx
  <2>1. /\ pipe' \in Seq(Chunks) /\ Len(pipe') = Len(pipe) - 1
        /\ \A i \in 1..(Len(pipe) - 1) : pipe'[i] = pipe[i + 1]
    BY <1>1, <1>2, <1>3
  <2>2. 1 \in 0..Len(pipe)
    BY <1>1, <1>2
  <2>3. \A f \in {rx'[i] : i \in 1..Len(rx')} : f \in Flying
    BY <1>3 DEF Flying
  <2>. QED BY <1>1, <2>1, <2>2, <2>3, FlyingShift
<1>4. ASSUME NEW op \in Ops, Len(pipe) > 1, IsBody(pipe[2], op), pipe' = Tail(Tail(pipe)),
             rx' = IF op = "bin" THEN Append(rx, pipe[2].f) ELSE rx
      PROVE  Flying' \subseteq Flying
  <2>1. /\ pipe' \in Seq(Chunks) /\ Len(pipe') = Len(pipe) - 2
        /\ \A i \in 1..(Len(pipe) - 2) : pipe'[i] = pipe[i + 2]
    BY <1>2, <1>4, TwoTails
  <2>2. 2 \in 0..Len(pipe) /\ 2 \in 1..Len(pipe)
    BY <1>2, <1>4
  <2>3. ASSUME NEW i \in 1..Len(rx') PROVE rx'[i] \in Flying
    <3>1. Len(rx) \in Nat /\ \A f : /\ Len(Append(rx, f)) = Len(rx) + 1 /\ Append(rx, f)[Len(rx) + 1] = f
                                    /\ \A j \in 1..Len(rx) : Append(rx, f)[j] = rx[j]
      BY DEF Ranges
    <3>2. CASE op = "bin"
      <4>1. rx' = Append(rx, pipe[2].f)
        BY <1>4, <3>2
      <4>2. CASE i = Len(rx) + 1
        <5>1. rx'[i] = pipe[2].f /\ IsBody(pipe[2], "bin")
          BY <1>4, <3>1, <3>2, <4>1, <4>2
        <5>. QED BY <2>2, <5>1 DEF Flying
      <4>3. CASE i # Len(rx) + 1
        <5>1. i \in 1..Len(rx) /\ rx'[i] = rx[i]
          BY <3>1, <4>1, <4>3
        <5>. QED BY <5>1 DEF Flying
      <4>. QED BY <4>2, <4>3
    <3>3. CASE op # "bin"
      BY <1>4, <3>3 DEF Flying
    <3>. QED BY <3>2, <3>3
  <2>. QED BY <1>1, <2>1, <2>2, <2>3, FlyingShift
<1>. QED BY <1>1, <1>3, <1>4

LEMMA LedgerStep ==
  ASSUME Ranges, Salted, Framing, Chained, Next, Ranges', rd.err = "none", rd'.err = "none",
         NEW off \in Books, NEW nz \in Books, Ledger(off, nz)
  PROVE  \E o \in Books, z \in Books : Ledger(o, z)'
<1>1. /\ rd.nonce \leq w.nonce /\ off[rd.nonce] = got + rd.buf /\ nz[rd.nonce] = Len(seen)
  BY DEF Ledger
<1>2. CASE SendFrame
  <2>1. PICK f \in SealedFrame :
          /\ f.hn = w.nonce /\ held = NoBody /\ w'.nonce = After(f) /\ written' = written + f.len
          /\ zeros' = (IF f.kind = "zero" THEN Append(zeros, written) ELSE zeros)
          /\ \/ pipe' = Append(pipe, Chunk("head", "bin", NoBody)) /\ held' = f /\ rx' = rx
             \/ rx' = Append(rx, f) /\ UNCHANGED <<pipe, held>>
          /\ UNCHANGED <<rd, got, seen>>
    BY <1>2, SendEffect
  <2>2. Seals(f)
    BY <2>1 DEF Seals
  <2>3. CASE pipe' = Append(pipe, Chunk("head", "bin", NoBody)) /\ held' = f /\ rx' = rx
    <3>4. PICK c : c = Chunk("head", "bin", NoBody)
      OBVIOUS
    <3>1. ~IsBody(c, "bin")
      BY <3>4 DEF Chunk, IsBody
    <3>2. pipe' = Append(pipe, c)
      BY <2>3, <3>4
    <3>3. Flying' \subseteq Flying \cup {f}
      BY <2>3, <3>1, <3>2, FlyingAppend
    <3>. QED BY <2>1, <2>2, <3>3, LedgerSends
  <2>4. CASE rx' = Append(rx, f) /\ UNCHANGED <<pipe, held>>
    <3>1. Flying' \subseteq Flying \cup {f}
      BY <2>4, FlyingReader
    <3>. QED BY <2>1, <2>2, <3>1, LedgerSends
  <2>. QED BY <2>1, <2>3, <2>4
<1>3. CASE SendBody
  <2>1. writeM = "bin" /\ pipe' = Append(pipe, Chunk("body", "bin", held)) /\ held' = NoBody
        /\ UNCHANGED <<w, written, zeros, rx, rd, got, seen>>
    BY <1>3 DEF SendBody, readVars
  <2>2. held # NoBody
    BY <2>1 DEF Framing
  <2>6. PICK c : c = Chunk("body", "bin", held)
    OBVIOUS
  <2>3. c.f = held
    BY <2>6 DEF Chunk
  <2>4. pipe' = Append(pipe, c) /\ held \in Flying
    BY <2>1, <2>2, <2>6 DEF Flying
  <2>5. Flying' \subseteq Flying
    BY <2>1, <2>3, <2>4, FlyingAppend
  <2>. QED BY <1>1, <2>1, <2>5, LedgerKept
<1>4. CASE ControlBody \/ Pong \/ CloseFrame
  <2>1. PICK c : pipe' = Append(pipe, c) /\ ~IsBody(c, "bin")
    <3>1. CASE ControlBody
      <4>1. pipe' = Append(pipe, Chunk("body", writeM, NoBody)) /\ writeM # "bin"
        BY <3>1 DEF ControlBody
      <4>2. ~IsBody(Chunk("body", writeM, NoBody), "bin")
        BY <4>1 DEF IsBody, Chunk
      <4>. QED BY <4>1, <4>2
    <3>2. CASE Pong \/ CloseFrame
      <4>1. \E op \in {"empty", "pong", "close"} : pipe' = Append(pipe, Chunk("head", op, NoBody))
        BY <3>2 DEF Pong, CloseFrame
      <4>2. \A op : ~IsBody(Chunk("head", op, NoBody), "bin")
        BY DEF IsBody, Chunk
      <4>. QED BY <4>1, <4>2
    <3>. QED BY <1>4, <3>1, <3>2
  <2>2. UNCHANGED <<w, written, zeros, rx, rd, got, seen, held>>
    BY <1>4 DEF ControlBody, Pong, CloseFrame, sendVars, readVars
  <2>3. Flying' \subseteq Flying
    <3>1. held' # NoBody => held' \in Flying
      BY <2>2 DEF Flying
    <3>. QED BY <2>1, <2>2, <3>1, FlyingAppend
  <2>. QED BY <1>1, <2>2, <2>3, LedgerKept
<1>5. CASE WsRead
  <2>1. rd' = rd /\ UNCHANGED <<w, written, zeros, got, seen>>
    BY <1>5, WsReadEffect DEF sendVars
  <2>. QED BY <1>1, <1>5, <2>1, FlyingPipe, LedgerKept
<1>6. ASSUME Taken(rx[1]), rx # <<>>, UNCHANGED <<sendVars, wsVars, dead>> PROVE Ledger(off, nz)'
  <2>1. PICK f \in SealedFrame : f = rx[1]
    BY <1>6 DEF Taken
  <2>2. /\ rx' = Tail(rx) /\ rd.buf = 0 /\ rd'.nonce = After(f)
        /\ IF f.kind = "zero" THEN rd'.buf = 0 /\ got' = got /\ seen' = Append(seen, got)
           ELSE got' \in Nat /\ got' + rd'.buf = got + f.len /\ seen' = seen
        /\ UNCHANGED <<w, written, zeros, pipe, held>>
    BY <1>6, <2>1 DEF Taken, sendVars, wsVars
  <2>3. Len(rx) \in Nat /\ 1 \in 1..Len(rx)
    <3>1. rx \in Seq(SealedFrame)
      BY DEF Ranges
    <3>2. Len(rx) \in Nat /\ Len(rx) # 0
      BY <1>6, <3>1, EmptySeq
    <3>. QED BY <3>2
  <2>4. f \in Flying /\ f.hn = rd.nonce
    BY <2>1, <2>3 DEF Flying, Chained, Ordered, ReaderOrdered
  <2>5. /\ After(f) \leq w.nonce /\ off[After(f)] = off[f.hn] + f.len
        /\ nz[After(f)] = nz[f.hn] + (IF f.kind = "zero" THEN 1 ELSE 0)
    BY <2>4 DEF Ledger, Agrees
  <2>6. got \in Nat /\ f.len \in Nat /\ seen \in Seq(Nat) /\ Len(seen) \in Nat
    BY DEF Ranges, SealedFrame
  <2>7. off[f.hn] = got /\ nz[f.hn] = Len(seen)
    BY <1>1, <2>2, <2>4, <2>6
  <2>8. off[rd'.nonce] = got' + rd'.buf /\ nz[rd'.nonce] = Len(seen') /\ rd'.nonce \leq w.nonce
    <3>1. CASE f.kind = "zero"
      <4>1. f.len = 0 /\ got' = got /\ rd'.buf = 0 /\ Len(seen') = Len(seen) + 1
        BY <2>2, <2>6, <3>1 DEF SealedFrame
      <4>2. off[After(f)] = got + 0 /\ nz[After(f)] = Len(seen) + 1
        BY <2>5, <2>7, <3>1, <4>1
      <4>. QED BY <2>2, <2>5, <2>6, <4>1, <4>2
    <3>2. CASE f.kind # "zero"
      <4>1. off[After(f)] = got + f.len /\ nz[After(f)] = Len(seen) + 0
        BY <2>5, <2>7, <3>2
      <4>. QED BY <2>2, <2>5, <2>6, <3>2, <4>1
    <3>. QED BY <3>1, <3>2
  <2>9. Flying' \subseteq Flying
    <3>1. /\ pipe' \in Seq(Chunks) /\ Len(pipe) \in Nat /\ Len(pipe') = Len(pipe) - 0 /\ 0 \in 0..Len(pipe)
          /\ \A i \in 1..(Len(pipe) - 0) : pipe'[i] = pipe[i + 0]
      BY <2>2 DEF Ranges
    <3>2. Len(rx') = Len(rx) - 1 /\ \A i \in 1..(Len(rx) - 1) : rx'[i] = rx[i + 1] /\ i + 1 \in 1..Len(rx)
      BY <1>6, <2>2, <2>3 DEF Ranges
    <3>3. \A f2 \in {rx'[i] : i \in 1..Len(rx')} : f2 \in Flying
      BY <3>2 DEF Flying
    <3>. QED BY <2>2, <3>1, <3>3, FlyingShift
  <2>. QED BY <2>2, <2>8, <2>9, LedgerKept
<1>7. CASE ReadReply
  <2>1. rx # <<>> /\ UNCHANGED <<sendVars, wsVars, dead>>
    BY <1>7 DEF ReadReply
  <2>. QED BY <1>6, <1>7, <2>1, ReadReplyTakes
<1>8. CASE Read /\ rd.buf = 0
  <2>1. rx # <<>> /\ UNCHANGED <<sendVars, wsVars, dead>>
    BY <1>8 DEF Read
  <2>. QED BY <1>6, <1>8, <2>1, ReadTakes
<1>9. CASE Read /\ rd.buf # 0
  <2>1. rd' = [rd EXCEPT !.buf = 0] /\ got' = got + rd.buf
        /\ UNCHANGED <<rx, seen, sendVars, wsVars, dead>>
    BY <1>9, ReadRest
  <2>2. rd'.nonce = rd.nonce /\ got' + rd'.buf = got + rd.buf
    <3>1. rd \in [nonce : Nat, keyed : BOOLEAN, buf : Nat, reply : BOOLEAN, peerClosed : BOOLEAN,
                  resetAt : Nat, lost : BOOLEAN, err : {"none", "garbled", "ended"}] /\ got \in Nat
      BY DEF Ranges
    <3>2. rd'.buf = 0 /\ rd'.nonce = rd.nonce /\ rd.buf \in Nat
      BY <2>1, <3>1
    <3>. QED BY <2>1, <3>1, <3>2
  <2>3. UNCHANGED <<w, written, zeros, seen>> /\ Flying' \subseteq Flying
    BY <2>1 DEF Flying, sendVars, wsVars
  <2>. QED BY <1>1, <2>2, <2>3, LedgerKept
<1>10. CASE ReadTimesOut \/ ReadEnds \/ ResetReply
  <2>1. /\ \/ rd' = [rd EXCEPT !.lost = TRUE]
           \/ rd' = [rd EXCEPT !.err = "ended"]
           \/ rd' = [rd EXCEPT !.reply = FALSE, !.peerClosed = FALSE, !.resetAt = Len(seen)]
        /\ UNCHANGED <<sendVars, wsVars, dead, rx, got, seen>>
    BY <1>10 DEF ReadTimesOut, ReadEnds, ResetReply
  <2>2. rd'.nonce = rd.nonce /\ rd'.buf = rd.buf
    <3>1. rd \in [nonce : Nat, keyed : BOOLEAN, buf : Nat, reply : BOOLEAN, peerClosed : BOOLEAN,
                  resetAt : Nat, lost : BOOLEAN, err : {"none", "garbled", "ended"}]
      BY DEF Ranges
    <3>. QED BY <2>1, <3>1
  <2>3. UNCHANGED <<w, written, zeros, got, seen>> /\ Flying' \subseteq Flying
    BY <2>1 DEF Flying, sendVars, wsVars
  <2>. QED BY <1>1, <2>2, <2>3, LedgerKept
<1>11. CASE Begin \/ Ping \/ Idle \/ SendFails \/ Drop
  <2>1. w'.nonce = w.nonce
    <3>1. w' = w \/ w' = [w EXCEPT !.lastWrite = "idle"]
      BY <1>11 DEF Begin, Ping, Idle, SendFails, Drop, sendVars
    <3>2. w \in [nonce : Nat, saltSent : BOOLEAN, payLimit : Nat, lastWrite : {"zero", "idle", "recent"}]
      BY DEF Ranges
    <3>. QED BY <3>1, <3>2
  <2>2. UNCHANGED <<written, zeros, rx, pipe, rd, got, seen>> /\ (held' = held \/ held' = NoBody)
    BY <1>11 DEF Begin, Ping, Idle, SendFails, Drop, sendVars, wsVars, readVars
  <2>3. Flying' \subseteq Flying
    BY <2>2 DEF Flying
  <2>. QED BY <1>1, <2>1, <2>2, <2>3, LedgerKept
<1>. QED BY <1>2, <1>3, <1>4, <1>5, <1>7, <1>8, <1>9, <1>10, <1>11 DEF Next

\* Whether the connection is alive decides what its frames are worth.
LEMMA ChainedStep ==
  ASSUME Ranges, Salted, Framing, rd.err = "none" => Chained, [Next]_vars, Ranges', rd'.err = "none"
  PROVE  Chained'
<1>1. CASE UNCHANGED vars
  <2>1. Chained
    BY <1>1 DEF vars, readVars
  <2>2. UNCHANGED <<w, written, zeros, rx, pipe, held, rd, got, seen, dead>>
    BY <1>1 DEF vars, sendVars, wsVars, readVars
  <2>. QED
    BY <2>1, <2>2 DEF Chained, Ordered, ReaderOrdered, PipeOrdered, WriterOrdered, Below, Ledger, Flying,
                      Agrees, Limit
<1>2. CASE Next
  <2>1. rd.err = "none"
    <3>1. CASE rd' = rd
      BY <3>1
    <3>2. CASE rd' # rd
      BY <1>2, <3>2 DEF Next, Begin, SendFrame, SendBody, SendFails, Idle, Ping, Pong, CloseFrame, ControlBody,
                        Drop, WsRead, ReadReply, Read, ReadTimesOut, ReadEnds, ResetReply, readVars
    <3>. QED BY <3>1, <3>2
  <2>2. PICK due \in Books : Ordered(due)
    BY <2>1 DEF Chained
  <2>3. PICK off \in Books, nz \in Books : Ledger(off, nz)
    BY <2>1 DEF Chained
  <2>4. \E d \in Books : Ordered(d)'
    BY <1>2, <2>1, <2>2, OrderedStep
  <2>5. \E o \in Books, z \in Books : Ledger(o, z)'
    BY <1>2, <2>1, <2>3, LedgerStep
  <2>. QED BY <2>4, <2>5 DEF Chained
<1>. QED BY <1>1, <1>2

-----------------------------------------------------------------------------
(* What the caller of the reader is told, step by step.                    *)

\* A sealed frame adds to what may be read, and no zero chunk is moved.
LEMMA ToldSends ==
  ASSUME Ranges, Told, NEW f \in SealedFrame, Seals(f), UNCHANGED readVars PROVE Told'
<1>1. /\ written' \in Nat /\ written' \geq written /\ zeros' \in Seq(Nat) /\ Len(zeros') \geq Len(zeros)
      /\ \A i \in 1..Len(zeros) : zeros'[i] = zeros[i]
      /\ f.kind = "zero" => /\ Len(zeros') = Len(zeros) + 1 /\ zeros'[Len(zeros) + 1] = written
                            /\ written' = written
      /\ f.kind # "zero" => zeros' = zeros
  BY ZerosGrow
<1>2. seen \in Seq(Nat) /\ zeros \in Seq(Nat) /\ got \in Nat /\ rd.buf \in Nat /\ written \in Nat
  BY DEF Ranges
<1>3. PICK m \in Nat : m = Len(zeros)
  BY <1>2
<1>4. PICK k \in Nat : k = Len(seen)
  BY <1>2
<1>5. PICK m2 \in Nat : m2 = Len(zeros') /\ m2 \geq m
  BY <1>1, <1>3
<1>6. rd' = rd /\ got' = got /\ seen' = seen
  BY DEF readVars
<1>7. Matched'
  <2>1. k \leq m /\ \A i \in 1..k : seen[i] = zeros[i]
    BY <1>3, <1>4 DEF Told, Matched
  <2>2. k \leq m2 /\ \A i \in 1..k : i \in 1..m
    BY <1>5, <2>1
  <2>3. \A i \in 1..k : seen[i] = zeros'[i]
    BY <1>1, <1>3, <2>1, <2>2
  <2>. QED BY <1>4, <1>5, <1>6, <2>2, <2>3 DEF Matched
<1>8. Rising'
  <2>. SUFFICES ASSUME NEW i \in 1..m2 PROVE zeros'[i] \leq Limit(i)'
    BY <1>5 DEF Rising
  <2>1. CASE i \in 1..m
    <3>1. zeros'[i] = zeros[i] /\ zeros[i] \leq Limit(i) /\ zeros[i] \in Nat /\ i \in Nat
      BY <1>1, <1>2, <1>3, <2>1 DEF Told, Rising
    <3>2. Limit(i) \in Nat /\ Limit(i)' \in Nat /\ Limit(i) \leq Limit(i)'
      BY <3>1, LimitGrows
    <3>. QED BY <3>1, <3>2
  <2>2. CASE i \notin 1..m
    <3>1. m2 = m + 1 /\ zeros'[m + 1] = written /\ written' = written
      <4>1. m2 # m
        BY <2>2
      <4>2. f.kind = "zero"
        BY <1>1, <1>3, <1>5, <4>1
      <4>. QED BY <1>1, <1>3, <1>5, <4>2
    <3>2. i = m2 /\ ~(i < m2)
      BY <2>2, <3>1
    <3>3. Limit(i)' = written'
      BY <1>5, <3>2 DEF Limit
    <3>. QED BY <1>2, <3>1, <3>2, <3>3
  <2>. QED BY <2>1, <2>2
<1>9. got + rd.buf \leq Limit(k)'
  <2>1. got + rd.buf \leq Limit(k)
    BY <1>4 DEF Told
  <2>2. Limit(k) \in Nat /\ Limit(k)' \in Nat /\ Limit(k) \leq Limit(k)'
    BY LimitGrows
  <2>3. got + rd.buf \in Nat
    BY <1>2
  <2>. QED BY <2>1, <2>2, <2>3
<1>10. (got + rd.buf \leq Limit(Len(seen)))'
  BY <1>4, <1>6, <1>9
<1>11. /\ rd.resetAt \leq Len(seen) /\ (rd.peerClosed => rd.resetAt < Len(seen))
       /\ rd.err = "garbled" => rd.lost
  BY DEF Told
<1>. QED BY <1>6, <1>7, <1>8, <1>10, <1>11 DEF Told

\* A frame that is read was entered in the books when it was sealed.
LEMMA ToldTakes ==
  ASSUME Ranges, Told, Chained, rx # <<>>, Taken(rx[1]), UNCHANGED sendVars PROVE Told'
<1>1. seen \in Seq(Nat) /\ zeros \in Seq(Nat) /\ got \in Nat /\ written \in Nat
  BY DEF Ranges
<1>2. PICK m \in Nat : m = Len(zeros)
  BY <1>1
<1>3. PICK k \in Nat : k = Len(seen)
  BY <1>1
<1>4. PICK f \in SealedFrame : f = rx[1]
  BY DEF Taken
<1>5. k \leq m /\ \A i \in 1..k : seen[i] = zeros[i]
  BY <1>2, <1>3 DEF Told, Matched
<1>6. /\ got + rd.buf \leq Limit(k) /\ rd.resetAt \leq k /\ (rd.peerClosed => rd.resetAt < k)
  BY <1>3 DEF Told
<1>7. zeros' = zeros /\ written' = written
  BY DEF sendVars
<1>8. Rising'
  BY <1>7 DEF Told, Rising, Limit
<1>15. rd.resetAt \in Nat /\ rd.buf \in Nat
  BY DEF Ranges
<1>9. /\ rd.buf = 0 /\ rd'.lost = rd.lost /\ rd'.resetAt = rd.resetAt
      /\ \/ rd.lost /\ rd'.err = "garbled" /\ rd'.buf = 0 /\ rd'.peerClosed = rd.peerClosed
            /\ got' = got /\ seen' = seen
         \/ /\ ~rd.lost /\ rd'.err = "none"
            /\ IF f.kind = "zero"
               THEN rd'.buf = 0 /\ got' = got /\ seen' = Append(seen, got)
               ELSE /\ got' + rd'.buf = got + f.len /\ seen' = seen
                    /\ rd'.peerClosed = rd.peerClosed
  BY <1>4 DEF Taken
<1>10. /\ f.kind = "zero" => k < m /\ zeros[k + 1] = got
       /\ f.kind # "zero" => got + f.len \leq Limit(k)
  <2>1. Len(rx) # 0 /\ Len(rx) \in Nat
    <3>1. rx \in Seq(SealedFrame)
      BY DEF Ranges
    <3>. QED BY <3>1, EmptySeq
  <2>2. 1 \in 1..Len(rx)
    BY <2>1
  <2>3. f \in Flying /\ f.hn = rd.nonce
    BY <1>4, <2>2 DEF Flying, Chained, Ordered, ReaderOrdered
  <2>4. PICK off \in Books, nz \in Books : Ledger(off, nz)
    BY DEF Chained
  <2>5. Agrees(f, off, nz) /\ off[f.hn] = got + rd.buf /\ nz[f.hn] = k
    BY <1>3, <2>3, <2>4 DEF Ledger
  <2>6. off[f.hn] = got
    BY <1>1, <1>9, <2>5
  <2>7. f.kind = "zero" => k < m /\ zeros[k + 1] = got
    BY <1>2, <2>5, <2>6 DEF Agrees
  <2>8. f.kind # "zero" => got + f.len \leq Limit(k)
    BY <2>5, <2>6 DEF Agrees
  <2>. QED BY <2>7, <2>8
<1>11. CASE rd.lost
  <2>1. rd'.err = "garbled" /\ rd'.buf = 0 /\ rd'.peerClosed = rd.peerClosed /\ got' = got /\ seen' = seen
        /\ rd'.lost
    BY <1>9, <1>11
  <2>2. Matched'
    BY <1>7, <2>1 DEF Told, Matched
  <2>3. (got + rd.buf \leq Limit(Len(seen)))'
    BY <1>3, <1>6, <1>7, <1>9, <2>1 DEF Limit
  <2>. QED BY <1>3, <1>6, <1>8, <1>9, <2>1, <2>2, <2>3 DEF Told
<1>12. CASE ~rd.lost /\ f.kind = "zero"
  <2>1. rd'.err = "none" /\ rd'.buf = 0 /\ got' = got /\ seen' = Append(seen, got)
    BY <1>9, <1>12
  <2>2. Len(seen') = k + 1 /\ seen'[k + 1] = got /\ \A i \in 1..k : seen'[i] = seen[i]
    BY <1>1, <1>3, <2>1
  <2>3. k + 1 \in 1..m /\ zeros[k + 1] = got
    BY <1>10, <1>12
  <2>4. \A i \in 1..(k + 1) : seen'[i] = zeros[i]
    <3>1. \A i \in 1..(k + 1) : i = k + 1 \/ i \in 1..k
      OBVIOUS
    <3>. QED BY <1>5, <2>2, <2>3, <3>1
  <2>5. Matched'
    <3>1. k + 1 \leq m
      BY <2>3
    <3>. QED BY <1>2, <1>7, <2>2, <2>4, <3>1 DEF Matched
  <2>6. got \leq Limit(k + 1)
    BY <1>2, <2>3 DEF Told, Rising
  <2>7. (got + rd.buf \leq Limit(Len(seen)))'
    <3>1. Limit(Len(seen))' = Limit(k + 1)
      BY <1>7, <2>2 DEF Limit
    <3>2. got' + rd'.buf = got
      BY <1>1, <2>1
    <3>. QED BY <2>6, <3>1, <3>2
  <2>8. rd'.resetAt \leq k + 1 /\ rd'.resetAt < k + 1
    BY <1>6, <1>9, <1>15
  <2>. QED BY <1>8, <2>1, <2>2, <2>5, <2>7, <2>8 DEF Told
<1>13. CASE ~rd.lost /\ f.kind # "zero"
  <2>1. rd'.err = "none" /\ got' + rd'.buf = got + f.len /\ seen' = seen /\ rd'.peerClosed = rd.peerClosed
    BY <1>9, <1>13
  <2>2. Matched'
    BY <1>7, <2>1 DEF Told, Matched
  <2>3. (got + rd.buf \leq Limit(Len(seen)))'
    <3>1. Limit(Len(seen))' = Limit(k)
      BY <1>3, <1>7, <2>1 DEF Limit
    <3>. QED BY <1>10, <1>13, <2>1, <3>1
  <2>. QED BY <1>3, <1>6, <1>8, <1>9, <2>1, <2>2, <2>3 DEF Told
<1>. QED BY <1>11, <1>12, <1>13

LEMMA ToldStep ==
  ASSUME Ranges, Salted, Framing, Told, rd.err = "none" => Chained, [Next]_vars PROVE Told'
<1>1. CASE SendFrame
  <2>1. PICK f \in SealedFrame :
          /\ f.hn = w.nonce /\ w'.nonce = After(f) /\ written' = written + f.len
          /\ zeros' = (IF f.kind = "zero" THEN Append(zeros, written) ELSE zeros)
          /\ UNCHANGED <<rd, got, seen>>
    BY <1>1, SendEffect
  <2>2. Seals(f) /\ UNCHANGED readVars
    BY <2>1 DEF Seals, readVars
  <2>. QED BY <2>2, ToldSends
<1>2. CASE ReadReply
  <2>1. rd.err = "none" /\ rx # <<>> /\ UNCHANGED sendVars
    BY <1>2 DEF ReadReply
  <2>. QED BY <1>2, <2>1, ReadReplyTakes, ToldTakes
<1>3. CASE Read /\ rd.buf = 0
  <2>1. rd.err = "none" /\ rx # <<>> /\ UNCHANGED sendVars
    BY <1>3 DEF Read
  <2>. QED BY <1>3, <2>1, ReadTakes, ToldTakes
<1>4. ASSUME UNCHANGED <<zeros, written, seen>>, got' + rd'.buf = got + rd.buf,
             (rd'.resetAt = rd.resetAt /\ (rd'.peerClosed => rd.peerClosed))
               \/ (rd'.resetAt = Len(seen) /\ ~rd'.peerClosed),
             rd'.err = "garbled" => rd'.lost
      PROVE  Told'
  <2>1. Len(seen) \leq Len(seen)
    BY DEF Ranges
  <2>2. Matched' /\ Rising'
    BY <1>4 DEF Told, Matched, Rising, Limit
  <2>3. (got + rd.buf \leq Limit(Len(seen)))'
    BY <1>4 DEF Told, Limit
  <2>4. rd.resetAt \leq Len(seen) /\ (rd.peerClosed => rd.resetAt < Len(seen))
    BY DEF Told
  <2>5. (rd.resetAt \leq Len(seen) /\ (rd.peerClosed => rd.resetAt < Len(seen)))'
    BY <1>4, <2>1, <2>4
  <2>. QED BY <1>4, <2>2, <2>3, <2>5 DEF Told
<1>5. rd.err = "garbled" => rd.lost
  BY DEF Told
<1>6. CASE Read /\ rd.buf # 0
  <2>1. rd.err = "none" /\ got' = got + rd.buf /\ rd' = [rd EXCEPT !.buf = 0] /\ UNCHANGED <<seen, sendVars>>
    BY <1>6, ReadRest
  <2>2. rd \in [nonce : Nat, keyed : BOOLEAN, buf : Nat, reply : BOOLEAN, peerClosed : BOOLEAN,
                resetAt : Nat, lost : BOOLEAN, err : {"none", "garbled", "ended"}] /\ got \in Nat
    BY DEF Ranges
  <2>3. /\ rd'.buf = 0 /\ rd'.resetAt = rd.resetAt /\ rd'.peerClosed = rd.peerClosed /\ rd'.err = "none"
        /\ rd.buf \in Nat
    BY <2>1, <2>2
  <2>4. got' + rd'.buf = got + rd.buf
    BY <2>1, <2>2, <2>3
  <2>. QED BY <1>4, <2>1, <2>3, <2>4 DEF sendVars
<1>7. CASE ReadTimesOut \/ ReadEnds \/ ResetReply
  <2>1. /\ \/ rd' = [rd EXCEPT !.lost = TRUE]
           \/ rd' = [rd EXCEPT !.err = "ended"]
           \/ rd' = [rd EXCEPT !.reply = FALSE, !.peerClosed = FALSE, !.resetAt = Len(seen)]
        /\ rd.err = "none" /\ UNCHANGED <<sendVars, got, seen>>
    BY <1>7 DEF ReadTimesOut, ReadEnds, ResetReply
  <2>2. /\ rd'.buf = rd.buf /\ rd'.err # "garbled"
        /\ \/ rd'.resetAt = rd.resetAt /\ rd'.peerClosed = rd.peerClosed
           \/ rd'.resetAt = Len(seen) /\ ~rd'.peerClosed
    <3>1. rd \in [nonce : Nat, keyed : BOOLEAN, buf : Nat, reply : BOOLEAN, peerClosed : BOOLEAN,
                  resetAt : Nat, lost : BOOLEAN, err : {"none", "garbled", "ended"}]
      BY DEF Ranges
    <3>. QED BY <2>1, <3>1
  <2>. QED BY <1>4, <2>1, <2>2 DEF sendVars
<1>8. CASE WsRead
  <2>1. rd' = rd /\ UNCHANGED <<sendVars, got, seen>>
    BY <1>8, WsReadEffect
  <2>. QED BY <1>4, <1>5, <2>1 DEF sendVars
<1>9. CASE Begin \/ SendBody \/ SendFails \/ Idle \/ Ping \/ Pong \/ CloseFrame \/ ControlBody \/ Drop
           \/ UNCHANGED vars
  <2>1. UNCHANGED <<zeros, written, rd, got, seen>>
    BY <1>9 DEF Begin, SendBody, SendFails, Idle, Ping, Pong, CloseFrame, ControlBody, Drop, vars, sendVars,
                readVars
  <2>. QED BY <1>4, <1>5, <2>1
<1>. QED BY <1>1, <1>2, <1>3, <1>6, <1>7, <1>8, <1>9 DEF Next
LEMMA InitStep == Init => StepInv
<1>. SUFFICES ASSUME Init PROVE StepInv OBVIOUS
<1>1. /\ pipe = <<>> /\ rx = <<>> /\ zeros = <<>> /\ seen = <<>> /\ written = 0 /\ got = 0 /\ dead = FALSE
      /\ held = NoBody /\ writeM = "free" /\ pings = [sent |-> 0, due |-> 0]
      /\ w = [nonce |-> 0, saltSent |-> FALSE, payLimit |-> 0, lastWrite |-> "zero"]
      /\ rd = [nonce |-> 0, keyed |-> FALSE, buf |-> 0, reply |-> FALSE,
               peerClosed |-> FALSE, resetAt |-> 0, lost |-> FALSE, err |-> "none"]
      /\ conf \in [ws : BOOLEAN, id : {0, 24, 40}, pad : {256, 511}] /\ mu = "free" /\ left = 0
  BY DEF Init
<1>2. Len(pipe) = 0 /\ Len(rx) = 0 /\ Len(zeros) = 0 /\ Len(seen) = 0
  BY <1>1
<1>3. Ranges
  <2>1. pipe \in Seq(Chunks) /\ rx \in Seq(SealedFrame) /\ zeros \in Seq(Nat) /\ seen \in Seq(Nat)
    BY <1>1
  <2>2. w \in [nonce : Nat, saltSent : BOOLEAN, payLimit : Nat, lastWrite : {"zero", "idle", "recent"}]
        /\ pings \in [sent : Nat, due : Nat]
    BY <1>1
  <2>3. rd \in [nonce : Nat, keyed : BOOLEAN, buf : Nat, reply : BOOLEAN, peerClosed : BOOLEAN,
                resetAt : Nat, lost : BOOLEAN, err : {"none", "garbled", "ended"}]
    BY <1>1
  <2>. QED BY <1>1, <2>1, <2>2, <2>3 DEF Ranges
<1>4. Salted
  BY <1>1 DEF Salted
<1>5. Framing
  BY <1>1, <1>2 DEF Framing
<1>6. Told
  <2>1. Matched /\ Rising
    BY <1>1, <1>2 DEF Matched, Rising
  <2>2. Limit(0) = 0
    BY <1>1, <1>2 DEF Limit
  <2>. QED BY <1>1, <1>2, <2>1, <2>2 DEF Told
<1>7. Chained
  <2>1. PICK d \in Books : d = [i \in Nat |-> 0]
    BY DEF Books
  <2>2. \A i \in Nat : d[i] = 0
    BY <2>1
  <2>3. rd.nonce = 0 /\ rd.buf = 0 /\ w.nonce = 0
    BY <1>1
  <2>4. Flying = {}
    BY <1>1, <1>2 DEF Flying
  <2>5. Ordered(d)
    BY <1>1, <1>2, <2>2, <2>3 DEF Ordered, ReaderOrdered, PipeOrdered, WriterOrdered, Below
  <2>6. Ledger(d, d)
    BY <1>1, <1>2, <2>2, <2>3, <2>4 DEF Ledger
  <2>. QED BY <2>1, <2>5, <2>6 DEF Chained
<1>. QED BY <1>3, <1>4, <1>5, <1>6, <1>7 DEF StepInv

LEMMA StepInvStep == StepInv /\ [Next]_vars => StepInv'
<1>. SUFFICES ASSUME StepInv, [Next]_vars PROVE StepInv' OBVIOUS
<1>1. Ranges /\ Salted /\ Framing /\ Told /\ (rd.err = "none" => Chained)
  BY DEF StepInv
<1>2. Ranges'
  BY <1>1, RangesStep
<1>3. Salted' /\ Framing' /\ Told'
  BY <1>1, <1>2, SaltedStep, FramingStep, ToldStep
<1>4. rd'.err = "none" => Chained'
  BY <1>1, <1>2, ChainedStep
<1>. QED BY <1>2, <1>3, <1>4 DEF StepInv

\* The frames between the two ends are numbered without a gap or a repetition, from
\* the reader's next nonce to the writer's, a WebSocket header is followed by its own
\* body, and every frame agrees with what had been written when it was sealed.
THEOREM StepInvariant == Spec => []StepInv
<1>. QED BY InitStep, StepInvStep, PTL DEF Spec

LEMMA PrefixOf ==
  ASSUME NEW s \in Seq(Nat), NEW t \in Seq(Nat), Len(s) \leq Len(t), \A i \in 1..Len(s) : s[i] = t[i]
  PROVE  IsPrefix(s, t)
<1>1. PICK n \in Nat : n = Len(s)
  OBVIOUS
<1>2. n \leq Len(t) /\ Len(t) \in Nat
  BY <1>1
<1>3. SubSeq(s, 1, n) = SubSeq(t, 1, n)
  BY <1>1, <1>2
<1>. QED BY <1>1, <1>3 DEF IsPrefix

\* The writer of v4.go, the WebSocket layer and the reader stay in step (v4Writer.write,
\* wsConn.Write, v4Reader.readFrame): the reader returns only what was written, finds
\* each half-close where it was made, and fails to open a frame only after a deadline.
THEOREM EndsInStep == Spec => []InStep
<1>1. StepInv => InStep
  <2>. SUFFICES ASSUME StepInv PROVE InStep OBVIOUS
  <2>1. Told /\ seen \in Seq(Nat) /\ zeros \in Seq(Nat)
    BY DEF StepInv, Ranges
  <2>2. IsPrefix(seen, zeros)
    BY <2>1, PrefixOf DEF Told, Matched
  <2>3. got + rd.buf <= IF Len(seen) < Len(zeros) THEN zeros[Len(seen) + 1] ELSE written
    BY <2>1 DEF Told, Limit
  <2>4. rd.peerClosed => Len(seen) > rd.resetAt
    <3>1. rd.peerClosed => rd.resetAt < Len(seen)
      BY <2>1 DEF Told
    <3>2. rd.resetAt \in Nat /\ Len(seen) \in Nat
      BY <2>1 DEF StepInv, Ranges
    <3>. QED BY <3>1, <3>2
  <2>. QED BY <2>1, <2>2, <2>3, <2>4 DEF InStep, Told
<1>. QED BY StepInvariant, <1>1, PTL
-----------------------------------------------------------------------------
(* The writer's pace: nextPayloadLimit and the segments it aims at.        *)

\* A limit that is kept is never above the room of the segments sent since the
\* pause and of one more, and a Write under way has bytes left.
Paced ==
  /\ last \in [len : Nat, wire : Nat, nth : Nat \ {0}] /\ FrameFits
  /\ w.lastWrite # "zero" => w.saltSent
  /\ w.lastWrite = "recent" => /\ w.payLimit \in 1..MaxPayload
                               /\ w.payLimit + 39 <= (last.nth + 1) * FrameSize
  /\ (mu = "write" /\ held = NoBody) => left > 0

LEMMA OneMore == ASSUME NEW a \in Nat, NEW b \in Nat PROVE a * b \in Nat /\ (a + 1) * b = a * b + b
OBVIOUS

\* How many segments a frame is allowed: one after a pause, one more for each Write.
Allowed == IF w.lastWrite = "recent" THEN last.nth + 1 ELSE 1

\* The limit leaves room for all that is sent with the payload.
LEMMA LimitFits ==
  ASSUME Ranges, Paced
  PROVE  /\ NextPayloadLimit \in Nat /\ NextPayloadLimit >= 1 /\ Allowed \in Nat \ {0}
         /\ NextPayloadLimit + 39 <= Allowed * FrameSize
         /\ ~w.saltSent => NextPayloadLimit + 55 + conf.id + conf.pad <= Allowed * FrameSize
<1>1. FrameSize \in Nat /\ FrameSize >= 607 /\ FrameSize < 65536 /\ MaxPayload \in Nat
  BY WireAssumption DEF WireAssumption
<1>2. conf.id \in {0, 24, 40} /\ conf.pad \in {256, 511} /\ w.lastWrite \in {"zero", "idle", "recent"}
  BY DEF Ranges
<1>3. last.nth \in Nat
  BY DEF Paced
<1>4. CASE w.lastWrite = "zero"
  <2>1. NextPayloadLimit = (FrameSize + 65536 - 55 - conf.id - conf.pad) % 65536 /\ Allowed = 1
    BY <1>4 DEF NextPayloadLimit, Allowed
  <2>2. PICK s \in Nat : s = conf.id + conf.pad /\ s <= 551
    BY <1>2
  <2>3. FrameSize + 65536 - 55 - conf.id - conf.pad = 65536 + (FrameSize - 55 - s)
    BY <1>1, <1>2, <2>2
  <2>4. PICK r \in Nat : r = FrameSize - 55 - s /\ r >= 1 /\ r < 65536
    BY <1>1, <2>2
  <2>5. (65536 + r) % 65536 = r
    BY <2>4
  <2>6. NextPayloadLimit = r
    BY <2>1, <2>3, <2>4, <2>5
  <2>7. r + 55 + conf.id + conf.pad = FrameSize /\ r + 39 <= FrameSize /\ 1 * FrameSize = FrameSize
    BY <1>1, <1>2, <2>2, <2>4
  <2>. QED BY <1>1, <2>1, <2>4, <2>6, <2>7
<1>5. CASE w.lastWrite = "idle"
  <2>1. NextPayloadLimit = FrameSize - 39 /\ Allowed = 1 /\ w.saltSent
    BY <1>5 DEF NextPayloadLimit, Allowed, Paced
  <2>2. FrameSize - 39 \in Nat /\ FrameSize - 39 >= 1 /\ (FrameSize - 39) + 39 <= 1 * FrameSize
    BY <1>1
  <2>. QED BY <2>1, <2>2
<1>6. CASE w.lastWrite = "recent"
  <2>1. NextPayloadLimit = w.payLimit /\ Allowed = last.nth + 1 /\ w.saltSent
    BY <1>6 DEF NextPayloadLimit, Allowed, Paced
  <2>2. w.payLimit \in 1..MaxPayload /\ w.payLimit + 39 <= (last.nth + 1) * FrameSize
    BY <1>6 DEF Paced
  <2>3. w.payLimit \in Nat /\ w.payLimit >= 1 /\ last.nth + 1 \in Nat \ {0}
    BY <1>1, <1>3, <2>2
  <2>. QED BY <2>1, <2>2, <2>3
<1>. QED BY <1>2, <1>4, <1>5, <1>6

\* What Write cuts, and the limit it keeps for the next time.
LEMMA WriteFits ==
  ASSUME Ranges, Paced, mu = "write", held = NoBody, SendFrame
  PROVE  /\ last' = [len |-> NextFrame.f.len, wire |-> WireSize(NextFrame.f), nth |-> Allowed]
         /\ NextFrame.f.len \in 1..MaxPayload
         /\ WireSize(NextFrame.f) \in Nat /\ WireSize(NextFrame.f) <= Allowed * FrameSize
         /\ w'.payLimit \in 1..MaxPayload /\ w'.payLimit + 39 <= (Allowed + 1) * FrameSize
         /\ w'.lastWrite = "recent" /\ w'.saltSent
<1>. DEFINE limit == IF NextPayloadLimit \in 1..MaxPayload THEN NextPayloadLimit ELSE MaxPayload
            len   == Smaller(limit, left)
            more  == Smaller(NextPayloadLimit + FrameSize - 39, MaxPayload)
<1>1. FrameSize \in Nat /\ FrameSize >= 607 /\ MaxPayload \in Nat /\ MaxPayload >= 1
  BY WireAssumption DEF WireAssumption
<1>2. PICK next \in Nat : next = NextPayloadLimit
  BY LimitFits
<1>3. PICK q \in Nat : q = Allowed
  BY LimitFits
<1>4. PICK room \in Nat : room = Allowed * FrameSize /\ (Allowed + 1) * FrameSize = room + FrameSize
  BY <1>1, <1>3, OneMore
<1>5. next >= 1 /\ next + 39 <= room /\ (~w.saltSent => next + 55 + conf.id + conf.pad <= room)
  BY <1>2, <1>4, LimitFits
<1>6. left \in Nat /\ left > 0
  BY DEF Ranges, Paced
<1>7. PICK n \in Nat : n = len /\ n >= 1 /\ n <= next /\ n <= MaxPayload
  <2>1. limit \in Nat /\ limit >= 1 /\ limit <= next /\ limit <= MaxPayload
    BY <1>1, <1>2, <1>5
  <2>. HIDE DEF limit
  <2>. QED BY <1>1, <1>2, <1>6, <2>1 DEF Smaller
<1>8. PICK m \in Nat : m = more /\ m >= 1 /\ m <= MaxPayload /\ m + 39 <= room + FrameSize
  <2>1. PICK t \in Nat : t = NextPayloadLimit + FrameSize - 39 /\ t + 39 = next + FrameSize
    BY <1>1, <1>2
  <2>2. t >= 1 /\ t + 39 <= room + FrameSize
    BY <1>1, <1>5, <2>1
  <2>. QED BY <1>1, <1>4, <2>1, <2>2 DEF Smaller
<1>9. PICK pad \in Nat : pad = IF ~w.saltSent THEN conf.pad ELSE 0
  BY DEF Ranges
<1>10. NextFrame.f = Sealed(n, pad) /\ w' = NextFrame.w
  <2>1. NextFrame.f = Sealed(len, IF len > 0 /\ ~w.saltSent THEN conf.pad ELSE 0)
    BY DEF NextFrame
  <2>2. len > 0 <=> TRUE
    BY <1>7
  <2>3. w' = NextFrame.w
    BY DEF SendFrame
  <2>. HIDE DEF len
  <2>4. (IF len > 0 /\ ~w.saltSent THEN conf.pad ELSE 0) = pad
    BY <1>9, <2>2
  <2>. QED BY <1>7, <2>1, <2>3, <2>4
<1>11. w'.payLimit = m /\ w'.lastWrite = "recent" /\ w'.saltSent
  <2>1. PICK d : NextFrame.w = [w EXCEPT !.nonce = @ + d, !.saltSent = TRUE, !.payLimit = more,
                                         !.lastWrite = "recent"]
    BY DEF NextFrame
  <2>2. w \in [nonce : Nat, saltSent : BOOLEAN, payLimit : Nat, lastWrite : {"zero", "idle", "recent"}]
    BY DEF Ranges
  <2>. HIDE DEF more
  <2>. QED BY <1>8, <1>10, <2>1, <2>2
<1>12. NextFrame.f.len = n /\ NextFrame.f.kind = "data" /\ NextFrame.f.pad = pad
       /\ (NextFrame.f.salt <=> ~w.saltSent)
  <2>1. n # 0
    BY <1>7
  <2>2. NextFrame.f.len = n /\ NextFrame.f.kind = "data" /\ NextFrame.f.pad = pad
    BY <1>10, <2>1 DEF Sealed
  <2>3. NextFrame.f.salt = ~w.saltSent
    BY <1>10 DEF Sealed
  <2>. QED BY <2>2, <2>3, ZenonT(30)
<1>13. last' = [len |-> NextFrame.f.len, wire |-> WireSize(NextFrame.f), nth |-> Allowed]
  BY DEF SendFrame, Allowed
<1>14. WireSize(NextFrame.f) \in Nat /\ WireSize(NextFrame.f) <= room
  <2>1. conf.id \in Nat /\ conf.pad \in Nat
    BY DEF Ranges
  <2>2. WireSize(NextFrame.f) = (IF ~w.saltSent THEN 16 + conf.id ELSE 0) + 23 + (pad + n + 16)
    BY <1>12 DEF WireSize, SaltSize, HeaderSize, TagSize
  <2>3. CASE w.saltSent
    <3>1. WireSize(NextFrame.f) = 0 + 23 + (0 + n + 16)
      BY <1>9, <2>2, <2>3
    <3>. QED BY <1>5, <1>7, <3>1
  <2>4. CASE ~w.saltSent
    <3>1. WireSize(NextFrame.f) = (16 + conf.id) + 23 + (conf.pad + n + 16)
      BY <1>9, <2>2, <2>4
    <3>2. next + 55 + conf.id + conf.pad <= room
      BY <1>5, <2>4
    <3>. QED BY <1>7, <2>1, <3>1, <3>2
  <2>. QED BY <2>3, <2>4
<1>. QED BY <1>1, <1>4, <1>7, <1>8, <1>11, <1>12, <1>13, <1>14

LEMMA PacedStep == ASSUME Ranges, Salted, Framing, Paced, [Next]_vars PROVE Paced'
<1>1. CASE SendFrame /\ mu = "write"
  <2>1. held = NoBody
    BY <1>1 DEF SendFrame
  <2>2. /\ last' = [len |-> NextFrame.f.len, wire |-> WireSize(NextFrame.f), nth |-> Allowed]
        /\ NextFrame.f.len \in 1..MaxPayload
        /\ WireSize(NextFrame.f) \in Nat /\ WireSize(NextFrame.f) <= Allowed * FrameSize
        /\ w'.payLimit \in 1..MaxPayload /\ w'.payLimit + 39 <= (Allowed + 1) * FrameSize
        /\ w'.lastWrite = "recent" /\ w'.saltSent
    BY <1>1, <2>1, WriteFits
  <2>3. Allowed \in Nat \ {0}
    BY LimitFits
  <2>4. PICK n \in 1..MaxPayload : n = NextFrame.f.len
    BY <2>2
  <2>5. PICK s \in Nat : s = WireSize(NextFrame.f)
    BY <2>2
  <2>6. PICK q \in Nat \ {0} : q = Allowed
    BY <2>3
  <2>7. last' = [len |-> n, wire |-> s, nth |-> q] /\ s <= q * FrameSize
    BY <2>2, <2>4, <2>5, <2>6
  <2>8. last'.len = n /\ last'.wire = s /\ last'.nth = q
    BY <2>7
  <2>9. last' \in [len : Nat, wire : Nat, nth : Nat \ {0}]
    <3>1. n \in Nat
      BY WireAssumption DEF WireAssumption
    <3>. QED BY <2>7, <3>1
  <2>10. FrameFits'
    BY <2>7, <2>8 DEF FrameFits
  <2>11. (mu' = "write" /\ held' = NoBody) => left' > 0
    <3>1. PICK f \in SealedFrame :
            /\ left' \in Nat
            /\ (conf.ws /\ held' = f) \/ ~conf.ws
      BY <1>1, SendEffect
    <3>2. CASE conf.ws
      BY <3>1, <3>2, BodyKinds
    <3>3. CASE ~conf.ws
      <4>1. Return(left - NextFrame.f.len)
        BY <1>1, <3>3 DEF SendFrame
      <4>2. mu' = "write" => left' # 0
        BY <4>1 DEF Return
      <4>. QED BY <3>1, <4>2
    <3>. QED BY <3>2, <3>3
  <2>12. w'.payLimit + 39 <= (last'.nth + 1) * FrameSize
    BY <2>2, <2>6, <2>8
  <2>. QED BY <2>2, <2>9, <2>10, <2>11, <2>12 DEF Paced
<1>2. ASSUME last' = last, w'.lastWrite = w.lastWrite, w'.payLimit = w.payLimit, w.saltSent => w'.saltSent,
             (mu' = "write" /\ held' = NoBody) => left' > 0
      PROVE  Paced'
  BY <1>2 DEF Paced, FrameFits
<1>3. CASE SendFrame /\ mu # "write"
  <2>1. w' = NextFrame.w /\ last' = last /\ mu' \in {mu, "free"}
    BY <1>3 DEF SendFrame, Return
  <2>2. PICK d : NextFrame.w = [w EXCEPT !.nonce = @ + d, !.saltSent = TRUE, !.payLimit = w.payLimit,
                                         !.lastWrite = w.lastWrite]
    BY <1>3 DEF NextFrame
  <2>3. w'.lastWrite = w.lastWrite /\ w'.payLimit = w.payLimit /\ w'.saltSent
    <3>1. w \in [nonce : Nat, saltSent : BOOLEAN, payLimit : Nat, lastWrite : {"zero", "idle", "recent"}]
      BY DEF Ranges
    <3>. QED BY <2>1, <2>2, <3>1
  <2>4. mu' # "write"
    BY <1>3, <2>1
  <2>. QED BY <1>2, <2>1, <2>3, <2>4
<1>4. CASE Idle
  <2>1. w' = [w EXCEPT !.lastWrite = "idle"] /\ w.lastWrite = "recent" /\ UNCHANGED <<mu, held, left, last>>
    BY <1>4 DEF Idle, wsVars
  <2>2. w'.lastWrite = "idle" /\ w'.saltSent = w.saltSent
    <3>1. w \in [nonce : Nat, saltSent : BOOLEAN, payLimit : Nat, lastWrite : {"zero", "idle", "recent"}]
      BY DEF Ranges
    <3>. QED BY <2>1, <3>1
  <2>. QED BY <2>1, <2>2 DEF Paced, FrameFits
<1>5. CASE Begin
  <2>1. UNCHANGED <<w, last>> /\ (mu' = "write" => left' \in Lens)
    BY <1>5 DEF Begin
  <2>2. \A n \in Lens : n > 0
    BY WireAssumption DEF WireAssumption
  <2>. QED BY <1>2, <2>1, <2>2
<1>6. CASE SendBody
  <2>1. UNCHANGED <<w, last>> /\ left' = left /\ mu' = (IF left = 0 THEN "free" ELSE mu)
    BY <1>6 DEF SendBody, Return
  <2>2. mu' = "write" => left # 0
    BY <2>1
  <2>3. left \in Nat
    BY DEF Ranges
  <2>. QED BY <1>2, <2>1, <2>2, <2>3
<1>7. CASE SendFails
  <2>1. UNCHANGED <<w, last>> /\ mu' # "write"
    BY <1>7 DEF SendFails
  <2>. QED BY <1>2, <2>1
<1>8. CASE WsRead
  <2>1. UNCHANGED <<sendVars, held>>
    BY <1>8, WsReadEffect
  <2>. QED BY <1>2, <2>1 DEF Paced, sendVars
<1>9. CASE Ping \/ Pong \/ CloseFrame \/ ControlBody \/ Drop \/ ReadReply \/ Read \/ ReadTimesOut \/ ReadEnds
           \/ ResetReply \/ UNCHANGED vars
  <2>1. UNCHANGED <<w, last, mu, left, held>>
    BY <1>9 DEF Ping, Pong, CloseFrame, ControlBody, Drop, ReadReply, Read, ReadTimesOut, ReadEnds, ResetReply,
                vars, sendVars, wsVars
  <2>. QED BY <1>2, <2>1 DEF Paced
<1>. QED BY <1>1, <1>3, <1>4, <1>5, <1>6, <1>7, <1>8, <1>9 DEF Next

\* Write cuts its frames for the segments nextPayloadLimit of v4.go aims at, and the
\* 16 bits it counts in never make a payload empty or too long.
THEOREM FramesFit == Spec => []FrameFits
<1>1. Init => Paced
  <2>. SUFFICES ASSUME Init PROVE Paced OBVIOUS
  <2>1. last = [len |-> 1, wire |-> 0, nth |-> 1] /\ w.lastWrite = "zero" /\ mu = "free"
    BY DEF Init
  <2>2. FrameSize \in Nat /\ MaxPayload \in Nat \ {0}
    BY WireAssumption DEF WireAssumption
  <2>3. 1 \in 1..MaxPayload /\ 0 <= 1 * FrameSize
    BY <2>2
  <2>. QED BY <2>1, <2>3 DEF Paced, FrameFits
<1>2. StepInv /\ Paced /\ [Next]_vars => Paced'
  BY PacedStep DEF StepInv
<1>3. Paced => FrameFits
  BY DEF Paced
<1>. QED BY StepInvariant, <1>1, <1>2, <1>3, PTL DEF Spec
================================================================================
