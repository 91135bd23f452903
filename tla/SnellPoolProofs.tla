-------------------------- MODULE SnellPoolProofs --------------------------
(***************************************************************************)
(* Proofs about SnellPool for any number of transports, sessions and       *)
(* preconnects and any value of poolMaxIdle and poolMaxUses: the ranges of *)
(* its variables, and the ownership of transports.  Nothing leaks, nothing *)
(* has two owners, a closed pool is empty, no transport carries more than  *)
(* poolMaxUses CONNECTs, pop leaves no expired transport behind, and the   *)
(* pool implements ConnLease.  Then what is in flight on a reused          *)
(* transport: a client receives the bytes of its own session only, and the *)
(* server meets each CONNECT, and each frame after it, where it belongs.   *)
(***************************************************************************)
EXTENDS SnellPool, TLAPS

\* Where a session or Warm stands says whether it refers to a transport, and the
\* relay goroutines run inside the relay only.
Holding == {"recheck", "write", "ready", "relay", "put", "shut"}
PcInv ==
  /\ \A s \in Sessions :
       /\ held[s] # NoConn <=> pc[s] \in Holding
       /\ rd[s] = "run" \/ wr[s] = "run" => pc[s] = "relay"
  /\ wconn # NoConn <=> wpc = "put"
  /\ wpc \in {"dial", "put"} => wleft > 0
Typed == TypeOK /\ PcInv

-----------------------------------------------------------------------------
\* Closing transports keeps the wire variables in their ranges.
LEMMA ShutType ==
  ASSUME NEW D, Shut(D), tr \in [Conns -> {"unborn", "open", "closed"}],
         up \in [Conns -> Seq(Frame)], down \in [Conns -> Seq(Frame)],
         srv \in [Conns -> SrvState]
  PROVE  /\ tr' \in [Conns -> {"unborn", "open", "closed"}]
         /\ up' \in [Conns -> Seq(Frame)] /\ down' \in [Conns -> Seq(Frame)]
         /\ srv' \in [Conns -> SrvState]
<1>1. <<>> \in Seq(Frame) OBVIOUS
<1>2. IdleSrv \in SrvState BY DEF IdleSrv, SrvState
<1>. QED BY <1>1, <1>2 DEF Shut

\* Opening a transport keeps them too.
LEMMA OpenType ==
  ASSUME NEW c \in Conns, Open(c), tr \in [Conns -> {"unborn", "open", "closed"}],
         up \in [Conns -> Seq(Frame)], down \in [Conns -> Seq(Frame)],
         srv \in [Conns -> SrvState]
  PROVE  /\ tr' \in [Conns -> {"unborn", "open", "closed"}]
         /\ up' \in [Conns -> Seq(Frame)] /\ down' \in [Conns -> Seq(Frame)]
         /\ srv' \in [Conns -> SrvState]
BY DEF Open

\* Writing a frame keeps the upstream queues in their range.
LEMMA SendType ==
  ASSUME NEW c \in Conns, NEW f \in Frame, Send(c, f), up \in [Conns -> Seq(Frame)]
  PROVE  up' \in [Conns -> Seq(Frame)]
BY DEF Send

\* What remains of a list of entries behind its front.
LEMMA TailFacts ==
  ASSUME NEW q \in Seq(IdleEntry), q # <<>>
  PROVE  /\ Tail(q) \in Seq(IdleEntry)
         /\ 1 \in DOMAIN q /\ q[1] \in IdleEntry /\ q[1].conn \in Conns
         /\ \A i \in DOMAIN Tail(q) : /\ i + 1 \in DOMAIN q /\ i \in Nat \ {0}
                                     /\ Tail(q)[i] = q[i + 1]
         /\ \A i \in DOMAIN q : i # 1 => /\ i - 1 \in DOMAIN Tail(q)
                                        /\ Tail(q)[i - 1] = q[i]
<1>1. /\ Tail(q) \in Seq(IdleEntry) /\ Len(Tail(q)) = Len(q) - 1
      /\ Len(q) \in Nat \ {0} /\ DOMAIN q = 1..Len(q)
      /\ DOMAIN Tail(q) = 1..(Len(q) - 1)
      /\ \A i \in 1..(Len(q) - 1) : Tail(q)[i] = q[i + 1]
  OBVIOUS
<1>2. 1 \in DOMAIN q /\ q[1] \in IdleEntry
  BY <1>1
<1>3. q[1].conn \in Conns
  BY <1>2 DEF IdleEntry
<1>4. \A i \in DOMAIN Tail(q) : i + 1 \in DOMAIN q /\ i \in Nat \ {0}
  BY <1>1
<1>5. \A i \in DOMAIN q : i # 1 => i - 1 \in 1..(Len(q) - 1) /\ (i - 1) + 1 = i
  BY <1>1
<1>. QED BY <1>1, <1>2, <1>3, <1>4, <1>5

\* put appends an entry.
LEMMA AddedType ==
  ASSUME NEW c \in Conns, NEW u \in Nat, idle \in Seq(IdleEntry), now \in Nat
  PROVE  Added(c, u) \in Seq(IdleEntry)
<1>1. Entry(c, u) \in IdleEntry BY DEF Entry, IdleEntry
<1>. QED BY <1>1 DEF Added

-----------------------------------------------------------------------------
\* The steps of Pool.Dial preserve types and control-state facts.
LEMMA DialTyped ==
  ASSUME Typed, NEW s \in Sessions, Arrive(s) \/ DialStep(s)
  PROVE  Typed'
<1>. USE PoolAssumption DEF PoolAssumption
<1>h. ASSUME pc[s] \in Holding
      PROVE  held[s] \in Conns
  BY <1>h DEF Typed, TypeOK, PcInv, SesTypeOK
<1>1. CASE Arrive(s)
  <2>11. PoolTypeOK' /\ WireTypeOK' /\ ConnTypeOK'
    BY <1>1 DEF Typed, TypeOK, Arrive, PoolTypeOK, poolVars, warmVars, WireTypeOK, wireVars, ConnTypeOK, connVars
  <2>12. SesTypeOK'
    BY <1>1 DEF Typed, TypeOK, Arrive, SesTypeOK, sesVars, relVars
  <2>13. PcInv'
    BY <1>1 DEF Typed, TypeOK, Arrive, PcInv, poolVars, warmVars, sesVars, relVars, SesTypeOK, PoolTypeOK, Holding
  <2>. QED BY <2>11, <2>12, <2>13 DEF Typed, TypeOK
<1>2. CASE Take(s)
  <2>1. /\ pc[s] = "take" /\ expired = NoConn
        /\ Turn(s, now) \/ Turn(s, popAt)
        /\ UNCHANGED <<closed, doomed, now, warmVars, connVars, wireVars, tries, relVars>>
    BY <1>2 DEF Take
  <2>2. WireTypeOK' /\ ConnTypeOK'
    BY <2>1 DEF Typed, TypeOK, WireTypeOK, wireVars, ConnTypeOK, connVars
  <2>3. idle \in Seq(IdleEntry) /\ now \in Nat /\ popAt \in Nat
    BY DEF Typed, TypeOK, PoolTypeOK
  <2>4. ASSUME NEW t \in Nat, Turn(s, t)
        PROVE  PoolTypeOK' /\ SesTypeOK' /\ PcInv'
    <3>1. CASE /\ popper' = NoSession /\ popAt' = 0 /\ pc' = [pc EXCEPT ![s] = "miss"]
               /\ UNCHANGED <<idle, expired, held, uses>>
      <4>1. PoolTypeOK'
        BY <2>1, <3>1 DEF Typed, TypeOK, PoolTypeOK, warmVars
      <4>2. SesTypeOK'
        BY <2>1, <3>1 DEF Typed, TypeOK, SesTypeOK, relVars
      <4>3. PcInv'
        BY <2>1, <3>1 DEF Typed, TypeOK, PcInv, warmVars, relVars, SesTypeOK, Holding
      <4>. QED BY <4>1, <4>2, <4>3
    <3>2. CASE /\ idle # <<>> /\ idle' = Tail(idle)
               /\ popper' = s /\ popAt' = t /\ expired' = idle[1].conn
               /\ UNCHANGED <<pc, held, uses>>
      <4>1. PoolTypeOK'
        BY <2>1, <2>3, <2>4, <3>2, TailFacts DEF Typed, TypeOK, PoolTypeOK, warmVars
      <4>2. SesTypeOK'
        BY <2>1, <3>2 DEF Typed, TypeOK, SesTypeOK, relVars
      <4>3. PcInv'
        BY <2>1, <3>2 DEF Typed, TypeOK, PcInv, warmVars, relVars
      <4>. QED BY <4>1, <4>2, <4>3
    <3>3. CASE /\ idle # <<>> /\ idle' = Tail(idle) /\ popper' = NoSession /\ popAt' = 0
               /\ held' = [held EXCEPT ![s] = idle[1].conn]
               /\ uses' = [uses EXCEPT ![s] = idle[1].uses + 1]
               /\ pc' = [pc EXCEPT ![s] = "write"] /\ UNCHANGED expired
      <4>0. idle[1].conn \in Conns /\ idle[1].uses \in Nat
        BY <2>3, <3>3, TailFacts DEF IdleEntry
      <4>1. PoolTypeOK'
        BY <2>1, <2>3, <3>3, TailFacts DEF Typed, TypeOK, PoolTypeOK, warmVars
      <4>2. SesTypeOK'
        BY <2>1, <3>3, <4>0 DEF Typed, TypeOK, SesTypeOK, relVars
      <4>3. PcInv'
        BY <2>1, <3>3, <4>0 DEF Typed, TypeOK, PcInv, warmVars, relVars, SesTypeOK, Holding
      <4>. QED BY <4>1, <4>2, <4>3
    <3>. QED BY <2>4, <3>1, <3>2, <3>3 DEF Turn
  <2>. QED BY <2>1, <2>2, <2>3, <2>4 DEF Typed, TypeOK
<1>8. CASE PopClose(s)
  <2>1. PoolTypeOK' /\ ConnTypeOK'
    BY <1>8 DEF Typed, TypeOK, PopClose, PoolTypeOK, warmVars, ConnTypeOK, connVars
  <2>2. WireTypeOK'
    BY <1>8, ShutType DEF Typed, TypeOK, PopClose, WireTypeOK
  <2>3. SesTypeOK'
    BY <1>8 DEF Typed, TypeOK, PopClose, SesTypeOK, sesVars, relVars
  <2>4. PcInv'
    BY <1>8 DEF Typed, PopClose, PcInv, warmVars, sesVars, relVars
  <2>. QED BY <2>1, <2>2, <2>3, <2>4 DEF Typed, TypeOK
<1>3. CASE Miss(s)
  <2>11. PoolTypeOK' /\ WireTypeOK' /\ ConnTypeOK'
    BY <1>3 DEF Typed, TypeOK, Miss, PoolTypeOK, poolVars, warmVars, WireTypeOK, wireVars, ConnTypeOK, connVars
  <2>12. SesTypeOK'
    BY <1>3 DEF Typed, TypeOK, Miss, SesTypeOK, sesVars, relVars
  <2>13. PcInv'
    BY <1>3 DEF Typed, TypeOK, Miss, PcInv, poolVars, warmVars, sesVars, relVars, SesTypeOK, PoolTypeOK, Holding
  <2>. QED BY <2>11, <2>12, <2>13 DEF Typed, TypeOK
<1>4. CASE Factory(s)
  <2>1. CASE pc' = [pc EXCEPT ![s] = "failed"] /\ UNCHANGED <<wireVars, held, uses>>
    <3>11. PoolTypeOK' /\ WireTypeOK' /\ ConnTypeOK'
      BY <1>4, <2>1 DEF Typed, TypeOK, Factory, PoolTypeOK, poolVars, warmVars, WireTypeOK, wireVars, ConnTypeOK, connVars
    <3>12. SesTypeOK'
      BY <1>4, <2>1 DEF Typed, TypeOK, Factory, SesTypeOK, sesVars, relVars
    <3>13. PcInv'
      BY <1>4, <2>1 DEF Typed, TypeOK, Factory, PcInv, poolVars, warmVars, sesVars, relVars, SesTypeOK, PoolTypeOK, Holding
    <3>. QED BY <3>11, <3>12, <3>13 DEF Typed, TypeOK
  <2>2. ASSUME NEW c \in Conns, Open(c), held' = [held EXCEPT ![s] = c],
               uses' = [uses EXCEPT ![s] = 1], pc' = [pc EXCEPT ![s] = "recheck"]
        PROVE  Typed'
    <3>1. pc[s] = "dial" /\ UNCHANGED <<poolVars, warmVars, connVars, tries, relVars>>
      BY <1>4 DEF Factory
    <3>11. PoolTypeOK' /\ ConnTypeOK'
      BY <2>2, <3>1 DEF Typed, TypeOK, PoolTypeOK, poolVars, warmVars, ConnTypeOK, connVars
    <3>12. WireTypeOK'
      BY <2>2, <3>1, OpenType DEF Typed, TypeOK, WireTypeOK, wireVars
    <3>13. SesTypeOK'
      BY <2>2, <3>1 DEF Typed, TypeOK, SesTypeOK, sesVars, relVars
    <3>14. PcInv'
      BY <2>2, <3>1 DEF Typed, TypeOK, PcInv, poolVars, warmVars, sesVars, relVars, SesTypeOK, PoolTypeOK, Holding
    <3>. QED BY <3>11, <3>12, <3>13, <3>14 DEF Typed, TypeOK
  <2>. QED BY <1>4, <2>1, <2>2 DEF Factory
<1>5. CASE Recheck(s)
  <2>1. CASE closed
    <3>11. PoolTypeOK' /\ ConnTypeOK'
      BY <1>5, <2>1 DEF Typed, TypeOK, Recheck, PoolTypeOK, poolVars, warmVars, ConnTypeOK, connVars
    <3>12. WireTypeOK'
      BY <1>5, <2>1, ShutType DEF Typed, TypeOK, Recheck, WireTypeOK, wireVars
    <3>13. SesTypeOK'
      BY <1>5, <2>1 DEF Typed, TypeOK, Recheck, SesTypeOK, sesVars, relVars
    <3>14. PcInv'
      BY <1>5, <2>1 DEF Typed, TypeOK, Recheck, PcInv, poolVars, warmVars, sesVars, relVars, SesTypeOK, PoolTypeOK, Holding
    <3>. QED BY <3>11, <3>12, <3>13, <3>14 DEF Typed, TypeOK
  <2>2. CASE ~closed
    <3>11. PoolTypeOK' /\ WireTypeOK' /\ ConnTypeOK'
      BY <1>5, <2>2 DEF Typed, TypeOK, Recheck, PoolTypeOK, poolVars, warmVars, WireTypeOK, wireVars, ConnTypeOK, connVars
    <3>12. SesTypeOK'
      BY <1>5, <2>2 DEF Typed, TypeOK, Recheck, SesTypeOK, sesVars, relVars
    <3>13. PcInv'
      BY <1>5, <2>2 DEF Typed, TypeOK, Recheck, PcInv, poolVars, warmVars, sesVars, relVars, SesTypeOK, PoolTypeOK, Holding
    <3>. QED BY <3>11, <3>12, <3>13 DEF Typed, TypeOK
  <2>. QED BY <2>1, <2>2
<1>6. CASE WriteConnect(s)
  <2>1. held[s] \in Conns /\ F("connect", s) \in Frame
    BY <1>6, <1>h DEF WriteConnect, Holding, F, Frame
  <2>11. PoolTypeOK' /\ ConnTypeOK'
    BY <1>6, <2>1 DEF Typed, TypeOK, WriteConnect, PoolTypeOK, poolVars, warmVars, ConnTypeOK, connVars
  <2>12. WireTypeOK'
    BY <1>6, <2>1, SendType DEF Typed, TypeOK, WriteConnect, WireTypeOK, wireVars
  <2>13. SesTypeOK'
    BY <1>6, <2>1 DEF Typed, TypeOK, WriteConnect, SesTypeOK, sesVars, relVars
  <2>14. PcInv'
    BY <1>6, <2>1 DEF Typed, TypeOK, WriteConnect, PcInv, poolVars, warmVars, sesVars, relVars, SesTypeOK, PoolTypeOK, Holding
  <2>. QED BY <2>11, <2>12, <2>13, <2>14 DEF Typed, TypeOK
<1>7. CASE WriteFails(s)
  <2>11. PoolTypeOK' /\ ConnTypeOK'
    BY <1>7 DEF Typed, TypeOK, WriteFails, PoolTypeOK, poolVars, warmVars, ConnTypeOK, connVars
  <2>12. WireTypeOK'
    BY <1>7, ShutType DEF Typed, TypeOK, WriteFails, WireTypeOK, wireVars
  <2>13. SesTypeOK'
    BY <1>7 DEF Typed, TypeOK, WriteFails, SesTypeOK, sesVars, relVars
  <2>14. PcInv'
    BY <1>7 DEF Typed, TypeOK, WriteFails, PcInv, poolVars, warmVars, sesVars, relVars, SesTypeOK, PoolTypeOK, Holding
  <2>. QED BY <2>11, <2>12, <2>13, <2>14 DEF Typed, TypeOK
<1>. QED BY <1>1, <1>2, <1>3, <1>4, <1>5, <1>6, <1>7, <1>8 DEF DialStep

\* So do the relay and pooledConn.
LEMMA RelayTyped ==
  ASSUME Typed, NEW s \in Sessions,
         \/ StartRelay(s) \/ Abort(s) \/ WriteData(s) \/ CloseWrite(s)
         \/ ReaderStep(s) \/ CloseStep(s)
  PROVE  Typed'
<1>. USE PoolAssumption DEF PoolAssumption
<1>h. ASSUME pc[s] \in Holding \/ rd[s] = "run" \/ wr[s] = "run"
      PROVE  held[s] \in Conns
  BY <1>h DEF Typed, TypeOK, PcInv, SesTypeOK, Holding
<1>1. CASE StartRelay(s)
  <2>11. PoolTypeOK' /\ WireTypeOK' /\ ConnTypeOK'
    BY <1>1 DEF Typed, TypeOK, StartRelay, PoolTypeOK, poolVars, warmVars, WireTypeOK, wireVars, ConnTypeOK, connVars
  <2>12. SesTypeOK'
    BY <1>1 DEF Typed, TypeOK, StartRelay, SesTypeOK, sesVars, relVars
  <2>13. PcInv'
    BY <1>1 DEF Typed, TypeOK, StartRelay, PcInv, poolVars, warmVars, sesVars, relVars, SesTypeOK, PoolTypeOK, Holding
  <2>. QED BY <2>11, <2>12, <2>13 DEF Typed, TypeOK
<1>2. CASE Abort(s)
  <2>11. PoolTypeOK' /\ ConnTypeOK'
    BY <1>2 DEF Typed, TypeOK, Abort, PoolTypeOK, poolVars, warmVars, ConnTypeOK, connVars
  <2>12. WireTypeOK'
    BY <1>2, ShutType DEF Typed, TypeOK, Abort, WireTypeOK, wireVars
  <2>13. SesTypeOK'
    BY <1>2 DEF Typed, TypeOK, Abort, SesTypeOK, sesVars, relVars
  <2>14. PcInv'
    BY <1>2 DEF Typed, TypeOK, Abort, PcInv, poolVars, warmVars, sesVars, relVars, SesTypeOK, PoolTypeOK, Holding
  <2>. QED BY <2>11, <2>12, <2>13, <2>14 DEF Typed, TypeOK
<1>3. CASE WriteData(s)
  <2>1. held[s] \in Conns /\ F("data", s) \in Frame
    BY <1>3, <1>h DEF WriteData, F, Frame
  <2>11. PoolTypeOK' /\ ConnTypeOK'
    BY <1>3, <2>1 DEF Typed, TypeOK, WriteData, PoolTypeOK, poolVars, warmVars, ConnTypeOK, connVars
  <2>12. WireTypeOK'
    BY <1>3, <2>1, SendType DEF Typed, TypeOK, WriteData, WireTypeOK, wireVars
  <2>13. SesTypeOK'
    BY <1>3, <2>1 DEF Typed, TypeOK, WriteData, SesTypeOK, sesVars, relVars
  <2>14. PcInv'
    BY <1>3, <2>1 DEF Typed, TypeOK, WriteData, PcInv, poolVars, warmVars, sesVars, relVars, SesTypeOK, PoolTypeOK, Holding
  <2>. QED BY <2>11, <2>12, <2>13, <2>14 DEF Typed, TypeOK
<1>4. CASE CloseWrite(s)
  <2>1. held[s] \in Conns /\ F("zero", s) \in Frame
    BY <1>4, <1>h DEF CloseWrite, F, Frame
  <2>11. PoolTypeOK' /\ ConnTypeOK'
    BY <1>4, <2>1 DEF Typed, TypeOK, CloseWrite, PoolTypeOK, poolVars, warmVars, ConnTypeOK, connVars
  <2>12. WireTypeOK'
    BY <1>4, <2>1, SendType DEF Typed, TypeOK, CloseWrite, WireTypeOK, wireVars
  <2>13. SesTypeOK'
    BY <1>4, <2>1 DEF Typed, TypeOK, CloseWrite, SesTypeOK, sesVars, relVars
  <2>14. PcInv'
    BY <1>4, <2>1 DEF Typed, TypeOK, CloseWrite, PcInv, poolVars, warmVars, sesVars, relVars, SesTypeOK, PoolTypeOK, Holding
  <2>. QED BY <2>11, <2>12, <2>13, <2>14 DEF Typed, TypeOK
<1>5. CASE ReaderStep(s)
  <2>1. rd[s] = "run" /\ held[s] \in Conns
    BY <1>5, <1>h DEF ReaderStep, ReadReply, ReadPayload, ReadZero, ReadDrop
  <2>2. ASSUME down[held[s]] # <<>>
        PROVE  /\ Tail(down[held[s]]) \in Seq(Frame)
               /\ Head(down[held[s]]) \in Frame
    BY <2>1, <2>2 DEF Typed, TypeOK, WireTypeOK
  <2>3. CASE ReadReply(s)
    <3>11. PoolTypeOK' /\ WireTypeOK' /\ ConnTypeOK'
      BY <2>1, <2>2, <2>3 DEF Typed, TypeOK, ReadReply, PoolTypeOK, poolVars, warmVars, WireTypeOK, wireVars, ConnTypeOK, connVars
    <3>1. Head(down[held[s]]).ses \in Sessions
      BY <2>2, <2>3 DEF ReadReply, Frame
    <3>2. got' \in [Sessions -> SUBSET Sessions]
      <4>1. \/ got' = got
            \/ got' = [got EXCEPT ![s] = @ \cup {Head(down[held[s]]).ses}]
        BY <2>3 DEF ReadReply
      <4>. QED BY <4>1, <3>1 DEF Typed, TypeOK, SesTypeOK
    <3>3. rd' \in [Sessions -> {"off", "run", "done"}]
      BY <2>3 DEF Typed, TypeOK, ReadReply, SesTypeOK
    <3>12. SesTypeOK'
      BY <2>3, <3>2, <3>3 DEF Typed, TypeOK, ReadReply, SesTypeOK, sesVars
    <3>13. PcInv'
      BY <2>1, <2>2, <2>3 DEF Typed, TypeOK, ReadReply, PcInv, poolVars, warmVars, sesVars, relVars, SesTypeOK, PoolTypeOK, Holding
    <3>. QED BY <3>11, <3>12, <3>13 DEF Typed, TypeOK
  <2>4. CASE ReadPayload(s)
    <3>11. PoolTypeOK' /\ WireTypeOK' /\ ConnTypeOK'
      BY <2>1, <2>2, <2>4 DEF Typed, TypeOK, ReadPayload, PoolTypeOK, poolVars, warmVars, WireTypeOK, wireVars, ConnTypeOK, connVars
    <3>1. Head(down[held[s]]).ses \in Sessions
      BY <2>2, <2>4 DEF ReadPayload, Frame
    <3>2. got' \in [Sessions -> SUBSET Sessions]
      BY <2>4, <3>1 DEF Typed, TypeOK, ReadPayload, SesTypeOK
    <3>3. rd' \in [Sessions -> {"off", "run", "done"}]
      BY <2>4 DEF Typed, TypeOK, ReadPayload, SesTypeOK
    <3>12. SesTypeOK'
      BY <2>4, <3>2, <3>3 DEF Typed, TypeOK, ReadPayload, SesTypeOK, sesVars
    <3>13. PcInv'
      BY <2>1, <2>2, <2>4 DEF Typed, TypeOK, ReadPayload, PcInv, poolVars, warmVars, sesVars, relVars, SesTypeOK, PoolTypeOK, Holding
    <3>. QED BY <3>11, <3>12, <3>13 DEF Typed, TypeOK
  <2>5. CASE ReadZero(s)
    <3>11. PoolTypeOK' /\ WireTypeOK' /\ ConnTypeOK'
      BY <2>1, <2>2, <2>5 DEF Typed, TypeOK, ReadZero, PoolTypeOK, poolVars, warmVars, WireTypeOK, wireVars, ConnTypeOK, connVars
    <3>12. SesTypeOK'
      BY <2>1, <2>2, <2>5 DEF Typed, TypeOK, ReadZero, SesTypeOK, sesVars, relVars, Frame
    <3>13. PcInv'
      BY <2>1, <2>2, <2>5 DEF Typed, TypeOK, ReadZero, PcInv, poolVars, warmVars, sesVars, relVars, SesTypeOK, PoolTypeOK, Holding
    <3>. QED BY <3>11, <3>12, <3>13 DEF Typed, TypeOK
  <2>6. CASE ReadDrop(s)
    <3>11. PoolTypeOK' /\ WireTypeOK' /\ ConnTypeOK'
      BY <2>1, <2>2, <2>6 DEF Typed, TypeOK, ReadDrop, PoolTypeOK, poolVars, warmVars, WireTypeOK, wireVars, ConnTypeOK, connVars
    <3>12. SesTypeOK'
      BY <2>1, <2>2, <2>6 DEF Typed, TypeOK, ReadDrop, SesTypeOK, sesVars, relVars, Frame
    <3>13. PcInv'
      BY <2>1, <2>2, <2>6 DEF Typed, TypeOK, ReadDrop, PcInv, poolVars, warmVars, sesVars, relVars, SesTypeOK, PoolTypeOK, Holding
    <3>. QED BY <3>11, <3>12, <3>13 DEF Typed, TypeOK
  <2>. QED BY <1>5, <2>3, <2>4, <2>5, <2>6 DEF ReaderStep
<1>6. CASE CloseDiscard(s)
  <2>11. PoolTypeOK' /\ ConnTypeOK'
    BY <1>6 DEF Typed, TypeOK, CloseDiscard, RelayOver, PoolTypeOK, poolVars, warmVars, ConnTypeOK, connVars
  <2>12. WireTypeOK'
    BY <1>6, ShutType DEF Typed, TypeOK, CloseDiscard, RelayOver, WireTypeOK, wireVars
  <2>13. SesTypeOK'
    BY <1>6 DEF Typed, TypeOK, CloseDiscard, RelayOver, SesTypeOK, sesVars, relVars
  <2>14. PcInv'
    BY <1>6 DEF Typed, TypeOK, CloseDiscard, RelayOver, PcInv, poolVars, warmVars, sesVars, relVars, SesTypeOK, PoolTypeOK, Holding
  <2>. QED BY <2>11, <2>12, <2>13, <2>14 DEF Typed, TypeOK
<1>7. CASE CloseReset(s)
  <2>11. PoolTypeOK' /\ WireTypeOK' /\ ConnTypeOK'
    BY <1>7 DEF Typed, TypeOK, CloseReset, RelayOver, PoolTypeOK, poolVars, warmVars, WireTypeOK, wireVars, ConnTypeOK, connVars
  <2>12. SesTypeOK'
    BY <1>7 DEF Typed, TypeOK, CloseReset, RelayOver, SesTypeOK, sesVars, relVars
  <2>13. PcInv'
    BY <1>7 DEF Typed, TypeOK, CloseReset, RelayOver, PcInv, poolVars, warmVars, sesVars, relVars, SesTypeOK, PoolTypeOK, Holding
  <2>. QED BY <2>11, <2>12, <2>13 DEF Typed, TypeOK
<1>8. CASE PutBack(s)
  <2>1. held[s] \in Conns /\ uses[s] \in Nat /\ idle \in Seq(IdleEntry) /\ now \in Nat
    BY <1>8, <1>h DEF PutBack, Typed, TypeOK, SesTypeOK, PoolTypeOK, Holding
  <2>2. Added(held[s], uses[s]) \in Seq(IdleEntry)
    BY <2>1, AddedType
  <2>3. CASE PutOK(uses[s])
    <3>11. PoolTypeOK' /\ WireTypeOK' /\ ConnTypeOK'
      BY <1>8, <2>2, <2>3 DEF Typed, TypeOK, PutBack, PoolTypeOK, poolVars, warmVars, WireTypeOK, wireVars, ConnTypeOK, connVars
    <3>12. SesTypeOK'
      BY <1>8, <2>2, <2>3 DEF Typed, TypeOK, PutBack, SesTypeOK, sesVars, relVars
    <3>13. PcInv'
      BY <1>8, <2>2, <2>3 DEF Typed, TypeOK, PutBack, PcInv, poolVars, warmVars, sesVars, relVars, SesTypeOK, PoolTypeOK, Holding
    <3>. QED BY <3>11, <3>12, <3>13 DEF Typed, TypeOK
  <2>4. CASE ~PutOK(uses[s])
    <3>11. PoolTypeOK' /\ WireTypeOK' /\ ConnTypeOK'
      BY <1>8, <2>4 DEF Typed, TypeOK, PutBack, PoolTypeOK, poolVars, warmVars, WireTypeOK, wireVars, ConnTypeOK, connVars
    <3>12. SesTypeOK'
      BY <1>8, <2>4 DEF Typed, TypeOK, PutBack, SesTypeOK, sesVars, relVars
    <3>13. PcInv'
      BY <1>8, <2>4 DEF Typed, TypeOK, PutBack, PcInv, poolVars, warmVars, sesVars, relVars, SesTypeOK, PoolTypeOK, Holding
    <3>. QED BY <3>11, <3>12, <3>13 DEF Typed, TypeOK
  <2>. QED BY <2>3, <2>4
<1>9. CASE Refused(s)
  <2>11. PoolTypeOK' /\ ConnTypeOK'
    BY <1>9 DEF Typed, TypeOK, Refused, PoolTypeOK, poolVars, warmVars, ConnTypeOK, connVars
  <2>12. WireTypeOK'
    BY <1>9, ShutType DEF Typed, TypeOK, Refused, WireTypeOK, wireVars
  <2>13. SesTypeOK'
    BY <1>9 DEF Typed, TypeOK, Refused, SesTypeOK, sesVars, relVars
  <2>14. PcInv'
    BY <1>9 DEF Typed, TypeOK, Refused, PcInv, poolVars, warmVars, sesVars, relVars, SesTypeOK, PoolTypeOK, Holding
  <2>. QED BY <2>11, <2>12, <2>13, <2>14 DEF Typed, TypeOK
<1>. QED BY <1>1, <1>2, <1>3, <1>4, <1>5, <1>6, <1>7, <1>8, <1>9 DEF CloseStep

\* So do Warm, Pool.Close and the clock.
LEMMA PoolTyped ==
  ASSUME Typed, WarmFactory \/ WarmPut \/ PoolClose \/ PoolShut \/ Tick
  PROVE  Typed'
<1>. USE PoolAssumption DEF PoolAssumption
<1>1. CASE WarmFactory
  <2>1. CASE wpc' = "done" /\ UNCHANGED <<wireVars, wconn>>
    <3>11. PoolTypeOK' /\ WireTypeOK' /\ ConnTypeOK'
      BY <1>1, <2>1 DEF Typed, TypeOK, WarmFactory, PoolTypeOK, poolVars, warmVars, WireTypeOK, wireVars, ConnTypeOK, connVars
    <3>12. SesTypeOK'
      BY <1>1, <2>1 DEF Typed, TypeOK, WarmFactory, SesTypeOK, sesVars, relVars
    <3>13. PcInv'
      BY <1>1, <2>1 DEF Typed, TypeOK, WarmFactory, PcInv, poolVars, warmVars, sesVars, relVars, SesTypeOK, PoolTypeOK, Holding
    <3>. QED BY <3>11, <3>12, <3>13 DEF Typed, TypeOK
  <2>2. ASSUME NEW c \in Conns, Open(c), wconn' = c, wpc' = "put"
        PROVE  Typed'
    <3>1. UNCHANGED <<poolVars, wleft, connVars, sesVars, relVars>> /\ wpc = "dial"
      BY <1>1 DEF WarmFactory
    <3>11. PoolTypeOK' /\ ConnTypeOK'
      BY <2>2, <3>1 DEF Typed, TypeOK, PoolTypeOK, poolVars, warmVars, ConnTypeOK, connVars
    <3>12. WireTypeOK'
      BY <2>2, <3>1, OpenType DEF Typed, TypeOK, WireTypeOK, wireVars
    <3>13. SesTypeOK'
      BY <2>2, <3>1 DEF Typed, TypeOK, SesTypeOK, sesVars, relVars
    <3>14. PcInv'
      BY <2>2, <3>1 DEF Typed, TypeOK, PcInv, poolVars, warmVars, sesVars, relVars, SesTypeOK, PoolTypeOK, Holding
    <3>. QED BY <3>11, <3>12, <3>13, <3>14 DEF Typed, TypeOK
  <2>. QED BY <1>1, <2>1, <2>2 DEF WarmFactory
<1>2. CASE WarmPut
  <2>1. wconn \in Conns /\ wleft \in Nat /\ wleft > 0
        /\ idle \in Seq(IdleEntry) /\ now \in Nat
    BY <1>2 DEF WarmPut, Typed, TypeOK, PoolTypeOK, PcInv
  <2>2. Added(wconn, 0) \in Seq(IdleEntry)
    BY <2>1, AddedType
  <2>3. CASE PutOK(0)
    <3>11. PoolTypeOK' /\ WireTypeOK' /\ ConnTypeOK'
      BY <1>2, <2>1, <2>2, <2>3 DEF Typed, TypeOK, WarmPut, PoolTypeOK, poolVars, warmVars, WireTypeOK, wireVars, ConnTypeOK, connVars
    <3>12. SesTypeOK'
      BY <1>2, <2>1, <2>2, <2>3 DEF Typed, TypeOK, WarmPut, SesTypeOK, sesVars, relVars
    <3>13. PcInv'
      BY <1>2, <2>1, <2>2, <2>3 DEF Typed, TypeOK, WarmPut, PcInv, poolVars, warmVars, sesVars, relVars, SesTypeOK, PoolTypeOK, Holding
    <3>. QED BY <3>11, <3>12, <3>13 DEF Typed, TypeOK
  <2>4. CASE ~PutOK(0)
    <3>11. PoolTypeOK' /\ ConnTypeOK'
      BY <1>2, <2>1, <2>4 DEF Typed, TypeOK, WarmPut, PoolTypeOK, poolVars, warmVars, ConnTypeOK, connVars
    <3>12. WireTypeOK'
      BY <1>2, <2>1, <2>4, ShutType DEF Typed, TypeOK, WarmPut, WireTypeOK, wireVars
    <3>13. SesTypeOK'
      BY <1>2, <2>1, <2>4 DEF Typed, TypeOK, WarmPut, SesTypeOK, sesVars, relVars
    <3>14. PcInv'
      BY <1>2, <2>1, <2>4 DEF Typed, TypeOK, WarmPut, PcInv, poolVars, warmVars, sesVars, relVars, SesTypeOK, PoolTypeOK, Holding
    <3>. QED BY <3>11, <3>12, <3>13, <3>14 DEF Typed, TypeOK
  <2>. QED BY <2>3, <2>4
<1>3. CASE PoolClose
  <2>2. <<>> \in Seq(IdleEntry) OBVIOUS
  <2>11. PoolTypeOK' /\ WireTypeOK' /\ ConnTypeOK'
    BY <1>3, <2>2 DEF Typed, TypeOK, PoolClose, PoolTypeOK, poolVars, warmVars, WireTypeOK, wireVars, ConnTypeOK, connVars
  <2>12. SesTypeOK'
    BY <1>3, <2>2 DEF Typed, TypeOK, PoolClose, SesTypeOK, sesVars, relVars
  <2>13. PcInv'
    BY <1>3, <2>2 DEF Typed, TypeOK, PoolClose, PcInv, poolVars, warmVars, sesVars, relVars, SesTypeOK, PoolTypeOK, Holding
  <2>. QED BY <2>11, <2>12, <2>13 DEF Typed, TypeOK
<1>4. CASE PoolShut
  <2>1. Tail(doomed) \in Seq(IdleEntry)
    BY <1>4, TailFacts DEF PoolShut, Typed, TypeOK, PoolTypeOK
  <2>11. PoolTypeOK' /\ ConnTypeOK'
    BY <1>4, <2>1 DEF Typed, TypeOK, PoolShut, PoolTypeOK, poolVars, warmVars, ConnTypeOK, connVars
  <2>12. WireTypeOK'
    BY <1>4, ShutType DEF Typed, TypeOK, PoolShut, WireTypeOK, wireVars
  <2>13. SesTypeOK'
    BY <1>4 DEF Typed, TypeOK, PoolShut, SesTypeOK, sesVars, relVars
  <2>14. PcInv'
    BY <1>4 DEF Typed, TypeOK, PoolShut, PcInv, poolVars, warmVars, sesVars, relVars, SesTypeOK, PoolTypeOK, Holding
  <2>. QED BY <2>11, <2>12, <2>13, <2>14 DEF Typed, TypeOK
<1>5. CASE Tick
  <2>11. PoolTypeOK' /\ WireTypeOK' /\ ConnTypeOK'
    BY <1>5 DEF Typed, TypeOK, Tick, PoolTypeOK, poolVars, warmVars, WireTypeOK, wireVars, ConnTypeOK, connVars
  <2>12. SesTypeOK'
    BY <1>5 DEF Typed, TypeOK, Tick, SesTypeOK, sesVars, relVars
  <2>13. PcInv'
    BY <1>5 DEF Typed, TypeOK, Tick, PcInv, poolVars, warmVars, sesVars, relVars, SesTypeOK, PoolTypeOK, Holding
  <2>. QED BY <2>11, <2>12, <2>13 DEF Typed, TypeOK
<1>. QED BY <1>1, <1>2, <1>3, <1>4, <1>5

\* So does the server.
LEMMA ServerTyped ==
  ASSUME Typed, NEW c \in Conns, ServerStep(c)
  PROVE  Typed'
<1>v. srv[c] \in SrvState /\ up[c] \in Seq(Frame) /\ down[c] \in Seq(Frame)
  BY DEF Typed, TypeOK, WireTypeOK
<1>a. \A f \in Frame : Append(down[c], f) \in Seq(Frame)
  BY <1>v
<1>1. CASE SrvReceive(c)
  <2>1. Head(up[c]) \in Frame /\ Tail(up[c]) \in Seq(Frame)
    BY <1>1, <1>v DEF SrvReceive
  <2>2. /\ [IdleSrv EXCEPT !.ses = Head(up[c]).ses] \in SrvState
        /\ [srv[c] EXCEPT !.cfin = TRUE] \in SrvState
    BY <1>v, <2>1 DEF IdleSrv, SrvState, Frame
  <2>11. PoolTypeOK' /\ WireTypeOK' /\ ConnTypeOK'
    BY <1>1, <2>1, <2>2 DEF Typed, TypeOK, SrvReceive, SrvOnly, PoolTypeOK, poolVars, warmVars, WireTypeOK, wireVars, ConnTypeOK, connVars
  <2>12. SesTypeOK'
    BY <1>1, <2>1, <2>2 DEF Typed, TypeOK, SrvReceive, SrvOnly, SesTypeOK, sesVars, relVars
  <2>13. PcInv'
    BY <1>1, <2>1, <2>2 DEF Typed, TypeOK, SrvReceive, SrvOnly, PcInv, poolVars, warmVars, sesVars, relVars, SesTypeOK, PoolTypeOK, Holding
  <2>. QED BY <2>11, <2>12, <2>13 DEF Typed, TypeOK
<1>2. CASE SrvSend(c)
  <2>1. \A k \in {"reply", "error", "data", "zero"} : F(k, srv[c].ses) \in Frame
    BY <1>2, <1>v DEF SrvSend, SrvState, F, Frame
  <2>2. /\ [srv[c] EXCEPT !.replied = TRUE] \in SrvState
        /\ [srv[c] EXCEPT !.fin = TRUE] \in SrvState
    BY <1>v DEF SrvState
  <2>3. PICK k \in {"reply", "error", "data", "zero"} :
          down' = [down EXCEPT ![c] = Append(@, F(k, srv[c].ses))]
    BY <1>2 DEF SrvSend
  <2>4. Append(down[c], F(k, srv[c].ses)) \in Seq(Frame)
    BY <1>a, <2>1
  <2>11. PoolTypeOK' /\ ConnTypeOK'
    BY <1>2, <2>2, <2>3, <2>4 DEF Typed, TypeOK, SrvSend, SrvOnly, PoolTypeOK, poolVars, warmVars, ConnTypeOK, connVars
  <2>12. WireTypeOK'
    BY <1>2, <2>2, <2>3, <2>4 DEF Typed, TypeOK, SrvSend, SrvOnly, WireTypeOK, wireVars
  <2>13. SesTypeOK'
    BY <1>2, <2>2, <2>3, <2>4 DEF Typed, TypeOK, SrvSend, SrvOnly, SesTypeOK, sesVars, relVars
  <2>14. PcInv'
    BY <1>2, <2>2, <2>3, <2>4 DEF Typed, TypeOK, SrvSend, SrvOnly, PcInv, poolVars, warmVars, sesVars, relVars, SesTypeOK, PoolTypeOK, Holding
  <2>. QED BY <2>11, <2>12, <2>13, <2>14 DEF Typed, TypeOK
<1>3. CASE SrvNext(c)
  <2>1. F("zero", srv[c].ses) \in Frame
    BY <1>3, <1>v DEF SrvNext, SrvState, F, Frame
  <2>2. IdleSrv \in SrvState
    BY DEF IdleSrv, SrvState
  <2>11. PoolTypeOK' /\ WireTypeOK' /\ ConnTypeOK'
    BY <1>3, <1>a, <2>1, <2>2 DEF Typed, TypeOK, SrvNext, SrvOnly, PoolTypeOK, poolVars, warmVars, WireTypeOK, wireVars, ConnTypeOK, connVars
  <2>12. SesTypeOK'
    BY <1>3, <1>a, <2>1, <2>2 DEF Typed, TypeOK, SrvNext, SrvOnly, SesTypeOK, sesVars, relVars
  <2>13. PcInv'
    BY <1>3, <1>a, <2>1, <2>2 DEF Typed, TypeOK, SrvNext, SrvOnly, PcInv, poolVars, warmVars, sesVars, relVars, SesTypeOK, PoolTypeOK, Holding
  <2>. QED BY <2>11, <2>12, <2>13 DEF Typed, TypeOK
<1>4. CASE Drop(c)
  <2>11. PoolTypeOK' /\ WireTypeOK' /\ ConnTypeOK'
    BY <1>4 DEF Typed, TypeOK, Drop, PoolTypeOK, poolVars, warmVars, WireTypeOK, wireVars, ConnTypeOK, connVars
  <2>12. SesTypeOK'
    BY <1>4 DEF Typed, TypeOK, Drop, SesTypeOK, sesVars, relVars
  <2>13. PcInv'
    BY <1>4 DEF Typed, TypeOK, Drop, PcInv, poolVars, warmVars, sesVars, relVars, SesTypeOK, PoolTypeOK, Holding
  <2>. QED BY <2>11, <2>12, <2>13 DEF Typed, TypeOK
<1>5. CASE Stall(c)
  <2>11. PoolTypeOK' /\ WireTypeOK' /\ ConnTypeOK'
    BY <1>5 DEF Typed, TypeOK, Stall, PoolTypeOK, poolVars, warmVars, WireTypeOK, wireVars, ConnTypeOK, connVars
  <2>12. SesTypeOK'
    BY <1>5 DEF Typed, TypeOK, Stall, SesTypeOK, sesVars, relVars
  <2>13. PcInv'
    BY <1>5 DEF Typed, TypeOK, Stall, PcInv, poolVars, warmVars, sesVars, relVars, SesTypeOK, PoolTypeOK, Holding
  <2>. QED BY <2>11, <2>12, <2>13 DEF Typed, TypeOK
<1>. QED BY <1>1, <1>2, <1>3, <1>4, <1>5 DEF ServerStep

\* Types and control-state facts hold initially and are preserved by every step.
LEMMA InitTyped == Init => Typed
<1>. USE PoolAssumption DEF PoolAssumption, Init
<1>0. <<>> \in Seq(IdleEntry) OBVIOUS
<1>1. ASSUME Init PROVE PoolTypeOK
  <2>1. wpc \in {"dial", "put", "done"} BY <1>1
  <2>2. idle \in Seq(IdleEntry) /\ closed \in BOOLEAN BY <1>0, <1>1
  <2>3. doomed \in Seq(IdleEntry) /\ now \in Nat BY <1>0, <1>1
  <2>4. wleft \in Nat /\ wconn \in Conns \cup {NoConn} BY <1>1
  <2>5. popper \in Sessions \cup {NoSession} /\ popAt \in Nat
    BY <1>1
  <2>6. expired \in Conns \cup {NoConn} BY <1>1
  <2>. QED BY <2>1, <2>2, <2>3, <2>4, <2>5, <2>6 DEF PoolTypeOK
<1>4. Init => ConnTypeOK
  BY DEF ConnTypeOK
<1>2. Init => SesTypeOK /\ PcInv
  BY DEF SesTypeOK, PcInv, Holding
<1>3. Init => WireTypeOK
  <2>1. <<>> \in Seq(Frame) OBVIOUS
  <2>2. IdleSrv \in SrvState BY DEF IdleSrv, SrvState
  <2>. QED BY <2>1, <2>2 DEF WireTypeOK
<1>. QED BY <1>1, <1>2, <1>3, <1>4 DEF Typed, TypeOK

LEMMA NextTyped == Typed /\ [Next]_vars => Typed'
<1>1. ASSUME Typed, Next PROVE Typed'
  <2>1. ASSUME NEW s \in Sessions, SessionStep(s) PROVE Typed'
    BY <1>1, <2>1, DialTyped, RelayTyped DEF SessionStep
  <2>2. CASE AllDone
    BY <1>1, <2>2 DEF AllDone, vars, poolVars, warmVars, connVars, wireVars, sesVars,
       relVars, Typed, TypeOK, PoolTypeOK, WireTypeOK, ConnTypeOK, SesTypeOK, PcInv
  <2>. QED BY <1>1, <2>1, <2>2, PoolTyped, ServerTyped DEF Next
<1>2. ASSUME Typed, UNCHANGED vars PROVE Typed'
  BY <1>2 DEF vars, poolVars, warmVars, connVars, wireVars, sesVars,
     relVars, Typed, TypeOK, PoolTypeOK, WireTypeOK, ConnTypeOK, SesTypeOK, PcInv
<1>. QED BY <1>1, <1>2

\* The pool's variables keep their ranges in every behaviour, for every number of
\* transports, sessions and preconnects (pool.go, snell/v4.go).
THEOREM TypeCorrect == Spec => []TypeOK
<1>1. Typed => TypeOK BY DEF Typed
<1>. QED BY <1>1, InitTyped, NextTyped, PTL DEF Spec

-----------------------------------------------------------------------------
(* The inductive invariant: who refers to a transport, said of the idle    *)
(* list's positions, the sessions, Warm and Pool.Close one by one, and how *)
(* many CONNECTs it has carried at most.                                   *)

At(i) == idle[i].conn

Apart ==
  /\ \A i, j \in DOMAIN idle : At(i) = At(j) => i = j
  /\ \A s, t \in Sessions : held[s] = held[t] /\ held[s] # NoConn => s = t
  /\ \A i \in DOMAIN idle :
       /\ At(i) # wconn /\ At(i) \notin Closing
       /\ \A s \in Sessions : held[s] # At(i)
  /\ \A s \in Sessions : held[s] # NoConn => held[s] # wconn /\ held[s] \notin Closing
  /\ wconn \notin Closing

Live ==
  /\ \A i \in DOMAIN idle : tr[At(i)] = "open"
  /\ \A s \in Sessions : held[s] # NoConn => tr[held[s]] = "open"
  /\ wconn # NoConn => tr[wconn] = "open"
  /\ \A c \in Closing : tr[c] = "open"

Referred(c) ==
  \/ \E i \in DOMAIN idle : At(i) = c
  \/ \E s \in Sessions : held[s] = c
  \/ c = wconn \/ c \in Closing
Kept == \A c \in Conns : tr[c] = "open" => Referred(c)

Counted ==
  /\ \A c \in Conns : connects[c] <= MaxUses /\ (tr[c] = "unborn" => connects[c] = 0)
  /\ \A i \in DOMAIN idle : connects[At(i)] <= idle[i].uses /\ idle[i].uses < MaxUses
  /\ \A s \in Sessions : held[s] # NoConn =>
       /\ connects[held[s]] <= uses[s] /\ uses[s] <= MaxUses
       /\ pc[s] \in {"recheck", "write"} => connects[held[s]] < uses[s]
  /\ wconn # NoConn => connects[wconn] = 0

\* What pop and Pool.Close are closing; pop closes under the lock.
Lined ==
  /\ \A i, j \in DOMAIN doomed : doomed[i].conn = doomed[j].conn => i = j
  /\ expired \notin ConnsOf(doomed)
  /\ expired # NoConn => Locked

OwnInv == Typed /\ Apart /\ Live /\ Kept /\ Counted /\ Lined /\ ClosedPoolEmpty

closeVars == <<doomed, expired, popper>>
ownVars == <<idle, closed, closeVars, wconn, tr, held, uses, connects>>

-----------------------------------------------------------------------------
\* The facts about ranges the steps below use.
LEMMA Ranges ==
  ASSUME Typed
  PROVE  /\ idle \in Seq(IdleEntry) /\ doomed \in Seq(IdleEntry)
         /\ Closing \subseteq Conns
         /\ \A i \in DOMAIN idle : idle[i] \in IdleEntry /\ At(i) \in Conns /\ idle[i].uses \in Nat
         /\ wconn \in Conns \cup {NoConn}
         /\ held \in [Sessions -> Conns \cup {NoConn}]
         /\ uses \in [Sessions -> Nat] /\ connects \in [Conns -> Nat]
         /\ tr \in [Conns -> {"unborn", "open", "closed"}]
         /\ NoConn \notin Conns /\ MaxUses \in Nat \ {0}
<1>1. \A i \in DOMAIN idle : idle[i] \in IdleEntry
  BY DEF Typed, TypeOK, PoolTypeOK
<1>2. \A i \in DOMAIN doomed : doomed[i] \in IdleEntry
  BY DEF Typed, TypeOK, PoolTypeOK
<1>3. Closing \subseteq Conns
  BY <1>2 DEF Closing, ConnsOf, IdleEntry, Typed, TypeOK, PoolTypeOK
<1>. QED
  BY <1>1, <1>3, PoolAssumption
  DEF PoolAssumption, Typed, TypeOK, PoolTypeOK, WireTypeOK, ConnTypeOK, SesTypeOK, IdleEntry, At

\* What is being closed stays the same.
LEMMA SameClosing ==
  ASSUME UNCHANGED closeVars
  PROVE  Closing' = Closing /\ (Lined => Lined')
BY DEF closeVars, Closing, Lined, ConnsOf, Locked

\* A step that changes none of the variables ownership is about, and leaves a
\* session in or out of the part of Dial before the CONNECT.
LEMMA FrameStep ==
  ASSUME OwnInv, Typed', UNCHANGED ownVars,
         \A s \in Sessions : held[s] # NoConn /\ pc'[s] \in {"recheck", "write"} =>
                               pc[s] \in {"recheck", "write"}
  PROVE  OwnInv'
<1>c. Closing' = Closing /\ Lined'
  BY SameClosing DEF ownVars, OwnInv
<1>1. Apart' BY <1>c DEF OwnInv, ownVars, Apart, At
<1>2. Live' BY <1>c DEF OwnInv, ownVars, Live, At
<1>3. Kept' BY <1>c DEF OwnInv, ownVars, Kept, Referred, At
<1>4. Counted' BY DEF OwnInv, ownVars, Counted, At
<1>5. ClosedPoolEmpty' BY DEF OwnInv, ownVars, closeVars, ClosedPoolEmpty
<1>. QED BY <1>c, <1>1, <1>2, <1>3, <1>4, <1>5 DEF OwnInv

\* A session closes the transport it refers to and forgets it.
LEMMA ReleaseStep ==
  ASSUME OwnInv, Typed', NEW s \in Sessions, held[s] # NoConn,
         Shut({held[s]}), held' = [held EXCEPT ![s] = NoConn],
         pc' = [pc EXCEPT ![s] = pc'[s]],
         UNCHANGED <<idle, closed, closeVars, wconn, uses, connects>>
  PROVE  OwnInv'
<1>r. /\ \A i \in DOMAIN idle : At(i) \in Conns
      /\ wconn \in Conns \cup {NoConn} /\ Closing \subseteq Conns
      /\ held \in [Sessions -> Conns \cup {NoConn}]
      /\ tr \in [Conns -> {"unborn", "open", "closed"}] /\ NoConn \notin Conns
  BY Ranges DEF OwnInv
<1>t. tr' = [c \in Conns |-> IF c = held[s] THEN "closed" ELSE tr[c]]
  BY DEF Shut
<1>c. Closing' = Closing /\ Lined'
  BY SameClosing DEF OwnInv
<1>1. Apart' BY <1>r, <1>c DEF OwnInv, Apart, At
<1>2. Live' BY <1>r, <1>t, <1>c DEF OwnInv, Live, Apart, At
<1>3. Kept' BY <1>r, <1>t, <1>c DEF OwnInv, Kept, Referred, At
<1>4. Counted' BY <1>r, <1>t DEF OwnInv, Counted, At, Typed, TypeOK, SesTypeOK
<1>5. ClosedPoolEmpty' BY DEF OwnInv, closeVars, ClosedPoolEmpty
<1>. QED BY <1>c, <1>1, <1>2, <1>3, <1>4, <1>5 DEF OwnInv

\* What Append does to the idle list.
LEMMA AppendFacts ==
  ASSUME NEW q \in Seq(IdleEntry), NEW e
  PROVE  /\ DOMAIN Append(q, e) = 1..(Len(q) + 1)
         /\ \A i \in DOMAIN q : Append(q, e)[i] = q[i]
         /\ Append(q, e)[Len(q) + 1] = e
OBVIOUS

\* pop or Pool.Close has closed a transport it was closing.
LEMMA ClosedStep ==
  ASSUME OwnInv, Typed', NEW c \in Closing, Shut({c}), Closing' = Closing \ {c},
         Lined', ClosedPoolEmpty', UNCHANGED <<idle, wconn, held, uses, pc, connects>>
  PROVE  OwnInv'
<1>r. /\ \A i \in DOMAIN idle : At(i) \in Conns
      /\ wconn \in Conns \cup {NoConn} /\ Closing \subseteq Conns
      /\ held \in [Sessions -> Conns \cup {NoConn}]
      /\ tr \in [Conns -> {"unborn", "open", "closed"}] /\ NoConn \notin Conns
  BY Ranges DEF OwnInv
<1>t. tr' = [d \in Conns |-> IF d = c THEN "closed" ELSE tr[d]]
  BY DEF Shut
<1>1. Apart' BY DEF OwnInv, Apart, At
<1>2. Live' BY <1>r, <1>t DEF OwnInv, Live, Apart, At
<1>3. Kept' BY <1>r, <1>t DEF OwnInv, Kept, Referred, At
<1>4. Counted' BY <1>r, <1>t DEF OwnInv, Counted, At
<1>. QED BY <1>1, <1>2, <1>3, <1>4 DEF OwnInv

\* pop takes the front entry to close it.
LEMMA ExpireStep ==
  ASSUME OwnInv, Typed', NEW s \in Sessions, idle # <<>>, idle' = Tail(idle),
         expired = NoConn, expired' = idle[1].conn, popper' = s,
         UNCHANGED <<closed, doomed, wconn, tr, held, uses, pc, connects>>
  PROVE  OwnInv'
<1>r. /\ idle \in Seq(IdleEntry) /\ \A i \in DOMAIN idle : At(i) \in Conns
      /\ wconn \in Conns \cup {NoConn} /\ Closing \subseteq Conns
      /\ held \in [Sessions -> Conns \cup {NoConn}] /\ NoConn \notin Conns
  BY Ranges DEF OwnInv
<1>1. /\ 1 \in DOMAIN idle
      /\ \A i \in DOMAIN idle' : i + 1 \in DOMAIN idle /\ i \in Nat \ {0} /\ idle'[i] = idle[i + 1]
      /\ \A i \in DOMAIN idle : i # 1 => i - 1 \in DOMAIN idle' /\ idle'[i - 1] = idle[i]
  BY <1>r, TailFacts
<1>2. \A i \in DOMAIN idle' : At(i)' = At(i + 1) /\ At(i + 1) # At(1)
  <2>1. \A i \in DOMAIN idle' : i + 1 # 1
    BY <1>1
  <2>. QED BY <1>1, <2>1 DEF At, OwnInv, Apart
<1>e. PICK e \in Conns : e = At(1) /\ expired' = e
  BY <1>1, <1>r DEF At
<1>3. Closing' = Closing \cup {e} /\ doomed = <<>>
  <2>1. doomed = <<>>
    BY DEF OwnInv, ClosedPoolEmpty
  <2>. QED BY <2>1, <1>e, <1>r DEF Closing, ConnsOf
<1>4. Apart'
  <2>1. \A i, j \in DOMAIN idle' : At(i)' = At(j)' => i = j
    BY <1>1, <1>2 DEF OwnInv, Apart
  <2>2. \A i \in DOMAIN idle' : /\ At(i)' # wconn' /\ At(i)' \notin Closing'
                                /\ \A t \in Sessions : held'[t] # At(i)'
    BY <1>1, <1>2, <1>3, <1>e DEF OwnInv, Apart
  <2>3. wconn' \notin Closing' /\ \A t \in Sessions : held'[t] # NoConn => held'[t] \notin Closing'
    BY <1>1, <1>3, <1>e DEF OwnInv, Apart
  <2>. QED BY <2>1, <2>2, <2>3 DEF OwnInv, Apart
<1>5. Live'
  BY <1>1, <1>2, <1>3, <1>e DEF OwnInv, Live
<1>6. Kept'
  <2>1. ASSUME NEW c \in Conns, NEW i \in DOMAIN idle, At(i) = c
        PROVE  Referred(c)'
    <3>1. CASE i = 1
      BY <2>1, <3>1, <1>e, <1>3 DEF Referred
    <3>2. CASE i # 1
      <4>1. i - 1 \in DOMAIN idle' /\ At(i - 1)' = c
        BY <2>1, <3>2, <1>1 DEF At
      <4>. QED BY <4>1 DEF Referred
    <3>. QED BY <3>1, <3>2
  <2>. QED BY <2>1, <1>3 DEF OwnInv, Kept, Referred
<1>7. Counted'
  BY <1>1, <1>2 DEF OwnInv, Counted
<1>8. Lined'
  BY <1>3, <1>e, PoolAssumption DEF Lined, ConnsOf, Locked, PoolAssumption
<1>9. ClosedPoolEmpty'
  BY <1>3 DEF OwnInv, ClosedPoolEmpty
<1>. QED BY <1>4, <1>5, <1>6, <1>7, <1>8, <1>9 DEF OwnInv

\* pop hands out the front entry.
LEMMA HandOutStep ==
  ASSUME OwnInv, Typed', NEW s \in Sessions, held[s] = NoConn, idle # <<>>, idle' = Tail(idle),
         held' = [held EXCEPT ![s] = idle[1].conn],
         uses' = [uses EXCEPT ![s] = idle[1].uses + 1],
         pc' = [pc EXCEPT ![s] = "write"], expired = NoConn,
         UNCHANGED <<closed, doomed, expired, wconn, tr, connects>>
  PROVE  OwnInv'
<1>r. /\ idle \in Seq(IdleEntry)
      /\ \A i \in DOMAIN idle : At(i) \in Conns /\ idle[i].uses \in Nat
      /\ wconn \in Conns \cup {NoConn} /\ Closing \subseteq Conns
      /\ held \in [Sessions -> Conns \cup {NoConn}] /\ uses \in [Sessions -> Nat]
      /\ connects \in [Conns -> Nat] /\ MaxUses \in Nat /\ NoConn \notin Conns
  BY Ranges DEF OwnInv
<1>p. pc \in [Sessions -> {"new", "take", "miss", "dial", "recheck", "write",
                         "ready", "relay", "put", "shut", "closed", "failed"}]
  BY DEF OwnInv, Typed, TypeOK, SesTypeOK
<1>c. Closing' = Closing
  BY DEF Closing, ConnsOf
<1>1. /\ 1 \in DOMAIN idle
      /\ \A i \in DOMAIN idle' : i + 1 \in DOMAIN idle /\ i \in Nat \ {0} /\ idle'[i] = idle[i + 1]
      /\ \A i \in DOMAIN idle : i # 1 => i - 1 \in DOMAIN idle' /\ idle'[i - 1] = idle[i]
  BY <1>r, TailFacts
<1>2. \A i \in DOMAIN idle' : At(i)' = At(i + 1) /\ At(i + 1) # At(1)
  <2>1. \A i \in DOMAIN idle' : i + 1 # 1
    BY <1>1
  <2>. QED BY <1>1, <2>1 DEF At, OwnInv, Apart
<1>e. PICK e \in Conns, u \in Nat :
        /\ e = At(1) /\ u = idle[1].uses
        /\ held' = [held EXCEPT ![s] = e] /\ uses' = [uses EXCEPT ![s] = u + 1]
  BY <1>1, <1>r DEF At
<1>3. /\ held'[s] = e /\ uses'[s] = u + 1
      /\ \A t \in Sessions : t # s => /\ held'[t] = held[t] /\ held[t] # e
                                     /\ uses'[t] = uses[t] /\ pc'[t] = pc[t]
  BY <1>1, <1>e, <1>r, <1>p DEF OwnInv, Apart
<1>4. Apart'
  <2>1. \A i, j \in DOMAIN idle' : At(i)' = At(j)' => i = j
    BY <1>1, <1>2 DEF OwnInv, Apart
  <2>2. \A t, v \in Sessions : held'[t] = held'[v] /\ held'[t] # NoConn => t = v
    BY <1>3, <1>r DEF OwnInv, Apart
  <2>3. \A i \in DOMAIN idle' : /\ At(i)' # wconn' /\ At(i)' \notin Closing'
                                /\ \A t \in Sessions : held'[t] # At(i)'
    BY <1>1, <1>2, <1>3, <1>c, <1>e DEF OwnInv, Apart
  <2>4. \A t \in Sessions : held'[t] # NoConn => held'[t] # wconn' /\ held'[t] \notin Closing'
    BY <1>1, <1>3, <1>c, <1>e DEF OwnInv, Apart
  <2>. QED BY <2>1, <2>2, <2>3, <2>4, <1>c DEF OwnInv, Apart
<1>5. Live'
  <2>1. tr[e] = "open"
    BY <1>1, <1>e DEF OwnInv, Live
  <2>. QED BY <1>1, <1>2, <1>3, <1>c, <2>1 DEF OwnInv, Live
<1>6. Kept'
  <2>1. ASSUME NEW c \in Conns, NEW i \in DOMAIN idle, At(i) = c
        PROVE  Referred(c)'
    <3>1. CASE i = 1
      BY <2>1, <3>1, <1>e, <1>3 DEF Referred
    <3>2. CASE i # 1
      <4>1. i - 1 \in DOMAIN idle' /\ At(i - 1)' = c
        BY <2>1, <3>2, <1>1 DEF At
      <4>. QED BY <4>1 DEF Referred
    <3>. QED BY <3>1, <3>2
  <2>2. ASSUME NEW c \in Conns, NEW t \in Sessions, held[t] = c
        PROVE  Referred(c)'
    BY <2>2, <1>3, <1>r DEF Referred
  <2>. QED BY <2>1, <2>2, <1>c DEF OwnInv, Kept, Referred
<1>7. Counted'
  <2>1. connects[e] <= u /\ u < MaxUses /\ connects[e] \in Nat
    BY <1>1, <1>e, <1>r DEF OwnInv, Counted
  <2>2. connects'[held'[s]] < uses'[s] /\ connects'[held'[s]] <= uses'[s] /\ uses'[s] <= MaxUses
    BY <2>1, <1>3, <1>r
  <2>3. \A i \in DOMAIN idle' : connects'[At(i)'] <= idle'[i].uses /\ idle'[i].uses < MaxUses
    BY <1>1, <1>2 DEF OwnInv, Counted
  <2>4. \A t \in Sessions : t # s /\ held'[t] # NoConn =>
          /\ connects'[held'[t]] <= uses'[t] /\ uses'[t] <= MaxUses
          /\ pc'[t] \in {"recheck", "write"} => connects'[held'[t]] < uses'[t]
    BY <1>3 DEF OwnInv, Counted
  <2>. QED BY <2>2, <2>3, <2>4 DEF OwnInv, Counted
<1>8. Lined' BY DEF OwnInv, Lined, ConnsOf
<1>9. ClosedPoolEmpty' BY DEF OwnInv, ClosedPoolEmpty
<1>. QED BY <1>4, <1>5, <1>6, <1>7, <1>8, <1>9 DEF OwnInv

\* pop: nothing is idle, the expired front is taken out, or the front is handed out.
LEMMA TakeStep ==
  ASSUME OwnInv, Typed', NEW s \in Sessions, Take(s)
  PROVE  OwnInv'
<1>1. /\ pc[s] = "take" /\ expired = NoConn
      /\ \E t : Turn(s, t)
      /\ UNCHANGED <<closed, doomed, wconn, tr, connects>>
  BY DEF Take, warmVars, connVars, wireVars
<1>h. held[s] = NoConn
  BY <1>1 DEF OwnInv, Typed, PcInv, Holding
<1>2. CASE /\ idle = <<>> /\ pc' = [pc EXCEPT ![s] = "miss"]
           /\ UNCHANGED <<idle, expired, held, uses>>
  <2>1. Closing' = Closing
    BY <1>1, <1>2 DEF Closing, ConnsOf
  <2>2. Lined'
    BY <1>1, <1>2 DEF OwnInv, Lined, ConnsOf
  <2>3. Apart' /\ Live' /\ Kept'
    BY <1>1, <1>2, <2>1 DEF OwnInv, Apart, Live, Kept, Referred, At
  <2>4. Counted'
    BY <1>1, <1>2, <1>h DEF OwnInv, Counted, At, Typed, TypeOK, SesTypeOK
  <2>5. ClosedPoolEmpty'
    BY <1>1, <1>2 DEF OwnInv, ClosedPoolEmpty
  <2>. QED BY <2>2, <2>3, <2>4, <2>5 DEF OwnInv
<1>3. CASE /\ idle # <<>> /\ idle' = Tail(idle) /\ popper' = s /\ expired' = idle[1].conn
           /\ UNCHANGED <<pc, held, uses>>
  BY <1>1, <1>3, ExpireStep
<1>4. CASE /\ idle # <<>> /\ idle' = Tail(idle)
           /\ held' = [held EXCEPT ![s] = idle[1].conn]
           /\ uses' = [uses EXCEPT ![s] = idle[1].uses + 1]
           /\ pc' = [pc EXCEPT ![s] = "write"] /\ UNCHANGED expired
  BY <1>1, <1>h, <1>4, HandOutStep
<1>. QED BY <1>1, <1>2, <1>3, <1>4 DEF Turn

\* pop's Close of an expired transport returns.
LEMMA PopCloseStep ==
  ASSUME OwnInv, Typed', NEW s \in Sessions, PopClose(s)
  PROVE  OwnInv'
<1>1. /\ expired # NoConn /\ Shut({expired}) /\ expired' = NoConn
      /\ UNCHANGED <<idle, closed, doomed, popper, wconn, held, uses, pc, connects>>
  BY DEF PopClose, warmVars, connVars, sesVars
<1>2. PICK c \in Closing : c = expired /\ Shut({c})
  BY <1>1 DEF Closing
<1>3. Closing' = Closing \ {c}
  BY <1>1, <1>2 DEF Closing, ConnsOf, OwnInv, Lined
<1>4. Lined'
  <2>1. NoConn \notin ConnsOf(doomed)
    <3>1. \A i \in DOMAIN doomed : doomed[i] \in IdleEntry
      BY DEF OwnInv, Typed, TypeOK, PoolTypeOK
    <3>. QED BY <3>1, PoolAssumption DEF PoolAssumption, ConnsOf, IdleEntry
  <2>. QED BY <1>1, <2>1 DEF OwnInv, Lined, ConnsOf
<1>5. ClosedPoolEmpty' BY <1>1 DEF OwnInv, ClosedPoolEmpty
<1>. QED BY <1>1, <1>2, <1>3, <1>4, <1>5, ClosedStep

\* The factory hands a new transport to a session.
LEMMA FactoryStep ==
  ASSUME OwnInv, Typed', NEW s \in Sessions, Factory(s)
  PROVE  OwnInv'
<1>r. /\ \A i \in DOMAIN idle : At(i) \in Conns
      /\ wconn \in Conns \cup {NoConn} /\ Closing \subseteq Conns
      /\ held \in [Sessions -> Conns \cup {NoConn}] /\ uses \in [Sessions -> Nat]
      /\ connects \in [Conns -> Nat] /\ MaxUses \in Nat \ {0}
      /\ tr \in [Conns -> {"unborn", "open", "closed"}] /\ NoConn \notin Conns
  BY Ranges DEF OwnInv
<1>h. held[s] = NoConn
  BY DEF Factory, OwnInv, Typed, PcInv, Holding
<1>1. CASE pc' = [pc EXCEPT ![s] = "failed"] /\ UNCHANGED <<wireVars, held, uses>>
  BY <1>1, <1>h, FrameStep
  DEF Factory, ownVars, closeVars, poolVars, warmVars, wireVars, connVars, OwnInv, Typed, TypeOK, SesTypeOK
<1>2. ASSUME NEW c \in Conns, Open(c), held' = [held EXCEPT ![s] = c],
             uses' = [uses EXCEPT ![s] = 1], pc' = [pc EXCEPT ![s] = "recheck"]
      PROVE  OwnInv'
  <2>1. UNCHANGED <<idle, closed, closeVars, wconn, connects>> /\ Closing' = Closing /\ Lined'
    BY SameClosing DEF Factory, poolVars, warmVars, connVars, closeVars, OwnInv
  <2>2. tr[c] = "unborn" /\ tr' = [tr EXCEPT ![c] = "open"]
    BY <1>2 DEF Open
  <2>3. /\ \A i \in DOMAIN idle : At(i) # c
        /\ \A t \in Sessions : held[t] # c
        /\ wconn # c /\ c \notin Closing
    BY <2>2, <1>r DEF OwnInv, Live
  <2>4. Apart' BY <1>2, <1>r, <2>1, <2>3 DEF OwnInv, Apart, At
  <2>5. Live' BY <1>2, <1>r, <2>1, <2>2, <2>3 DEF OwnInv, Live, At
  <2>6. Kept' BY <1>2, <1>r, <1>h, <2>1, <2>2 DEF OwnInv, Kept, Referred, At
  <2>7. Counted'
    BY <1>2, <1>r, <2>1, <2>2 DEF OwnInv, Counted, At, Typed, TypeOK, SesTypeOK
  <2>8. ClosedPoolEmpty' BY <2>1 DEF OwnInv, closeVars, ClosedPoolEmpty
  <2>. QED BY <2>1, <2>4, <2>5, <2>6, <2>7, <2>8 DEF OwnInv
<1>. QED BY <1>1, <1>2 DEF Factory

\* WriteConnect spends one of the uses the session was granted.
LEMMA ConnectStep ==
  ASSUME OwnInv, Typed', NEW s \in Sessions, WriteConnect(s)
  PROVE  OwnInv'
<1>r. /\ \A i \in DOMAIN idle : At(i) \in Conns /\ idle[i].uses \in Nat
      /\ wconn \in Conns \cup {NoConn}
      /\ held \in [Sessions -> Conns \cup {NoConn}] /\ uses \in [Sessions -> Nat]
      /\ connects \in [Conns -> Nat] /\ MaxUses \in Nat \ {0}
      /\ NoConn \notin Conns
  BY Ranges DEF OwnInv
<1>1. /\ held[s] \in Conns /\ pc[s] = "write"
      /\ connects' = [connects EXCEPT ![held[s]] = @ + 1]
      /\ pc' = [pc EXCEPT ![s] = "ready"]
      /\ UNCHANGED <<idle, closed, closeVars, wconn, tr, held, uses>>
  BY <1>r DEF WriteConnect, poolVars, warmVars, closeVars, OwnInv, Typed, PcInv, Holding
<1>c. Closing' = Closing /\ Lined'
  BY <1>1, SameClosing DEF OwnInv
<1>2. Apart' BY <1>1, <1>c DEF OwnInv, Apart, At
<1>3. Live' BY <1>1, <1>c DEF OwnInv, Live, At
<1>4. Kept' BY <1>1, <1>c DEF OwnInv, Kept, Referred, At
<1>5. Counted'
  <2>1. connects[held[s]] < uses[s] /\ uses[s] <= MaxUses /\ tr[held[s]] = "open"
    BY <1>1, <1>r DEF OwnInv, Counted, Live
  <2>2. \A c \in Conns : c # held[s] => connects'[c] = connects[c]
    BY <1>1, <1>r
  <2>3. connects'[held[s]] = connects[held[s]] + 1
    BY <1>1, <1>r
  <2>4. \A t \in Sessions : t # s => pc'[t] = pc[t] /\ (held[t] # NoConn => held[t] # held[s])
    BY <1>1, <1>r DEF OwnInv, Apart, Typed, TypeOK, SesTypeOK
  <2>5. (\A i \in DOMAIN idle : At(i) # held[s]) /\ wconn # held[s]
    BY <1>1, <1>r DEF OwnInv, Apart
  <2>6. pc'[s] = "ready"
    BY <1>1 DEF OwnInv, Typed, TypeOK, SesTypeOK
  <2>. QED BY <1>1, <1>r, <2>1, <2>2, <2>3, <2>4, <2>5, <2>6 DEF OwnInv, Counted, At
<1>6. ClosedPoolEmpty' BY <1>1 DEF OwnInv, closeVars, ClosedPoolEmpty
<1>. QED BY <1>c, <1>2, <1>3, <1>4, <1>5, <1>6 DEF OwnInv
\* put accepts: the transport a session or Warm refers to moves to the end of the
\* list, with fewer than poolMaxUses uses on record.
LEMMA PutStep ==
  ASSUME OwnInv, Typed', NEW c \in Conns, NEW u \in Nat, PutOK(u),
         idle' = Added(c, u), connects[c] <= u, tr[c] = "open",
         UNCHANGED <<closed, closeVars, tr, uses, connects>>,
         \/ /\ c = wconn /\ wconn' = NoConn /\ held' = held
            /\ pc' = pc
         \/ \E s \in Sessions :
              /\ c = held[s] /\ held' = [held EXCEPT ![s] = NoConn] /\ wconn' = wconn
              /\ pc' = [pc EXCEPT ![s] = "closed"]
  PROVE  OwnInv'
<1>r. /\ idle \in Seq(IdleEntry)
      /\ \A i \in DOMAIN idle : At(i) \in Conns
      /\ wconn \in Conns \cup {NoConn} /\ Closing \subseteq Conns
      /\ held \in [Sessions -> Conns \cup {NoConn}]
      /\ NoConn \notin Conns /\ DOMAIN idle = 1..Len(idle) /\ Len(idle) \in Nat
  BY Ranges DEF OwnInv
<1>p. pc \in [Sessions -> {"new", "take", "miss", "dial", "recheck", "write",
                         "ready", "relay", "put", "shut", "closed", "failed"}]
  BY DEF OwnInv, Typed, TypeOK, SesTypeOK
<1>c. Closing' = Closing /\ Lined'
  BY SameClosing DEF OwnInv
<1>n. PICK n \in Nat : n = Len(idle) + 1
  BY <1>r
<1>1. /\ DOMAIN idle' = 1..n
      /\ \A i \in DOMAIN idle : idle'[i] = idle[i]
      /\ idle'[n] = Entry(c, u)
  BY <1>r, <1>n, AppendFacts DEF Added
<1>2. /\ \A i \in DOMAIN idle : At(i)' = At(i)
      /\ At(n)' = c
      /\ \A i \in DOMAIN idle' : i \in DOMAIN idle \/ i = n
      /\ n \in DOMAIN idle' /\ n \notin DOMAIN idle
      /\ \A i \in DOMAIN idle : i \in DOMAIN idle'
  BY <1>1, <1>r, <1>n DEF At, Entry
<1>3. /\ \A i \in DOMAIN idle : At(i) # c
      /\ c \notin Closing
      /\ \A t \in Sessions : held'[t] # c
      /\ wconn' # c
      /\ \A t \in Sessions : held'[t] # NoConn => held'[t] = held[t] /\ pc'[t] = pc[t]
      /\ wconn' # NoConn => wconn' = wconn
  BY <1>r, <1>p DEF OwnInv, Apart
<1>4. Apart'
  <2>1. \A i, j \in DOMAIN idle' : At(i)' = At(j)' => i = j
    BY <1>2, <1>3 DEF OwnInv, Apart
  <2>2. \A t, v \in Sessions : held'[t] = held'[v] /\ held'[t] # NoConn => t = v
    BY <1>3 DEF OwnInv, Apart
  <2>3. \A i \in DOMAIN idle' : At(i)' # wconn' /\ At(i)' \notin Closing'
    BY <1>2, <1>3, <1>r, <1>c DEF OwnInv, Apart
  <2>4. \A i \in DOMAIN idle' : \A t \in Sessions : held'[t] # At(i)'
    BY <1>2, <1>3, <1>r DEF OwnInv, Apart
  <2>5. \A t \in Sessions : held'[t] # NoConn => held'[t] # wconn' /\ held'[t] \notin Closing'
    BY <1>3, <1>c DEF OwnInv, Apart
  <2>6. wconn' \notin Closing'
    BY <1>r, <1>c DEF OwnInv, Apart
  <2>. QED BY <2>1, <2>2, <2>3, <2>4, <2>5, <2>6 DEF Apart
<1>5. Live'
  BY <1>2, <1>3, <1>c DEF OwnInv, Live
<1>6. Kept'
  <2>1. SUFFICES ASSUME NEW d \in Conns, tr'[d] = "open" PROVE Referred(d)'
    BY DEF Kept
  <2>2. Referred(d)
    BY <2>1 DEF OwnInv, Kept
  <2>3. CASE d = c
    BY <2>3, <1>2 DEF Referred
  <2>4. CASE d # c
    <3>1. CASE \E i \in DOMAIN idle : At(i) = d
      BY <3>1, <1>2 DEF Referred
    <3>2. CASE \E t \in Sessions : held[t] = d
      BY <3>2, <2>4, <1>r DEF Referred
    <3>3. CASE d = wconn \/ d \in Closing
      BY <3>3, <2>4, <1>c DEF Referred
    <3>. QED BY <2>2, <3>1, <3>2, <3>3 DEF Referred
  <2>. QED BY <2>3, <2>4
<1>7. Counted'
  <2>1. u < MaxUses BY DEF PutOK
  <2>2. \A i \in DOMAIN idle' : connects[At(i)'] <= idle'[i].uses /\ idle'[i].uses < MaxUses
    BY <1>1, <1>2, <2>1 DEF OwnInv, Counted, Entry
  <2>. QED BY <2>2, <1>3 DEF OwnInv, Counted
<1>8. ClosedPoolEmpty'
  BY DEF PutOK, ClosedPoolEmpty, closeVars, OwnInv, Typed, TypeOK, PoolTypeOK
<1>. QED BY <1>c, <1>4, <1>5, <1>6, <1>7, <1>8 DEF OwnInv
\* Warm: a new transport, put or closed.
LEMMA WarmStep ==
  ASSUME OwnInv, Typed', WarmFactory \/ WarmPut
  PROVE  OwnInv'
<1>r. /\ \A i \in DOMAIN idle : At(i) \in Conns
      /\ wconn \in Conns \cup {NoConn} /\ Closing \subseteq Conns
      /\ held \in [Sessions -> Conns \cup {NoConn}] /\ uses \in [Sessions -> Nat]
      /\ connects \in [Conns -> Nat] /\ MaxUses \in Nat \ {0}
      /\ tr \in [Conns -> {"unborn", "open", "closed"}] /\ NoConn \notin Conns
  BY Ranges DEF OwnInv
<1>1. CASE WarmFactory
  <2>1. UNCHANGED <<idle, closed, closeVars, held, uses, pc, connects>> /\ wconn = NoConn
    BY <1>1 DEF WarmFactory, poolVars, closeVars, connVars, sesVars, OwnInv, Typed, PcInv
  <2>c. Closing' = Closing /\ Lined'
    BY <2>1, SameClosing DEF OwnInv
  <2>2. CASE UNCHANGED <<wireVars, wconn>>
    BY <2>1, <2>2, FrameStep DEF ownVars, wireVars
  <2>3. ASSUME NEW c \in Conns, Open(c), wconn' = c
        PROVE  OwnInv'
    <3>1. tr[c] = "unborn" /\ tr' = [tr EXCEPT ![c] = "open"]
      BY <2>3 DEF Open
    <3>2. /\ \A i \in DOMAIN idle : At(i) # c
          /\ \A t \in Sessions : held[t] # c
          /\ c \notin Closing
      BY <3>1, <1>r DEF OwnInv, Live
    <3>3. Apart' BY <2>1, <2>c, <2>3, <3>2 DEF OwnInv, Apart, At
    <3>4. Live' BY <1>r, <2>1, <2>c, <2>3, <3>1, <3>2 DEF OwnInv, Live, At
    <3>5. Kept' BY <1>r, <2>1, <2>c, <2>3, <3>1 DEF OwnInv, Kept, Referred, At
    <3>6. Counted' BY <1>r, <2>1, <2>3, <3>1 DEF OwnInv, Counted, At
    <3>7. ClosedPoolEmpty' BY <2>1 DEF OwnInv, closeVars, ClosedPoolEmpty
    <3>. QED BY <2>c, <3>3, <3>4, <3>5, <3>6, <3>7 DEF OwnInv
  <2>. QED BY <1>1, <2>2, <2>3 DEF WarmFactory
<1>2. CASE WarmPut
  <2>1. /\ UNCHANGED <<closed, closeVars, held, uses, pc, connects>>
        /\ wconn \in Conns /\ wconn' = NoConn
    BY <1>2, <1>r DEF WarmPut, closeVars, connVars, sesVars, OwnInv, Typed, PcInv
  <2>c. Closing' = Closing /\ Lined'
    BY <2>1, SameClosing DEF OwnInv
  <2>2. connects[wconn] = 0 /\ tr[wconn] = "open"
    BY <2>1, <1>r DEF OwnInv, Counted, Live
  <2>3. CASE PutOK(0)
    BY <1>2, <2>1, <2>2, <2>3, PutStep DEF WarmPut, wireVars
  <2>4. CASE ~PutOK(0)
    <3>1. idle' = idle /\ tr' = [c \in Conns |-> IF c = wconn THEN "closed" ELSE tr[c]]
      BY <1>2, <2>4 DEF WarmPut, Shut
    <3>2. Apart' BY <1>r, <2>1, <2>c, <3>1 DEF OwnInv, Apart, At
    <3>3. Live' BY <1>r, <2>1, <2>c, <3>1 DEF OwnInv, Live, Apart, At
    <3>4. Kept' BY <1>r, <2>1, <2>c, <3>1 DEF OwnInv, Kept, Referred, At
    <3>5. Counted' BY <1>r, <2>1, <3>1 DEF OwnInv, Counted, At
    <3>6. ClosedPoolEmpty' BY <2>1, <3>1 DEF OwnInv, closeVars, ClosedPoolEmpty
    <3>. QED BY <2>c, <3>2, <3>3, <3>4, <3>5, <3>6 DEF OwnInv
  <2>. QED BY <2>3, <2>4
<1>. QED BY <1>1, <1>2

\* Pool.Close is done with the front of what it closes.
LEMMA HeadClosing ==
  ASSUME Lined, doomed \in Seq(IdleEntry), doomed # <<>>, doomed' = Tail(doomed),
         UNCHANGED expired
  PROVE  /\ doomed[1].conn \in Closing
         /\ ConnsOf(doomed)' = ConnsOf(doomed) \ {doomed[1].conn}
         /\ Closing' = Closing \ {doomed[1].conn}
         /\ \A i, j \in DOMAIN doomed' : doomed'[i].conn = doomed'[j].conn => i = j
<1>1. /\ 1 \in DOMAIN doomed
      /\ \A i \in DOMAIN doomed' : /\ i + 1 \in DOMAIN doomed /\ i \in Nat \ {0}
                                    /\ doomed'[i] = doomed[i + 1]
      /\ \A i \in DOMAIN doomed : i # 1 => /\ i - 1 \in DOMAIN doomed'
                                          /\ doomed'[i - 1] = doomed[i]
  BY TailFacts
<1>2. \A i \in DOMAIN doomed' : i + 1 # 1
  BY <1>1
<1>3. ConnsOf(doomed)' = ConnsOf(doomed) \ {doomed[1].conn}
  <2>1. ASSUME NEW d \in ConnsOf(doomed)' PROVE d \in ConnsOf(doomed) \ {doomed[1].conn}
    BY <1>1, <1>2 DEF ConnsOf, Lined
  <2>2. ASSUME NEW d \in ConnsOf(doomed), d # doomed[1].conn PROVE d \in ConnsOf(doomed)'
    <3>1. PICK i \in DOMAIN doomed : d = doomed[i].conn
      BY DEF ConnsOf
    <3>2. i - 1 \in DOMAIN doomed' /\ doomed'[i - 1].conn = d
      BY <1>1, <2>2, <3>1
    <3>. QED BY <3>2 DEF ConnsOf
  <2>. QED BY <2>1, <2>2
<1>4. doomed[1].conn \in ConnsOf(doomed) /\ doomed[1].conn # expired
  BY <1>1 DEF ConnsOf, Lined
<1>5. Closing' = ConnsOf(doomed)' \cup ({expired} \ {NoConn})
  BY DEF Closing
<1>6. \A i, j \in DOMAIN doomed' : doomed'[i].conn = doomed'[j].conn => i = j
  BY <1>1 DEF Lined
<1>. QED BY <1>3, <1>4, <1>5, <1>6 DEF Closing

\* Pool.Close: the list changes hands as a whole, then its transports are closed.
LEMMA CloseStepOwn ==
  ASSUME OwnInv, Typed', PoolClose \/ PoolShut
  PROVE  OwnInv'
<1>r. /\ \A i \in DOMAIN idle : At(i) \in Conns
      /\ wconn \in Conns \cup {NoConn} /\ Closing \subseteq Conns
      /\ held \in [Sessions -> Conns \cup {NoConn}]
      /\ tr \in [Conns -> {"unborn", "open", "closed"}] /\ NoConn \notin Conns
  BY Ranges DEF OwnInv
<1>1. CASE PoolClose
  <2>1. /\ idle' = <<>> /\ doomed' = idle /\ ~closed /\ ~Locked /\ closed'
        /\ UNCHANGED <<expired, popper, wconn, tr, held, uses, pc, connects>>
    BY <1>1 DEF PoolClose, warmVars, wireVars, sesVars, connVars
  <2>2. DOMAIN idle' = {} BY <2>1
  <2>3. expired = NoConn /\ Closing = {}
    <3>1. doomed = <<>> BY <2>1 DEF OwnInv, ClosedPoolEmpty
    <3>2. expired = NoConn BY <2>1 DEF OwnInv, Lined
    <3>. QED BY <3>1, <3>2 DEF Closing, ConnsOf
  <2>4. \A c : c \in Closing' <=> \E i \in DOMAIN idle : At(i) = c
    BY <2>1, <2>3 DEF Closing, ConnsOf, At
  <2>5. Apart'
    <3>1. \A t \in Sessions : held'[t] # NoConn => held'[t] # wconn' /\ held'[t] \notin Closing'
      BY <2>1, <2>4 DEF OwnInv, Apart
    <3>2. wconn' \notin Closing'
      BY <2>1, <2>4 DEF OwnInv, Apart
    <3>. QED BY <2>1, <2>2, <3>1, <3>2 DEF OwnInv, Apart
  <2>6. Live' BY <2>1, <2>2, <2>4 DEF OwnInv, Live
  <2>7. Kept' BY <2>1, <2>2, <2>3, <2>4 DEF OwnInv, Kept, Referred
  <2>8. Counted' BY <2>1, <2>2 DEF OwnInv, Counted
  <2>9. Lined'
    <3>1. expired \notin ConnsOf(idle)
      BY <1>r, <2>3 DEF ConnsOf, At
    <3>. QED BY <2>1, <2>3, <3>1 DEF OwnInv, Apart, Lined, At, ConnsOf
  <2>10. ClosedPoolEmpty' BY <2>1 DEF ClosedPoolEmpty
  <2>. QED BY <2>5, <2>6, <2>7, <2>8, <2>9, <2>10 DEF OwnInv
<1>2. CASE PoolShut
  <2>1. /\ doomed # <<>> /\ Shut({doomed[1].conn}) /\ doomed' = Tail(doomed)
        /\ UNCHANGED <<idle, closed, expired, popper, wconn, held, uses, pc, connects>>
    BY <1>2 DEF PoolShut, warmVars, sesVars, connVars
  <2>2. doomed \in Seq(IdleEntry)
    BY Ranges DEF OwnInv
  <2>3. PICK c \in Closing : /\ c = doomed[1].conn /\ Shut({c})
                             /\ Closing' = Closing \ {c}
                             /\ ConnsOf(doomed)' = ConnsOf(doomed) \ {c}
    BY <2>1, <2>2, HeadClosing DEF OwnInv
  <2>8. Lined'
    <3>1. \A i, j \in DOMAIN doomed' : doomed'[i].conn = doomed'[j].conn => i = j
      BY <2>1, <2>2, HeadClosing DEF OwnInv
    <3>. QED BY <2>1, <2>3, <3>1 DEF OwnInv, Lined, Locked
  <2>9. ClosedPoolEmpty'
    BY <2>1 DEF OwnInv, ClosedPoolEmpty
  <2>. QED BY <2>1, <2>3, <2>8, <2>9, ClosedStep
<1>. QED BY <1>1, <1>2
\* A session's step.
LEMMA SessionOwn ==
  ASSUME OwnInv, Typed', NEW s \in Sessions, SessionStep(s)
  PROVE  OwnInv'
<1>r. /\ held \in [Sessions -> Conns \cup {NoConn}] /\ uses \in [Sessions -> Nat]
      /\ NoConn \notin Conns
  BY Ranges DEF OwnInv
<1>p. pc \in [Sessions -> {"new", "take", "miss", "dial", "recheck", "write",
                         "ready", "relay", "put", "shut", "closed", "failed"}]
  BY DEF OwnInv, Typed, TypeOK, SesTypeOK
<1>h. pc[s] \in Holding <=> held[s] # NoConn
  BY DEF OwnInv, Typed, PcInv
<1>. USE DEF poolVars, closeVars, warmVars, connVars, wireVars, sesVars, relVars
<1>1. CASE Arrive(s)
  BY <1>1, <1>p, FrameStep DEF Arrive, ownVars
<1>2. CASE Miss(s)
  BY <1>2, <1>p, FrameStep DEF Miss, ownVars
<1>3. CASE Recheck(s)
  <2>1. CASE closed
    BY <1>3, <2>1, <1>h, <1>p, ReleaseStep DEF Recheck, Holding
  <2>2. CASE ~closed
    BY <1>3, <2>2, <1>p, FrameStep DEF Recheck, ownVars
  <2>. QED BY <2>1, <2>2
<1>4. CASE WriteFails(s)
  BY <1>4, <1>h, <1>p, ReleaseStep DEF WriteFails, Holding
<1>5. CASE StartRelay(s)
  BY <1>5, <1>p, FrameStep DEF StartRelay, ownVars
<1>6. CASE Abort(s)
  BY <1>6, <1>h, <1>p, ReleaseStep DEF Abort, Holding
<1>7. CASE WriteData(s) \/ CloseWrite(s) \/ ReaderStep(s)
  <2>1. UNCHANGED ownVars /\ pc' = pc
    BY <1>7 DEF WriteData, CloseWrite, ReaderStep, ReadReply, ReadPayload, ReadZero,
                ReadDrop, ownVars
  <2>. QED BY <2>1, FrameStep
<1>8. CASE CloseDiscard(s)
  BY <1>8, <1>h, <1>p, ReleaseStep DEF CloseDiscard, RelayOver, Holding
<1>9. CASE CloseReset(s)
  BY <1>9, <1>p, FrameStep DEF CloseReset, ownVars
<1>10. CASE PutBack(s)
  <2>1. held[s] \in Conns /\ uses[s] \in Nat
    BY <1>10, <1>h, <1>r DEF PutBack, Holding
  <2>2. CASE PutOK(uses[s])
    <3>1. connects[held[s]] <= uses[s] /\ tr[held[s]] = "open"
      BY <2>1, <1>r DEF OwnInv, Counted, Live
    <3>. QED BY <1>10, <2>1, <2>2, <3>1, PutStep DEF PutBack
  <2>3. CASE ~PutOK(uses[s])
    BY <1>10, <2>3, <1>p, FrameStep DEF PutBack, ownVars
  <2>. QED BY <2>2, <2>3
<1>11. CASE Refused(s)
  BY <1>11, <1>h, <1>p, ReleaseStep DEF Refused, Holding
<1>. QED
  BY <1>1, <1>2, <1>3, <1>4, <1>5, <1>6, <1>7, <1>8, <1>9, <1>10, <1>11, TakeStep,
     PopCloseStep, FactoryStep, ConnectStep DEF SessionStep, DialStep, CloseStep

LEMMA InitOwn == Init => OwnInv
<1>. SUFFICES ASSUME Init PROVE OwnInv OBVIOUS
<1>1. Typed BY InitTyped
<1>c. Closing = {} /\ ConnsOf(doomed) = {} BY DEF Init, Closing, ConnsOf
<1>3. Live BY <1>c DEF Init, Live, At
<1>4. Kept BY DEF Init, Kept
<1>2. Apart BY <1>c DEF Init, Apart, At
<1>7. Lined BY <1>c DEF Init, Lined
<1>5. Counted BY PoolAssumption DEF PoolAssumption, Init, Counted, At
<1>6. ClosedPoolEmpty BY DEF Init, ClosedPoolEmpty
<1>. QED BY <1>1, <1>2, <1>3, <1>4, <1>5, <1>6, <1>7 DEF OwnInv

LEMMA NextOwn == OwnInv /\ [Next]_vars => OwnInv'
<1>. SUFFICES ASSUME OwnInv, [Next]_vars PROVE OwnInv' OBVIOUS
<1>0. Typed'
  BY NextTyped DEF OwnInv
<1>. USE DEF poolVars, closeVars, warmVars, connVars, wireVars, sesVars, relVars
<1>1. ASSUME NEW s \in Sessions, SessionStep(s) PROVE OwnInv'
  BY <1>0, <1>1, SessionOwn
<1>2. ASSUME NEW c \in Conns, ServerStep(c) PROVE OwnInv'
  <2>1. UNCHANGED ownVars /\ pc' = pc
    BY <1>2 DEF ServerStep, SrvReceive, SrvSend, SrvNext, Drop, Stall, SrvOnly, ownVars
  <2>. QED BY <1>0, <2>1, FrameStep
<1>3. CASE Tick \/ AllDone \/ UNCHANGED vars
  <2>1. UNCHANGED ownVars /\ pc' = pc
    BY <1>3 DEF Tick, AllDone, vars, ownVars
  <2>. QED BY <1>0, <2>1, FrameStep
<1>4. CASE WarmFactory \/ WarmPut
  BY <1>0, <1>4, WarmStep
<1>5. CASE PoolClose \/ PoolShut
  BY <1>0, <1>5, CloseStepOwn
<1>. QED BY <1>1, <1>2, <1>3, <1>4, <1>5 DEF Next

\* The invariant of the pool: ownership, life and use counts of transports.
THEOREM PoolInvariant == Spec => []OwnInv
BY InitOwn, NextOwn, PTL DEF Spec

-----------------------------------------------------------------------------
\* A transport is open exactly while the idle list, a session, Warm, pop or the
\* closing Pool.Close refers to it (pool.go: every error path closes what it took).
THEOREM NothingLeaks == Spec => []NoLeak
<1>1. OwnInv => NoLeak
  <2>. SUFFICES ASSUME OwnInv, NEW c \in Conns
                PROVE  tr[c] = "open" <=> c \in IdleConns \cup HeldConns \cup WarmConns \cup Closing
    BY DEF NoLeak
  <2>1. NoConn \notin Conns BY PoolAssumption DEF PoolAssumption
  <2>2. c \in IdleConns \cup HeldConns \cup WarmConns \cup Closing <=> Referred(c)
    BY <2>1 DEF IdleConns, ConnsOf, HeldConns, WarmConns, Referred, At
  <2>3. tr[c] = "open" => Referred(c)
    BY DEF OwnInv, Kept
  <2>4. Referred(c) => tr[c] = "open"
    BY <2>1 DEF OwnInv, Live, Referred
  <2>. QED BY <2>2, <2>3, <2>4
<1>. QED BY <1>1, PoolInvariant, PTL

\* A transport has one owner (pool.go pop, put, take, Close).
THEOREM SingleOwner == Spec => []OneOwner
<1>1. OwnInv => OneOwner
  <2>. SUFFICES ASSUME OwnInv PROVE OneOwner OBVIOUS
  <2>1. Apart BY DEF OwnInv
  <2>2. \A i, j \in DOMAIN idle : idle[i].conn = idle[j].conn => i = j
    BY <2>1 DEF Apart, At
  <2>3. IdleConns \cap (HeldConns \cup WarmConns \cup Closing) = {}
    BY <2>1 DEF Apart, At, IdleConns, ConnsOf, HeldConns, WarmConns
  <2>4. HeldConns \cap (WarmConns \cup Closing) = {}
    BY <2>1 DEF Apart, HeldConns, WarmConns
  <2>5. WarmConns \cap Closing = {}
    BY <2>1 DEF Apart, WarmConns
  <2>6. /\ \A i, j \in DOMAIN doomed : doomed[i].conn = doomed[j].conn => i = j
        /\ expired \notin ConnsOf(doomed)
    BY DEF OwnInv, Lined
  <2>. QED BY <2>1, <2>2, <2>3, <2>4, <2>5, <2>6 DEF OneOwner, Apart
<1>. QED BY <1>1, PoolInvariant, PTL

\* No transport ever carries more than poolMaxUses CONNECTs.
THEOREM BoundedReuse == Spec => []UsesBounded
<1>1. OwnInv => UsesBounded BY DEF OwnInv, Counted, UsesBounded
<1>. QED BY <1>1, PoolInvariant, PTL

\* A closed pool keeps no idle transport, whatever races with Pool.Close.
THEOREM ClosedIsEmpty == Spec => []ClosedPoolEmpty
<1>1. OwnInv => ClosedPoolEmpty BY DEF OwnInv
<1>. QED BY <1>1, PoolInvariant, PTL
-----------------------------------------------------------------------------
(* The order of the idle list: put appends with the current time, so the   *)
(* oldest transport is always at the front, where pop looks for it.        *)

Aged ==
  /\ \A i \in DOMAIN idle : idle[i].used <= now
  /\ \A i, j \in DOMAIN idle : i <= j => idle[i].used <= idle[j].used

LEMMA InitAged == Init => Aged
BY DEF Init, Aged

\* The list is replaced by one of its ends, or grows by an entry put now.
LEMMA AgedStep ==
  ASSUME Typed, Aged, [Next]_vars
  PROVE  Aged'
<1>r. /\ idle \in Seq(IdleEntry) /\ now \in Nat
      /\ \A i \in DOMAIN idle : idle[i].used \in Nat
      /\ DOMAIN idle = 1..Len(idle) /\ Len(idle) \in Nat
  BY Ranges DEF Typed, TypeOK, PoolTypeOK, IdleEntry
<1>. USE DEF poolVars, warmVars, connVars, wireVars, sesVars, relVars
<1>1. ASSUME idle' = idle, now' \in {now, now + 1} PROVE Aged'
  BY <1>1, <1>r DEF Aged
<1>2. ASSUME idle' = <<>> PROVE Aged'
  BY <1>2 DEF Aged
<1>3. ASSUME NEW c, NEW u, idle' = Added(c, u), now' = now PROVE Aged'
  <2>n. PICK n \in Nat : n = Len(idle) + 1
    BY <1>r
  <2>1. /\ DOMAIN idle' = 1..n
        /\ \A i \in DOMAIN idle : idle'[i] = idle[i]
        /\ idle'[n].used = now
    BY <1>3, <1>r, <2>n, AppendFacts DEF Added, Entry
  <2>2. \A i \in DOMAIN idle' : i \in DOMAIN idle \/ i = n
    BY <2>1, <2>n, <1>r
  <2>3. n \notin DOMAIN idle /\ \A i \in DOMAIN idle : i < n
    BY <2>n, <1>r
  <2>4. \A i \in DOMAIN idle' : idle'[i].used <= now'
    BY <1>3, <1>r, <2>1, <2>2 DEF Aged
  <2>5. \A i, j \in DOMAIN idle' : i <= j => idle'[i].used <= idle'[j].used
    BY <1>r, <2>1, <2>2, <2>3 DEF Aged
  <2>. QED BY <2>4, <2>5 DEF Aged
<1>4. ASSUME NEW s \in Sessions, Take(s) PROVE Aged'
  <2>1. now' = now /\ (idle' = idle \/ (idle # <<>> /\ idle' = Tail(idle)))
    BY <1>4 DEF Take, Turn
  <2>2. CASE idle # <<>> /\ idle' = Tail(idle)
    <3>1. \A i \in DOMAIN idle' : /\ i \in Nat /\ i + 1 \in DOMAIN idle
                                  /\ idle'[i] = idle[i + 1]
      BY <2>2, <1>r, TailFacts
    <3>2. \A i, j \in DOMAIN idle' : i <= j => i + 1 <= j + 1
      BY <3>1
    <3>3. \A i \in DOMAIN idle' : idle'[i].used <= now'
      BY <3>1, <2>1 DEF Aged
    <3>4. \A i, j \in DOMAIN idle' : i <= j => idle'[i].used <= idle'[j].used
      BY <3>1, <3>2 DEF Aged
    <3>. QED BY <3>3, <3>4 DEF Aged
  <2>. QED BY <2>1, <2>2, <1>1
<1>5. ASSUME NEW s \in Sessions, SessionStep(s) PROVE Aged'
  <2>1. CASE Take(s) BY <2>1, <1>4
  <2>2. CASE PutBack(s)
    BY <2>2, <1>1, <1>3 DEF PutBack
  <2>3. CASE ~Take(s) /\ ~PutBack(s)
    <3>1. idle' = idle /\ now' = now
      BY <1>5, <2>3 DEF SessionStep, DialStep, CloseStep, ReaderStep, Arrive, Miss, Factory,
           Recheck, WriteConnect, WriteFails, StartRelay, Abort, WriteData, CloseWrite,
           ReadReply, ReadPayload, ReadZero, ReadDrop, CloseDiscard, CloseReset, PopClose, Refused
    <3>. QED BY <3>1, <1>1
  <2>. QED BY <2>1, <2>2, <2>3
<1>6. ASSUME NEW c \in Conns, ServerStep(c) PROVE Aged'
  <2>1. idle' = idle /\ now' = now
    BY <1>6 DEF ServerStep, SrvReceive, SrvSend, SrvNext, Drop, Stall, SrvOnly
  <2>. QED BY <2>1, <1>1
<1>7. CASE WarmFactory \/ WarmPut
  BY <1>7, <1>1, <1>3 DEF WarmFactory, WarmPut
<1>8. CASE PoolClose \/ PoolShut
  BY <1>8, <1>1, <1>2 DEF PoolClose, PoolShut
<1>9. CASE Tick \/ AllDone \/ UNCHANGED vars
  BY <1>9, <1>1 DEF Tick, AllDone, vars
<1>. QED BY <1>5, <1>6, <1>7, <1>8, <1>9 DEF Next

\* pop may stop at the first transport that is not expired: what remains in the list
\* is younger (pool.go pop), however long it held the lock to close those in front.
THEOREM FrontIsOldest == Spec => NoExpiredSurvivor
<1>1. Typed /\ Aged /\ [Next]_vars =>
        [\A s \in Sessions : (pc[s] = "take" /\ pc'[s] = "write") =>
            LET t == IF popper = s THEN popAt ELSE now IN
            \A i \in DOMAIN idle' : ~Expired(idle'[i], t)]_vars
  <2>. SUFFICES ASSUME Typed, Aged, Next, NEW s \in Sessions,
                       pc[s] = "take", pc'[s] = "write", NEW m \in DOMAIN idle'
                PROVE  ~Expired(idle'[m], IF popper = s THEN popAt ELSE now)
    OBVIOUS
  <2>r. /\ idle \in Seq(IdleEntry) /\ now \in Nat /\ popAt \in Nat /\ IdleAge \in Nat
        /\ \A i \in DOMAIN idle : idle[i].used \in Nat
        /\ DOMAIN idle = 1..Len(idle) /\ Len(idle) \in Nat
        /\ NoSession \notin Sessions
        /\ pc \in [Sessions -> {"new", "take", "miss", "dial", "recheck", "write",
                         "ready", "relay", "put", "shut", "closed", "failed"}]
    BY Ranges, PoolAssumption DEF PoolAssumption, Typed, TypeOK, PoolTypeOK, SesTypeOK, IdleEntry
  <2>1. Take(s)
    <3>. USE DEF poolVars, warmVars, connVars, wireVars, sesVars, relVars
    <3>1. PICK t \in Sessions : SessionStep(t)
      BY DEF Next, ServerStep, SrvReceive, SrvSend, SrvNext, Drop, Stall, SrvOnly, WarmFactory,
             WarmPut, PoolClose, PoolShut, Tick, AllDone, vars
    <3>2. t = s
      BY <3>1, <2>r DEF SessionStep, DialStep, CloseStep, ReaderStep, Arrive, Take, Turn, Miss, Factory,
           Recheck, WriteConnect, WriteFails, StartRelay, Abort, WriteData, CloseWrite, PopClose,
           ReadReply, ReadPayload, ReadZero, ReadDrop, CloseDiscard, CloseReset, PutBack, Refused
    <3>. QED
      BY <3>1, <3>2, <2>r DEF SessionStep, DialStep, CloseStep, ReaderStep, Arrive, Miss, Factory,
           Recheck, WriteConnect, WriteFails, StartRelay, Abort, WriteData, CloseWrite, PopClose,
           ReadReply, ReadPayload, ReadZero, ReadDrop, RelayOver, CloseDiscard, CloseReset, PutBack,
           Refused
  <2>2. PICK t \in Nat : t = (IF popper = s THEN popAt ELSE now) /\ Turn(s, t)
    BY <2>1, <2>r DEF Take, Locked
  <2>3. idle # <<>> /\ ~Expired(idle[1], t) /\ idle' = Tail(idle)
    BY <2>2, <2>r DEF Turn
  <2>4. /\ 1 \in DOMAIN idle /\ m + 1 \in DOMAIN idle /\ idle'[m] = idle[m + 1]
        /\ m \in Nat
    BY <2>3, <2>r, TailFacts
  <2>5. idle[1].used <= idle[m + 1].used
    BY <2>4 DEF Aged
  <2>6. idle[1].used \in Nat /\ idle[m + 1].used \in Nat /\ ~(t > idle[1].used + IdleAge)
    BY <2>3, <2>4, <2>r DEF Expired
  <2>7. ~(t > idle[m + 1].used + IdleAge)
    BY <2>5, <2>6, <2>r
  <2>. QED BY <2>2, <2>4, <2>7 DEF Expired
<1>2. Typed /\ Aged /\ [Next]_vars => Typed' /\ Aged'
  BY NextTyped, AgedStep
<1>. QED BY <1>1, <1>2, InitTyped, InitAged, PTL DEF Spec, NoExpiredSurvivor

-----------------------------------------------------------------------------
(* The pool implements ConnLease: a transport is leased to one user at a   *)
(* time, at most poolMaxUses times, and never after the pool was closed.   *)

Lent == [c \in Conns |-> Lease(c)]
Times == [c \in Conns |-> Served(c)]
leased == <<Lent, Times, closed>>

-----------------------------------------------------------------------------
(* The mapping, case by case: who refers to a transport decides.           *)

Mapped ==
  \A c \in Conns :
    /\ tr[c] = "unborn" => Lease(c) = "unborn" /\ Served(c) = 0
    /\ tr[c] = "closed" => Lease(c) = "gone" /\ Served(c) = 0
    /\ \A i \in DOMAIN idle : At(i) = c => Lease(c) = "free" /\ Served(c) = idle[i].uses
    /\ \A s \in Sessions : held[s] = c => Lease(c) = s /\ Served(c) = uses[s]
    /\ c = wconn => Lease(c) = "warmer" /\ Served(c) = 0
    /\ c \in Closing => Lease(c) = "closer" /\ Served(c) = 0

LEMMA MappedHolds == OwnInv => Mapped
<1>. SUFFICES ASSUME OwnInv, NEW c \in Conns
              PROVE  /\ tr[c] = "unborn" => Lease(c) = "unborn" /\ Served(c) = 0
                     /\ tr[c] = "closed" => Lease(c) = "gone" /\ Served(c) = 0
                     /\ \A i \in DOMAIN idle :
                          At(i) = c => Lease(c) = "free" /\ Served(c) = idle[i].uses
                     /\ \A s \in Sessions : held[s] = c => Lease(c) = s /\ Served(c) = uses[s]
                     /\ c = wconn => Lease(c) = "warmer" /\ Served(c) = 0
                     /\ c \in Closing => Lease(c) = "closer" /\ Served(c) = 0
  BY DEF Mapped
<1>n. NoConn \notin Conns
  BY PoolAssumption DEF PoolAssumption
<1>i. c \in IdleConns <=> \E i \in DOMAIN idle : At(i) = c
  BY DEF IdleConns, ConnsOf, At
<1>h. c \in HeldConns <=> \E s \in Sessions : held[s] = c
  BY <1>n DEF HeldConns
<1>1. CASE tr[c] # "open"
  <2>1. c \notin IdleConns /\ c \notin HeldConns /\ c # wconn /\ c \notin Closing
    BY <1>1, <1>n, <1>i, <1>h DEF OwnInv, Live
  <2>. QED BY <1>i, <1>h, <2>1 DEF Lease, Served
<1>2. CASE tr[c] = "open"
  <2>1. ASSUME NEW i \in DOMAIN idle, At(i) = c
        PROVE  Lease(c) = "free" /\ Served(c) = idle[i].uses
    <3>1. (CHOOSE j \in DOMAIN idle : idle[j].conn = c) = i
      BY <2>1 DEF OwnInv, Apart, At
    <3>. QED BY <1>2, <1>i, <2>1, <3>1 DEF Lease, Served
  <2>2. ASSUME NEW s \in Sessions, held[s] = c
        PROVE  Lease(c) = s /\ Served(c) = uses[s]
    <3>1. (CHOOSE t \in Sessions : held[t] = c) = s
      BY <1>n, <2>2 DEF OwnInv, Apart
    <3>2. c \notin IdleConns
      BY <1>i, <2>2 DEF OwnInv, Apart
    <3>. QED BY <1>2, <1>h, <2>2, <3>1, <3>2 DEF Lease, Served
  <2>3. ASSUME c = wconn \/ c \in Closing
        PROVE  c \notin IdleConns /\ c \notin HeldConns /\ Served(c) = 0
    <3>1. c \notin IdleConns /\ c \notin HeldConns
      BY <1>n, <1>i, <1>h, <2>3 DEF OwnInv, Apart
    <3>. QED BY <3>1 DEF Served
  <2>4. c \in Closing => c # wconn
    BY DEF OwnInv, Apart
  <2>. QED BY <1>2, <2>1, <2>2, <2>3, <2>4 DEF Lease
<1>. QED BY <1>1, <1>2

LEMMA MappedNext == OwnInv' => Mapped'
BY MappedHolds, PTL

\* Every open transport is one of these, and so its lease is known.
LEMMA OpenLease ==
  ASSUME OwnInv, Mapped, NEW c \in Conns, tr[c] = "open"
  PROVE  Lease(c) \in Sessions \cup {"free", "warmer", "closer"}
BY DEF OwnInv, Kept, Referred, Mapped

\* Nobody is leased two transports, and who holds none is leased none.
LEMMA NotLeased ==
  ASSUME OwnInv, Mapped, NEW s \in Sessions, held[s] = NoConn, NEW c \in Conns
  PROVE  Lease(c) # s
<1>1. tr[c] \in {"unborn", "open", "closed"} /\ NoConn \notin Conns
  BY Ranges DEF OwnInv
<1>2. s \notin {"unborn", "free", "gone", "warmer", "closer"}
  BY LeaseAssumption DEF LeaseAssumption
<1>. QED BY <1>1, <1>2 DEF OwnInv, Kept, Referred, Mapped

LEMMA NotWarming ==
  ASSUME OwnInv, Mapped, wconn = NoConn, NEW c \in Conns PROVE Lease(c) # "warmer"
<1>1. tr[c] \in {"unborn", "open", "closed"} /\ NoConn \notin Conns
  BY Ranges DEF OwnInv
<1>2. "warmer" \notin Sessions
  BY LeaseAssumption DEF LeaseAssumption
<1>. QED BY <1>1, <1>2 DEF OwnInv, Kept, Referred, Mapped

\* Only what the idle list holds is free.
LEMMA FreeIdle ==
  ASSUME OwnInv, Mapped, NEW c \in Conns
  PROVE  Lease(c) = "free" <=> \E i \in DOMAIN idle : At(i) = c
<1>1. tr[c] \in {"unborn", "open", "closed"}
  BY Ranges DEF OwnInv
<1>2. "free" \notin Sessions
  BY LeaseAssumption DEF LeaseAssumption
<1>. QED BY <1>1, <1>2 DEF OwnInv, Kept, Referred, Mapped

\* A transport whose state and whose referrer stay keeps its lease.
Keeps(c) ==
  /\ \A i \in DOMAIN idle : At(i) = c => \E j \in DOMAIN idle' : idle'[j] = idle[i]
  /\ \A s \in Sessions : held[s] = c => held'[s] = c /\ uses'[s] = uses[s]
  /\ c = wconn => c = wconn'
  /\ c \in Closing => c \in Closing'

LEMMA Stays ==
  ASSUME OwnInv, Mapped, Mapped', NEW c \in Conns, tr'[c] = tr[c], Keeps(c)
  PROVE  Lease(c)' = Lease(c) /\ Served(c)' = Served(c)
<1>1. tr[c] \in {"unborn", "open", "closed"}
  BY Ranges DEF OwnInv
<1>2. CASE tr[c] # "open"
  BY <1>1, <1>2 DEF Mapped
<1>3. CASE \E i \in DOMAIN idle : At(i) = c
  <2>1. PICK i \in DOMAIN idle, j \in DOMAIN idle' : At(i) = c /\ idle'[j] = idle[i]
    BY <1>3 DEF Keeps
  <2>2. At(j)' = c
    BY <2>1 DEF At
  <2>. QED BY <2>1, <2>2 DEF Mapped
<1>4. CASE \E s \in Sessions : held[s] = c
  BY <1>4 DEF Mapped, Keeps
<1>5. CASE c = wconn \/ c \in Closing
  BY <1>5 DEF Mapped, Keeps
<1>. QED BY <1>1, <1>2, <1>3, <1>4, <1>5 DEF OwnInv, Kept, Referred

-----------------------------------------------------------------------------
(* The steps                                                               *)

\* Closing open transports, the others untouched, ends their leases.
LEMMA RetireStep ==
  ASSUME OwnInv, OwnInv', NEW D \in SUBSET Conns, D # {}, \A c \in D : tr[c] = "open",
         Shut(D), closed' = closed, \A c \in Conns \ D : Keeps(c)
  PROVE  Leases!Retire(D)
<1>m. Mapped /\ Mapped'
  BY MappedHolds, MappedNext
<1>1. \A c \in D : Lease(c) \in Sessions \cup {"free", "warmer", "closer"}
  BY <1>m, OpenLease
<1>2. \A c \in D : Lease(c)' = "gone" /\ Served(c)' = 0
  BY <1>m DEF Shut, Mapped
<1>3. \A c \in Conns \ D : Lease(c)' = Lease(c) /\ Served(c)' = Served(c)
  <2>. SUFFICES ASSUME NEW c \in Conns \ D PROVE Lease(c)' = Lease(c) /\ Served(c)' = Served(c)
    OBVIOUS
  <2>1. tr'[c] = tr[c] /\ Keeps(c)
    BY DEF Shut
  <2>. QED BY <1>m, <2>1, Stays
<1>4. Lent' = [c \in Conns |-> IF c \in D THEN "gone" ELSE Lent[c]]
  BY <1>2, <1>3 DEF Lent
<1>5. Times' = [c \in Conns |-> IF c \in D THEN 0 ELSE Times[c]]
  BY <1>2, <1>3 DEF Times
<1>6. \A c \in D : Lent[c] \in Leases!Users \cup {"free"}
  BY <1>1 DEF Lent, Leases!Users
<1>. QED BY <1>4, <1>5, <1>6 DEF Lent, Times, Leases!Retire

\* A step that leaves alone who refers to what is a stutter.
LEMMA SameStep ==
  ASSUME UNCHANGED <<idle, closed, tr, held, uses, wconn>>
  PROVE  UNCHANGED leased
<1>1. \A c \in Conns : Lease(c)' = Lease(c) /\ Served(c)' = Served(c)
  BY DEF Lease, Served, IdleConns, ConnsOf, HeldConns
<1>. QED BY <1>1 DEF leased, Lent, Times

\* A transport that was just dialled goes to who asked for it.
LEMMA CreateStep ==
  ASSUME OwnInv, OwnInv', NEW c \in Conns, Open(c), UNCHANGED <<idle, closed>>,
         Closing' = Closing,
         NEW u \in Sessions \cup {"warmer"}, \A d \in Conns : Lease(d) # u,
         \/ /\ u \in Sessions /\ held[u] = NoConn /\ wconn' = wconn
            /\ held' = [held EXCEPT ![u] = c] /\ uses' = [uses EXCEPT ![u] = 1]
         \/ /\ u = "warmer" /\ u \notin Sessions /\ wconn = NoConn /\ wconn' = c
            /\ UNCHANGED <<held, uses>>
  PROVE  Leases!Create(c, u)
<1>m. Mapped /\ Mapped'
  BY MappedHolds, MappedNext
<1>r. /\ held \in [Sessions -> Conns \cup {NoConn}] /\ uses \in [Sessions -> Nat]
      /\ tr \in [Conns -> {"unborn", "open", "closed"}] /\ NoConn \notin Conns
  BY Ranges DEF OwnInv
<1>1. Lease(c) = "unborn"
  BY <1>m DEF Open, Mapped
<1>2. Lease(c)' = u /\ Served(c)' = IF u \in Sessions THEN 1 ELSE 0
  BY <1>m, <1>r DEF Mapped
<1>3. \A d \in Conns \ {c} : Lease(d)' = Lease(d) /\ Served(d)' = Served(d)
  <2>. SUFFICES ASSUME NEW d \in Conns \ {c} PROVE Lease(d)' = Lease(d) /\ Served(d)' = Served(d)
    OBVIOUS
  <2>1. tr'[d] = tr[d]
    BY <1>r DEF Open
  <2>2. Keeps(d)
    BY <1>r DEF Keeps
  <2>. QED BY <1>m, <2>1, <2>2, Stays
<1>4. Lent' = [Lent EXCEPT ![c] = u]
  BY <1>2, <1>3 DEF Lent
<1>5. Times' = [Times EXCEPT ![c] = IF u \in Sessions THEN 1 ELSE 0]
  BY <1>2, <1>3 DEF Times
<1>6. Lent[c] = "unborn" /\ \A d \in Conns : Lent[d] # u
  BY <1>1 DEF Lent
<1>. QED BY <1>4, <1>5, <1>6 DEF Lent, Times, Leases!Create

\* put takes a transport back from the session, or Warm, that had it.
LEMMA ReturnStep ==
  ASSUME OwnInv, OwnInv', NEW c \in Conns, NEW u \in Nat, PutOK(u), idle' = Added(c, u),
         UNCHANGED <<closed, tr, uses>>, tr[c] = "open", Closing' = Closing,
         \/ /\ c = wconn /\ u = 0 /\ wconn' = NoConn /\ held' = held
         \/ \E s \in Sessions : /\ c = held[s] /\ u = uses[s]
                                /\ held' = [held EXCEPT ![s] = NoConn] /\ wconn' = wconn
  PROVE  Leases!Return(c)
<1>m. Mapped /\ Mapped'
  BY MappedHolds, MappedNext
<1>r. /\ idle \in Seq(IdleEntry) /\ held \in [Sessions -> Conns \cup {NoConn}]
      /\ NoConn \notin Conns
  BY Ranges DEF OwnInv
<1>1. Lease(c) \in Sessions \cup {"warmer"} /\ Served(c) = u
  BY <1>m DEF Mapped
<1>2. /\ \A i \in DOMAIN idle : i \in DOMAIN idle' /\ idle'[i] = idle[i]
      /\ Len(idle) + 1 \in DOMAIN idle' /\ idle'[Len(idle) + 1] = Entry(c, u)
  <2>1. DOMAIN idle = 1..Len(idle) /\ Len(idle) \in Nat
    BY <1>r
  <2>. QED BY <1>r, <2>1, AppendFacts DEF Added
<1>3. Lease(c)' = "free" /\ Served(c)' = u
  <2>1. PICK n \in DOMAIN idle' : idle'[n] = Entry(c, u)
    BY <1>2
  <2>2. At(n)' = c /\ idle'[n].uses = u
    BY <2>1 DEF At, Entry
  <2>. QED BY <1>m, <2>2 DEF Mapped
<1>4. \A d \in Conns \ {c} : Lease(d)' = Lease(d) /\ Served(d)' = Served(d)
  <2>. SUFFICES ASSUME NEW d \in Conns \ {c} PROVE Lease(d)' = Lease(d) /\ Served(d)' = Served(d)
    OBVIOUS
  <2>1. Keeps(d)
    BY <1>2, <1>r DEF Keeps
  <2>. QED BY <1>m, <2>1, Stays
<1>5. Lent' = [Lent EXCEPT ![c] = "free"]
  BY <1>3, <1>4 DEF Lent
<1>6. Times' = Times
  BY <1>1, <1>3, <1>4 DEF Times
<1>7. Lent[c] \in Sessions \cup {"warmer"} /\ Times[c] < MaxUses /\ ~closed
  BY <1>1 DEF Lent, Times, PutOK
<1>. QED BY <1>5, <1>6, <1>7 DEF Lent, Times, Leases!Return

\* pop takes an expired entry out: its transport is with whoever closes it.
LEMMA ExpireLease ==
  ASSUME OwnInv, OwnInv', idle # <<>>, idle' = Tail(idle), expired = NoConn,
         expired' = idle[1].conn, UNCHANGED <<closed, doomed, wconn, tr, held, uses>>
  PROVE  \E c \in Conns : Leases!Expire(c)
<1>m. Mapped /\ Mapped'
  BY MappedHolds, MappedNext
<1>r. idle \in Seq(IdleEntry) /\ NoConn \notin Conns /\ \A i \in DOMAIN idle : At(i) \in Conns
  BY Ranges DEF OwnInv
<1>1. /\ 1 \in DOMAIN idle
      /\ \A i \in DOMAIN idle : i # 1 => i - 1 \in DOMAIN idle' /\ idle'[i - 1] = idle[i]
  BY <1>r, TailFacts
<1>e. PICK e \in Conns : e = At(1) /\ expired' = e
  BY <1>1, <1>r DEF At
<1>2. Closing' = Closing \cup {e}
  BY <1>e, <1>r DEF Closing, ConnsOf
<1>3. ~closed /\ Lease(e) = "free"
  BY <1>m, <1>1, <1>e DEF Mapped, OwnInv, ClosedPoolEmpty
<1>4. Lease(e)' = "closer" /\ Served(e)' = 0
  BY <1>m, <1>2 DEF Mapped
<1>5. \A d \in Conns \ {e} : Lease(d)' = Lease(d) /\ Served(d)' = Served(d)
  <2>. SUFFICES ASSUME NEW d \in Conns \ {e} PROVE Lease(d)' = Lease(d) /\ Served(d)' = Served(d)
    OBVIOUS
  <2>1. \A i \in DOMAIN idle : At(i) = d => i # 1
    BY <1>e
  <2>2. Keeps(d)
    BY <2>1, <1>1, <1>2 DEF Keeps
  <2>. QED BY <1>m, <2>2, Stays
<1>6. Lent' = [Lent EXCEPT ![e] = "closer"]
  BY <1>4, <1>5 DEF Lent
<1>7. Times' = [Times EXCEPT ![e] = 0]
  BY <1>4, <1>5 DEF Times
<1>8. Lent[e] = "free"
  BY <1>3 DEF Lent
<1>. QED BY <1>3, <1>6, <1>7, <1>8 DEF Lent, Times, Leases!Expire

\* pop hands the front entry to the session.
LEMMA GrantLease ==
  ASSUME OwnInv, OwnInv', NEW s \in Sessions, held[s] = NoConn, idle # <<>>, idle' = Tail(idle),
         held' = [held EXCEPT ![s] = idle[1].conn],
         uses' = [uses EXCEPT ![s] = idle[1].uses + 1],
         UNCHANGED <<closed, doomed, expired, wconn, tr>>
  PROVE  \E c \in Conns : Leases!Grant(c, s)
<1>m. Mapped /\ Mapped'
  BY MappedHolds, MappedNext
<1>r. /\ idle \in Seq(IdleEntry) /\ NoConn \notin Conns
      /\ \A i \in DOMAIN idle : At(i) \in Conns /\ idle[i].uses \in Nat
      /\ held \in [Sessions -> Conns \cup {NoConn}] /\ uses \in [Sessions -> Nat]
  BY Ranges DEF OwnInv
<1>1. /\ 1 \in DOMAIN idle
      /\ \A i \in DOMAIN idle : i # 1 => i - 1 \in DOMAIN idle' /\ idle'[i - 1] = idle[i]
  BY <1>r, TailFacts
<1>e. PICK e \in Conns, u \in Nat :
        /\ e = At(1) /\ u = idle[1].uses
        /\ held' = [held EXCEPT ![s] = e] /\ uses' = [uses EXCEPT ![s] = u + 1]
  BY <1>1, <1>r DEF At
<1>2. Closing' = Closing
  BY DEF Closing, ConnsOf
<1>3. ~closed /\ Lease(e) = "free" /\ Served(e) = u /\ u < MaxUses
  BY <1>m, <1>1, <1>e DEF Mapped, OwnInv, ClosedPoolEmpty, Counted
<1>4. Lease(e)' = s /\ Served(e)' = u + 1
  <2>1. held'[s] = e /\ uses'[s] = u + 1
    BY <1>e, <1>r
  <2>. QED BY <1>m, <2>1 DEF Mapped
<1>5. \A d \in Conns \ {e} : Lease(d)' = Lease(d) /\ Served(d)' = Served(d)
  <2>. SUFFICES ASSUME NEW d \in Conns \ {e} PROVE Lease(d)' = Lease(d) /\ Served(d)' = Served(d)
    OBVIOUS
  <2>1. \A i \in DOMAIN idle : At(i) = d => i # 1
    BY <1>e
  <2>2. \A t \in Sessions : held[t] = d => held'[t] = d /\ uses'[t] = uses[t]
    BY <1>e, <1>r
  <2>3. Keeps(d)
    BY <2>1, <2>2, <1>1, <1>2 DEF Keeps
  <2>. QED BY <1>m, <2>3, Stays
<1>6. Lent' = [Lent EXCEPT ![e] = s]
  BY <1>4, <1>5 DEF Lent
<1>7. Times' = [Times EXCEPT ![e] = @ + 1]
  BY <1>3, <1>4, <1>5 DEF Times
<1>8. Lent[e] = "free" /\ Times[e] < MaxUses /\ \A d \in Conns : Lent[d] # s
  BY <1>m, <1>3, NotLeased DEF Lent, Times
<1>. QED BY <1>3, <1>6, <1>7, <1>8 DEF Lent, Times, Leases!Grant

\* pop: nothing, the expired front to be closed, or the front handed out.
LEMMA TakeLease ==
  ASSUME OwnInv, OwnInv', NEW s \in Sessions, Take(s)
  PROVE  [Leases!Next]_leased
<1>1. /\ pc[s] = "take" /\ expired = NoConn
      /\ \E t : Turn(s, t)
      /\ UNCHANGED <<closed, doomed, wconn, tr>>
  BY DEF Take, warmVars, wireVars
<1>h. held[s] = NoConn
  BY <1>1 DEF OwnInv, Typed, PcInv, Holding
<1>2. CASE UNCHANGED <<idle, held, uses>>
  BY <1>1, <1>2, SameStep
<1>3. CASE idle # <<>> /\ idle' = Tail(idle) /\ expired' = idle[1].conn /\ UNCHANGED <<held, uses>>
  BY <1>1, <1>3, ExpireLease DEF Leases!Next
<1>4. CASE /\ idle # <<>> /\ idle' = Tail(idle)
           /\ held' = [held EXCEPT ![s] = idle[1].conn]
           /\ uses' = [uses EXCEPT ![s] = idle[1].uses + 1] /\ UNCHANGED expired
  BY <1>1, <1>h, <1>4, GrantLease DEF Leases!Next
<1>. QED BY <1>1, <1>2, <1>3, <1>4 DEF Turn

\* A transport pop or Pool.Close was closing is closed.
LEMMA ShutLease ==
  ASSUME OwnInv, OwnInv', NEW c \in Closing, Shut({c}), Closing' = Closing \ {c},
         UNCHANGED <<idle, closed, wconn, held, uses>>
  PROVE  \E D \in SUBSET Conns : Leases!Retire(D)
<1>1. PICK D \in SUBSET Conns : D = {c}
  BY Ranges DEF OwnInv
<1>2. Shut(D) /\ D # {} /\ \A d \in D : tr[d] = "open"
  BY <1>1 DEF OwnInv, Live
<1>3. \A d \in Conns \ D : Keeps(d)
  BY <1>1 DEF Keeps
<1>4. Leases!Retire(D)
  BY <1>2, <1>3, RetireStep
<1>. QED BY <1>4

\* A session that closes the transport it refers to gives up its lease.
LEMMA GiveUp ==
  ASSUME OwnInv, OwnInv', NEW s \in Sessions, held[s] # NoConn, Shut({held[s]}),
         held' = [held EXCEPT ![s] = NoConn],
         Closing' = Closing, UNCHANGED <<idle, closed, wconn, uses>>
  PROVE  \E D \in SUBSET Conns : Leases!Retire(D)
<1>r. held \in [Sessions -> Conns \cup {NoConn}] /\ NoConn \notin Conns
  BY Ranges DEF OwnInv
<1>1. PICK D \in SUBSET Conns : D = {held[s]}
  BY <1>r
<1>2. Shut(D) /\ D # {} /\ \A c \in D : tr[c] = "open"
  BY <1>1 DEF OwnInv, Live
<1>3. \A c \in Conns \ D : Keeps(c)
  BY <1>1, <1>r DEF Keeps
<1>4. Leases!Retire(D)
  BY <1>2, <1>3, RetireStep
<1>. QED BY <1>4

\* Every step of a session is a step of the leases, or none.
LEMMA SessionLease ==
  ASSUME OwnInv, OwnInv', NEW s \in Sessions, SessionStep(s)
  PROVE  [Leases!Next]_leased
<1>. USE DEF poolVars, warmVars, connVars, wireVars, sesVars, relVars
<1>m. Mapped
  BY MappedHolds
<1>r. /\ held \in [Sessions -> Conns \cup {NoConn}] /\ uses \in [Sessions -> Nat]
      /\ NoConn \notin Conns
  BY Ranges DEF OwnInv
<1>h. pc[s] \in Holding <=> held[s] # NoConn
  BY DEF OwnInv, Typed, PcInv
<1>c. ASSUME UNCHANGED closeVars PROVE Closing' = Closing
  BY <1>c, SameClosing
<1>1. CASE Take(s)
  BY <1>1, TakeLease
<1>2. CASE Factory(s)
  <2>1. CASE UNCHANGED <<wireVars, held, uses>>
    BY <1>2, <2>1, SameStep DEF Factory
  <2>2. ASSUME NEW c \in Conns, Open(c), held' = [held EXCEPT ![s] = c],
               uses' = [uses EXCEPT ![s] = 1]
        PROVE  [Leases!Next]_leased
    <3>1. held[s] = NoConn /\ UNCHANGED <<idle, closed, wconn>> /\ Closing' = Closing
      BY <1>2, <1>c, <1>h DEF Factory, closeVars, Holding
    <3>2. \A d \in Conns : Lease(d) # s
      BY <1>m, <3>1, NotLeased
    <3>3. Leases!Create(c, s)
      BY <2>2, <3>1, <3>2, CreateStep
    <3>. QED BY <3>3 DEF Leases!Next
  <2>. QED BY <1>2, <2>1, <2>2 DEF Factory
<1>3. CASE \/ WriteFails(s) \/ Abort(s) \/ CloseDiscard(s) \/ (Recheck(s) /\ closed)
           \/ Refused(s)
  <2>1. /\ held[s] # NoConn /\ Shut({held[s]}) /\ held' = [held EXCEPT ![s] = NoConn]
        /\ UNCHANGED <<idle, closed, closeVars, wconn, uses>>
    BY <1>3, <1>h DEF WriteFails, Abort, CloseDiscard, Refused, RelayOver, Recheck, closeVars,
                      Holding
  <2>2. Closing' = Closing
    BY <1>c, <2>1
  <2>. QED BY <2>1, <2>2, GiveUp DEF Leases!Next
<1>4. CASE PutBack(s)
  <2>1. /\ held[s] # NoConn
        /\ UNCHANGED <<closed, wconn, tr, uses>> /\ Closing' = Closing
    BY <1>4, <1>c, <1>h DEF PutBack, closeVars, Holding
  <2>2. CASE PutOK(uses[s])
    <3>1. PICK c \in Conns, u \in Nat : c = held[s] /\ u = uses[s]
      BY <2>1, <1>r
    <3>2. /\ idle' = Added(c, u) /\ PutOK(u) /\ tr[c] = "open"
          /\ held' = [held EXCEPT ![s] = NoConn]
      BY <1>4, <2>1, <2>2, <3>1 DEF PutBack, OwnInv, Live
    <3>3. Leases!Return(c)
      BY <2>1, <3>1, <3>2, ReturnStep
    <3>. QED BY <3>3 DEF Leases!Next
  <2>3. CASE ~PutOK(uses[s])
    <3>1. UNCHANGED <<idle, held>>
      BY <1>4, <2>3 DEF PutBack
    <3>. QED BY <2>1, <3>1, SameStep
  <2>. QED BY <2>2, <2>3
<1>5. CASE \/ Arrive(s) \/ Miss(s) \/ (Recheck(s) /\ ~closed) \/ WriteConnect(s)
           \/ StartRelay(s) \/ WriteData(s) \/ CloseWrite(s) \/ ReaderStep(s) \/ CloseReset(s)
  <2>1. UNCHANGED <<idle, closed, tr, held, uses, wconn>>
    BY <1>5 DEF Arrive, Miss, Recheck, WriteConnect, StartRelay, WriteData, CloseWrite,
       ReaderStep, ReadReply, ReadPayload, ReadZero, ReadDrop, CloseReset
  <2>. QED BY <2>1, SameStep
<1>6. CASE PopClose(s)
  <2>1. /\ expired # NoConn /\ Shut({expired}) /\ expired' = NoConn
        /\ UNCHANGED <<idle, closed, doomed, wconn, held, uses>>
    BY <1>6 DEF PopClose
  <2>2. PICK c \in Closing : c = expired
    BY <2>1 DEF Closing
  <2>3. Closing' = Closing \ {c}
    BY <2>1, <2>2 DEF Closing, ConnsOf, OwnInv, Lined
  <2>. QED BY <2>1, <2>2, <2>3, ShutLease DEF Leases!Next
<1>. QED BY <1>1, <1>2, <1>3, <1>4, <1>5, <1>6 DEF SessionStep, DialStep, CloseStep

\* So is every step of Warm and of Pool.Close.
LEMMA WarmLease ==
  ASSUME OwnInv, OwnInv', WarmFactory \/ WarmPut
  PROVE  [Leases!Next]_leased
<1>. USE DEF poolVars, warmVars, connVars, wireVars, sesVars, relVars
<1>m. Mapped
  BY MappedHolds
<1>r. wconn \in Conns \cup {NoConn} /\ NoConn \notin Conns
  BY Ranges DEF OwnInv
<1>w. wconn # NoConn <=> wpc = "put"
  BY DEF OwnInv, Typed, PcInv
<1>1. CASE WarmFactory
  <2>1. UNCHANGED <<idle, closed, held, uses>> /\ wconn = NoConn /\ Closing' = Closing
    BY <1>1, <1>w, SameClosing DEF WarmFactory, closeVars
  <2>2. CASE UNCHANGED <<tr, wconn>>
    BY <2>1, <2>2, SameStep
  <2>3. ASSUME NEW c \in Conns, Open(c), wconn' = c PROVE [Leases!Next]_leased
    <3>1. \A d \in Conns : Lease(d) # "warmer"
      BY <1>m, <2>1, NotWarming
    <3>2. "warmer" \notin Sessions
      BY LeaseAssumption DEF LeaseAssumption
    <3>3. Leases!Create(c, "warmer")
      BY <2>1, <2>3, <3>1, <3>2, CreateStep
    <3>. QED BY <3>3 DEF Leases!Next
  <2>. QED BY <1>1, <2>2, <2>3 DEF WarmFactory
<1>2. CASE WarmPut
  <2>1. PICK c \in Conns : c = wconn
    BY <1>2, <1>w, <1>r DEF WarmPut
  <2>2. /\ wconn' = NoConn /\ UNCHANGED <<closed, held, uses>> /\ tr[c] = "open"
        /\ Closing' = Closing
    BY <1>2, <2>1, <1>r, SameClosing DEF WarmPut, OwnInv, Live, closeVars
  <2>3. CASE PutOK(0)
    <3>1. idle' = Added(c, 0) /\ UNCHANGED tr
      BY <1>2, <2>1, <2>3 DEF WarmPut
    <3>2. Leases!Return(c)
      BY <2>1, <2>2, <2>3, <3>1, ReturnStep
    <3>. QED BY <3>2 DEF Leases!Next
  <2>4. CASE ~PutOK(0)
    <3>1. PICK D \in SUBSET Conns : D = {c}
      OBVIOUS
    <3>2. Shut(D) /\ UNCHANGED idle
      BY <1>2, <2>1, <2>4, <3>1 DEF WarmPut
    <3>3. D # {} /\ (\A d \in D : tr[d] = "open") /\ \A d \in Conns \ D : Keeps(d)
      BY <2>1, <2>2, <3>1, <3>2 DEF Keeps
    <3>4. Leases!Retire(D)
      BY <2>2, <3>2, <3>3, RetireStep
    <3>. QED BY <3>4 DEF Leases!Next
  <2>. QED BY <2>3, <2>4
<1>. QED BY <1>1, <1>2

LEMMA CloseLease ==
  ASSUME OwnInv, OwnInv', PoolClose \/ PoolShut
  PROVE  [Leases!Next]_leased
<1>. USE DEF poolVars, warmVars, connVars, wireVars, sesVars, relVars
<1>m. Mapped /\ Mapped'
  BY MappedHolds, MappedNext
<1>1. CASE PoolClose
  <2>1. /\ ~closed /\ closed' = TRUE /\ idle' = <<>> /\ doomed' = idle /\ doomed = <<>>
        /\ expired = NoConn /\ UNCHANGED <<expired, wconn, tr, held, uses>>
    BY <1>1 DEF PoolClose, OwnInv, ClosedPoolEmpty, Lined
  <2>c. Closing = {} /\ \A c : c \in Closing' <=> \E i \in DOMAIN idle : At(i) = c
    BY <2>1 DEF Closing, ConnsOf, At
  <2>2. \A c \in Conns : c \in Closing' <=> Lease(c) = "free"
    BY <1>m, <2>c, FreeIdle
  <2>3. \A c \in Conns : Lease(c) = "free" => Lease(c)' = "closer" /\ Served(c)' = 0
    BY <1>m, <2>2 DEF Mapped
  <2>4. \A c \in Conns : Lease(c) # "free" => Lease(c)' = Lease(c) /\ Served(c)' = Served(c)
    <3>. SUFFICES ASSUME NEW c \in Conns, Lease(c) # "free"
                  PROVE  Lease(c)' = Lease(c) /\ Served(c)' = Served(c)
      OBVIOUS
    <3>1. \A i \in DOMAIN idle : At(i) # c
      BY <1>m, FreeIdle
    <3>2. Keeps(c) /\ tr'[c] = tr[c]
      BY <2>1, <2>c, <3>1 DEF Keeps
    <3>. QED BY <1>m, <3>2, Stays
  <2>5. \A c \in Conns : c \in Leases!Free <=> Lease(c) = "free"
    BY DEF Leases!Free
  <2>6. Lent' = [c \in Conns |-> IF c \in Leases!Free THEN "closer" ELSE Lent[c]]
    BY <2>3, <2>4, <2>5 DEF Lent
  <2>7. Times' = [c \in Conns |-> IF c \in Leases!Free THEN 0 ELSE Times[c]]
    BY <2>3, <2>4, <2>5 DEF Times
  <2>8. Leases!Shut
    BY <2>1, <2>6, <2>7 DEF Leases!Shut, Lent, Times
  <2>. QED BY <2>8 DEF Leases!Next
<1>2. CASE PoolShut
  <2>1. /\ doomed # <<>> /\ Shut({doomed[1].conn}) /\ doomed' = Tail(doomed)
        /\ UNCHANGED <<idle, closed, expired, wconn, held, uses>>
    BY <1>2 DEF PoolShut
  <2>2. doomed \in Seq(IdleEntry)
    BY Ranges DEF OwnInv
  <2>3. PICK c \in Closing : c = doomed[1].conn /\ Closing' = Closing \ {c}
    BY <2>1, <2>2, HeadClosing DEF OwnInv
  <2>. QED BY <2>1, <2>3, ShutLease DEF Leases!Next
<1>. QED BY <1>1, <1>2

LEMMA NextLease == OwnInv /\ [Next]_vars => [Leases!Next]_leased
<1>. SUFFICES ASSUME OwnInv, [Next]_vars PROVE [Leases!Next]_leased OBVIOUS
<1>0. OwnInv'
  BY NextOwn
<1>1. ASSUME NEW s \in Sessions, SessionStep(s) PROVE [Leases!Next]_leased
  BY <1>0, <1>1, SessionLease
<1>2. CASE WarmFactory \/ WarmPut
  BY <1>0, <1>2, WarmLease
<1>3. CASE PoolClose \/ PoolShut
  BY <1>0, <1>3, CloseLease
<1>4. CASE Tick \/ AllDone \/ UNCHANGED vars
  <2>1. UNCHANGED <<idle, closed, tr, held, uses, wconn>>
    BY <1>4 DEF Tick, AllDone, vars, poolVars, warmVars, wireVars, sesVars
  <2>. QED BY <2>1, SameStep
<1>5. ASSUME NEW c \in Conns, ServerStep(c) PROVE [Leases!Next]_leased
  <2>1. UNCHANGED <<idle, closed, tr, held, uses, wconn>>
    BY <1>5 DEF ServerStep, SrvReceive, SrvSend, SrvNext, Drop, Stall, SrvOnly,
       poolVars, warmVars, wireVars, sesVars
  <2>. QED BY <2>1, SameStep
<1>. QED BY <1>1, <1>2, <1>3, <1>4, <1>5 DEF Next

\* The pool implements its promise: whatever the order of take, put, Warm and
\* Pool.Close, a transport is leased to one user at a time, to at most poolMaxUses
\* sessions, and not again once the pool is closed (pool.go pop, put, take, Close).
THEOREM PoolImplements == Spec => ImplementsLeases
<1>1. Init => Leases!Init
  <2>. SUFFICES ASSUME Init PROVE Leases!Init OBVIOUS
  <2>1. OwnInv /\ Mapped
    BY InitOwn, MappedHolds
  <2>2. \A c \in Conns : Lease(c) = "unborn" /\ Served(c) = 0
    BY <2>1 DEF Init, Mapped
  <2>. QED BY <2>2 DEF Init, Leases!Init
<1>2. OwnInv /\ [Next]_vars => [Leases!Next]_(Leases!vars)
  BY NextLease DEF Leases!vars, leased, Lent, Times
<1>. QED BY <1>1, <1>2, PoolInvariant, PTL DEF Spec, ImplementsLeases, Leases!Spec

-----------------------------------------------------------------------------
(* The inductive invariant.  It relates, on each open transport, the       *)
(* frames still on their way to the server, what the server has seen of    *)
(* them, the frames on their way back, the fields of snell.Conn and where  *)
(* the session using the transport stands.                                 *)

\* The session has written its CONNECT on c and not yet given c back, and can
\* still write on it, or runs its relay there.
Serving(s, c) == s \in Sessions /\ held[s] = c /\ pc[s] \in {"ready", "relay"}
Writes(s, c)  == Serving(s, c) /\ (pc[s] = "ready" \/ wr[s] = "run")
Relays(s, c)  == Serving(s, c) /\ pc[s] = "relay"

ConnectAt(c, i) == up[c][i].kind = "connect"
ZeroAt(c, i)    == down[c][i].kind = "zero"

\* Nothing but zero chunks on the way to the client; the server has ended its
\* direction of the last session it saw.
Quiet(c)    == \A i \in DOMAIN down[c] : ZeroAt(c, i)
Finished(c) == srv[c].ses = NoSession \/ srv[c].fin

\* Where the server will stand once it has received everything in flight: in an
\* upstream that is still open, and in whose.
UpSes(c)  == IF up[c] = <<>> THEN srv[c].ses ELSE up[c][Len(up[c])].ses
UpOpen(c) == IF up[c] = <<>> THEN srv[c].ses # NoSession /\ ~srv[c].cfin
                             ELSE up[c][Len(up[c])].kind # "zero"

\* The frames to the server: the rest of one session up to its zero chunk, and at
\* most one CONNECT after it, which waits for a server that has finished.
Framed(c) ==
  /\ \A i, j \in DOMAIN up[c] : ConnectAt(c, i) /\ ConnectAt(c, j) => i = j
  /\ \A i \in DOMAIN up[c] : i > 1 =>
       IF ConnectAt(c, i) THEN up[c][i - 1].kind = "zero"
       ELSE up[c][i - 1].kind # "zero" /\ up[c][i].ses = up[c][i - 1].ses
  /\ \A i \in DOMAIN up[c] : ConnectAt(c, i) /\ i > 1 =>
       srv[c].ses # NoSession /\ srv[c].fin /\ ~srv[c].cfin
  /\ up[c] # <<>> =>
       IF ConnectAt(c, 1) THEN srv[c].ses = NoSession \/ (srv[c].fin /\ srv[c].cfin)
       ELSE up[c][1].ses = srv[c].ses /\ ~srv[c].cfin
\* A CONNECT in flight is that of the session in charge, which has read nothing yet.
Asked(c) == \A i \in DOMAIN up[c] : ConnectAt(c, i) =>
  Serving(up[c][i].ses, c) /\ Quiet(c) /\ ~reply[c]
\* The upstream is open exactly for the session that can still write.
Owned(c) == ~dropped[c] =>
  \A s \in Sessions : UpOpen(c) /\ UpSes(c) = s <=> Writes(s, c)
\* The server works for the session in charge, and answers before anything else.
Answers(c) ==
  /\ ~Finished(c) => Serving(srv[c].ses, c)
  /\ srv[c].ses # NoSession /\ ~srv[c].replied => Quiet(c)

\* From position i of the way down on: a zero chunk is followed by zero chunks only,
\* and the server had finished when it sent it.
LastZero(c, i) == \A j \in DOMAIN down[c] : i < j /\ ZeroAt(c, j) =>
  Finished(c) /\ \A k \in DOMAIN down[c] : j < k => ZeroAt(c, k)
Delivered(c) == \A i \in DOMAIN down[c] : ~ZeroAt(c, i) =>
  Serving(down[c][i].ses, c) /\ LastZero(c, i)
\* The reply was read, so the server has answered the session whose relay runs; the
\* peer's zero chunk was read, so nothing of the session is left.
Replied(c) ==
  /\ reply[c] => /\ srv[c].ses = NoSession \/ srv[c].replied
                 /\ \E s \in Sessions : Relays(s, c)
                 /\ LastZero(c, 0)
  /\ peerClosed[c] => reply[c] /\ Quiet(c) /\ Finished(c)

WireOK(c) == Framed(c) /\ Asked(c) /\ Owned(c) /\ Answers(c) /\ Delivered(c) /\ Replied(c)
Fresh(c) == /\ up[c] = <<>> /\ down[c] = <<>> /\ srv[c] = IdleSrv
            /\ ~reply[c] /\ ~peerClosed[c]

WireInv == \A c \in Conns : /\ tr[c] = "open" => WireOK(c)
                            /\ tr[c] = "unborn" => Fresh(c)

PoolInv == OwnInv /\ WireInv

-----------------------------------------------------------------------------
\* What Append and Tail do to a queue.
LEMMA QueueAppend ==
  ASSUME NEW S, NEW q \in Seq(S), NEW e \in S
  PROVE  /\ Append(q, e) \in Seq(S) /\ Append(q, e) # <<>>
         /\ Len(Append(q, e)) = Len(q) + 1
         /\ DOMAIN Append(q, e) = 1..(Len(q) + 1)
         /\ \A i \in DOMAIN q : Append(q, e)[i] = q[i]
         /\ Append(q, e)[Len(q) + 1] = e
OBVIOUS

LEMMA QueueTail ==
  ASSUME NEW S, NEW q \in Seq(S), q # <<>>
  PROVE  /\ Tail(q) \in Seq(S) /\ Len(Tail(q)) = Len(q) - 1 /\ Len(q) \in Nat \ {0}
         /\ DOMAIN Tail(q) = 1..(Len(q) - 1) /\ DOMAIN q = 1..Len(q)
         /\ \A i \in DOMAIN Tail(q) : i + 1 \in DOMAIN q /\ Tail(q)[i] = q[i + 1]
         /\ \A i \in DOMAIN q : i > 1 => i - 1 \in DOMAIN Tail(q)
         /\ Head(q) = q[1] /\ 1 \in DOMAIN q /\ Head(q) \in S
OBVIOUS

\* The ranges of the wire, of snell.Conn and of the sessions, for one transport.
LEMMA WireRanges ==
  ASSUME Typed
  PROVE  /\ up \in [Conns -> Seq(Frame)] /\ down \in [Conns -> Seq(Frame)]
         /\ srv \in [Conns -> SrvState]
         /\ tr \in [Conns -> {"unborn", "open", "closed"}]
         /\ reply \in [Conns -> BOOLEAN] /\ peerClosed \in [Conns -> BOOLEAN]
         /\ dropped \in [Conns -> BOOLEAN]
         /\ pc \in [Sessions -> {"new", "take", "miss", "dial", "recheck", "write",
                         "ready", "relay", "put", "shut", "closed", "failed"}]
         /\ held \in [Sessions -> Conns \cup {NoConn}]
         /\ rd \in [Sessions -> {"off", "run", "done"}]
         /\ wr \in [Sessions -> {"off", "run", "closed", "err"}]
         /\ got \in [Sessions -> SUBSET Sessions]
         /\ NoConn \notin Conns /\ NoSession \notin Sessions
BY PoolAssumption DEF PoolAssumption, Typed, TypeOK, WireTypeOK, ConnTypeOK, SesTypeOK

\* A transport nobody touches keeps its invariant while its user stays where it is, or
\* a user comes to it, and when the stream under it breaks.
LEMMA WireFrame ==
  ASSUME NEW c \in Conns, WireOK(c),
         up'[c] = up[c], down'[c] = down[c], srv'[c] = srv[c],
         reply'[c] = reply[c], peerClosed'[c] = peerClosed[c],
         dropped[c] => dropped'[c],
         \A s : /\ Serving(s, c) => Serving(s, c)'
                /\ Relays(s, c) => Relays(s, c)'
                /\ dropped'[c] \/ (Writes(s, c)' <=> Writes(s, c))
  PROVE  WireOK(c)'
<1>1. Framed(c)'
  BY DEF WireOK, Framed, ConnectAt
<1>2. /\ Quiet(c)' <=> Quiet(c)
      /\ Finished(c)' <=> Finished(c)
      /\ \A i : ZeroAt(c, i)' <=> ZeroAt(c, i)
      /\ \A i : ConnectAt(c, i)' <=> ConnectAt(c, i)
  BY DEF Quiet, Finished, ZeroAt, ConnectAt
<1>3. \A i : LastZero(c, i)' <=> LastZero(c, i)
  BY <1>2 DEF LastZero
<1>4. Asked(c)'
  BY <1>2 DEF WireOK, Asked
<1>5. Owned(c)'
  BY DEF WireOK, Owned, UpOpen, UpSes
<1>6. Answers(c)'
  BY <1>2 DEF WireOK, Answers
<1>7. Delivered(c)'
  BY <1>2, <1>3 DEF WireOK, Delivered
<1>8. Replied(c)'
  BY <1>2, <1>3 DEF WireOK, Replied
<1>. QED BY <1>1, <1>4, <1>5, <1>6, <1>7, <1>8 DEF WireOK

-----------------------------------------------------------------------------
(* The server: it takes the frames from the front and adds to the way back *)

\* Where the sessions stand is not the server's to change.
LEMMA SameSessions ==
  ASSUME UNCHANGED <<held, pc, wr>>
  PROVE  \A s, c : /\ Serving(s, c)' <=> Serving(s, c)
                   /\ Writes(s, c)' <=> Writes(s, c)
                   /\ Relays(s, c)' <=> Relays(s, c)
BY DEF Serving, Writes, Relays

\* The server receives the frame at the head of the queue.
LEMMA ReceiveWire ==
  ASSUME Typed, NEW c \in Conns, WireOK(c), SrvReceive(c)
  PROVE  WireOK(c)'
<1>r. /\ up[c] \in Seq(Frame) /\ up \in [Conns -> Seq(Frame)]
      /\ srv[c] \in SrvState /\ srv \in [Conns -> SrvState] /\ NoSession \notin Sessions
  BY WireRanges
<1>1. /\ up[c] # <<>> /\ up'[c] = Tail(up[c])
      /\ UNCHANGED <<down, reply, peerClosed, dropped, held, pc, wr>>
  BY <1>r DEF SrvReceive, SrvOnly, connVars, sesVars, relVars
<1>2. /\ Len(up[c]) \in Nat \ {0} /\ Len(up'[c]) = Len(up[c]) - 1
      /\ DOMAIN up'[c] = 1..(Len(up[c]) - 1) /\ DOMAIN up[c] = 1..Len(up[c])
      /\ \A i \in DOMAIN up'[c] : i + 1 \in DOMAIN up[c] /\ up'[c][i] = up[c][i + 1]
      /\ up'[c] \in Seq(Frame) /\ 1 \in DOMAIN up[c]
      /\ Head(up[c]) = up[c][1] /\ up[c][1] \in Frame
  BY <1>1, <1>r, QueueTail
<1>3. \A i \in DOMAIN up'[c] : ConnectAt(c, i)' <=> ConnectAt(c, i + 1)
  BY <1>2 DEF ConnectAt
<1>4. Framed(c) /\ Asked(c) /\ Owned(c) /\ Answers(c) /\ Delivered(c) /\ Replied(c)
  BY DEF WireOK
<1>s. \A s : /\ Serving(s, c)' <=> Serving(s, c)
             /\ Writes(s, c)' <=> Writes(s, c)
             /\ Relays(s, c)' <=> Relays(s, c)
  BY <1>1, SameSessions
<1>q. /\ Quiet(c)' <=> Quiet(c)
      /\ \A i : ZeroAt(c, i)' <=> ZeroAt(c, i)
  BY <1>1 DEF Quiet, ZeroAt
<1>5. \/ /\ ConnectAt(c, 1) /\ srv[c].ses = NoSession
         /\ srv'[c] = [IdleSrv EXCEPT !.ses = up[c][1].ses]
      \/ up[c][1].kind = "zero" /\ srv'[c] = [srv[c] EXCEPT !.cfin = TRUE]
      \/ up[c][1].kind = "data" /\ srv'[c] = srv[c]
  BY <1>1, <1>2, <1>r DEF SrvReceive, ConnectAt
<1>6. \/ /\ ConnectAt(c, 1) /\ up[c][1].kind = "connect" /\ srv'[c].ses = up[c][1].ses
         /\ ~srv'[c].cfin /\ ~srv'[c].fin /\ ~srv'[c].replied
      \/ /\ up[c][1].kind \in {"zero", "data"} /\ ~ConnectAt(c, 1)
         /\ srv'[c].ses = srv[c].ses /\ srv'[c].fin = srv[c].fin
         /\ srv'[c].replied = srv[c].replied
         /\ srv'[c].cfin = (IF up[c][1].kind = "zero" THEN TRUE ELSE srv[c].cfin)
  BY <1>5, <1>r DEF ConnectAt, IdleSrv, SrvState
<1>7. up[c][1].ses \in Sessions
  BY <1>2 DEF Frame
<1>a. Asked(c)'
  BY <1>1, <1>2, <1>3, <1>4, <1>q, <1>s DEF Asked
\* What is left of the queue is framed, for a server that has taken its head.
<1>b. Framed(c)'
  <2>1. \A i, j \in DOMAIN up'[c] : ConnectAt(c, i)' /\ ConnectAt(c, j)' => i = j
    BY <1>2, <1>3, <1>4 DEF Framed
  <2>2. ASSUME NEW i \in DOMAIN up'[c], i > 1
        PROVE  IF ConnectAt(c, i)' THEN up'[c][i - 1].kind = "zero"
               ELSE up'[c][i - 1].kind # "zero" /\ up'[c][i].ses = up'[c][i - 1].ses
    <3>1. /\ i \in Nat /\ i + 1 \in DOMAIN up[c] /\ i - 1 \in DOMAIN up'[c]
          /\ (i + 1) - 1 = i /\ (i - 1) + 1 = i /\ i + 1 > 1
      BY <2>2, <1>2
    <3>2. up'[c][i] = up[c][i + 1] /\ up'[c][i - 1] = up[c][i]
      BY <3>1, <1>2
    <3>. QED BY <3>1, <3>2, <1>3, <1>4 DEF Framed
  <2>3. ASSUME NEW i \in DOMAIN up'[c], i > 1, ConnectAt(c, i)'
        PROVE  /\ ~ConnectAt(c, 1) /\ up[c][1].kind # "zero"
               /\ srv[c].ses # NoSession /\ srv[c].fin /\ ~srv[c].cfin
    <3>1. /\ i \in Nat /\ i + 1 \in DOMAIN up[c] /\ i + 1 > 1 /\ i + 1 # 1 /\ i + 1 # 2
          /\ 2 \in DOMAIN up[c] /\ 2 - 1 = 1 /\ 2 > 1
      BY <2>3, <1>2
    <3>2. ConnectAt(c, i + 1) BY <2>3, <1>3
    <3>3. ~ConnectAt(c, 1) /\ ~ConnectAt(c, 2)
      BY <3>1, <3>2, <1>2, <1>4 DEF Framed
    <3>4. up[c][1].kind # "zero"
      BY <3>1, <3>3, <1>4 DEF Framed
    <3>. QED BY <3>1, <3>2, <3>3, <3>4, <1>4 DEF Framed
  <2>4. ASSUME up'[c] # <<>>
        PROVE  IF ConnectAt(c, 1)' THEN srv'[c].ses = NoSession \/ (srv'[c].fin /\ srv'[c].cfin)
               ELSE up'[c][1].ses = srv'[c].ses /\ ~srv'[c].cfin
    <3>1. /\ 1 \in DOMAIN up'[c] /\ 2 \in DOMAIN up[c] /\ 1 + 1 = 2 /\ 2 - 1 = 1 /\ 2 > 1
          /\ up'[c][1] = up[c][2]
      BY <2>4, <1>2
    <3>2. ConnectAt(c, 1)' <=> ConnectAt(c, 2)
      BY <3>1, <1>3
    <3>3. CASE ConnectAt(c, 2)
      <4>1. up[c][1].kind = "zero" /\ srv[c].fin
        BY <3>1, <3>3, <1>4 DEF Framed
      <4>. QED BY <4>1, <3>2, <3>3, <1>6
    <3>4. CASE ~ConnectAt(c, 2)
      <4>1. up[c][1].kind # "zero" /\ up[c][2].ses = up[c][1].ses
        BY <3>1, <3>4, <1>4 DEF Framed
      <4>2. ~ConnectAt(c, 1) => up[c][1].ses = srv[c].ses /\ ~srv[c].cfin
        BY <1>1, <1>4 DEF Framed
      <4>. QED BY <4>1, <4>2, <3>1, <3>2, <3>4, <1>6
    <3>. QED BY <3>3, <3>4
  <2>5. \A i \in DOMAIN up'[c] : ConnectAt(c, i)' /\ i > 1 =>
          srv'[c].ses # NoSession /\ srv'[c].fin /\ ~srv'[c].cfin
    BY <2>3, <1>6
  <2>. QED BY <2>1, <2>2, <2>4, <2>5 DEF Framed
\* Taking the head does not change where the server will stand in the end.
<1>c. Owned(c)'
  <2>1. (UpOpen(c)' <=> UpOpen(c)) /\ (UpOpen(c) => UpSes(c)' = UpSes(c))
    <3>1. CASE up'[c] # <<>>
      <4>1. up'[c][Len(up'[c])] = up[c][Len(up[c])]
        BY <3>1, <1>2
      <4>. QED BY <4>1, <3>1, <1>1 DEF UpOpen, UpSes
    <3>2. CASE up'[c] = <<>>
      <4>1. Len(up[c]) = 1
        BY <3>2, <1>2
      <4>2. UpOpen(c) <=> up[c][1].kind # "zero"
        BY <4>1, <1>1 DEF UpOpen
      <4>3. UpSes(c) = up[c][1].ses
        BY <4>1, <1>1 DEF UpSes
      <4>4. UpOpen(c)' <=> srv'[c].ses # NoSession /\ ~srv'[c].cfin
        BY <3>2 DEF UpOpen
      <4>5. UpSes(c)' = srv'[c].ses
        BY <3>2 DEF UpSes
      <4>6. ~ConnectAt(c, 1) => up[c][1].ses = srv[c].ses /\ ~srv[c].cfin
        BY <1>1, <1>4 DEF Framed
      <4>. QED BY <4>2, <4>3, <4>4, <4>5, <4>6, <1>6, <1>7, <1>r
    <3>. QED BY <3>1, <3>2
  <2>. QED BY <2>1, <1>1, <1>4, <1>s DEF Owned
<1>f. ConnectAt(c, 1) => Serving(up[c][1].ses, c) /\ Quiet(c) /\ ~reply[c]
  BY <1>2, <1>4 DEF Asked
<1>g. ~ConnectAt(c, 1) => (Finished(c)' <=> Finished(c))
  BY <1>6 DEF Finished
<1>d. Answers(c)'
  BY <1>6, <1>f, <1>g, <1>q, <1>s, <1>4 DEF Answers, Finished
<1>e. Delivered(c)' /\ Replied(c)'
  <2>1. CASE ConnectAt(c, 1)
    BY <2>1, <1>f, <1>q, <1>1, <1>4 DEF Delivered, Replied, Quiet
  <2>2. CASE ~ConnectAt(c, 1)
    <3>1. \A i : LastZero(c, i)' <=> LastZero(c, i)
      BY <2>2, <1>1, <1>g, <1>q DEF LastZero
    <3>2. Delivered(c)'
      BY <3>1, <1>1, <1>4, <1>q, <1>s DEF Delivered
    <3>3. Replied(c)'
      BY <2>2, <3>1, <1>1, <1>6, <1>g, <1>4, <1>q, <1>s DEF Replied
    <3>. QED BY <3>2, <3>3
  <2>. QED BY <2>1, <2>2
<1>. QED BY <1>a, <1>b, <1>c, <1>d, <1>e DEF WireOK

\* The server answers, sends payload or ends its direction.
LEMMA SendWire ==
  ASSUME Typed, NEW c \in Conns, WireOK(c), SrvSend(c)
  PROVE  WireOK(c)'
<1>r. /\ down[c] \in Seq(Frame) /\ down \in [Conns -> Seq(Frame)]
      /\ srv[c] \in SrvState /\ srv \in [Conns -> SrvState] /\ NoSession \notin Sessions
      /\ DOMAIN down[c] = 1..Len(down[c]) /\ Len(down[c]) \in Nat
  BY WireRanges
<1>v. srv[c].ses # NoSession /\ ~srv[c].fin /\ srv[c].ses \in Sessions
  BY <1>r DEF SrvSend, SrvState
<1>1. PICK k \in {"reply", "error", "data", "zero"} :
        /\ down'[c] = Append(down[c], F(k, srv[c].ses))
        /\ k \in {"reply", "error"} <=> ~srv[c].replied
        /\ srv'[c].ses = srv[c].ses /\ srv'[c].cfin = srv[c].cfin /\ srv'[c].replied
        /\ srv'[c].fin <=> k = "zero"
  <2>1. CASE ~srv[c].replied
    <3>1. PICK k \in {"reply", "error"} :
            down' = [down EXCEPT ![c] = Append(@, F(k, srv[c].ses))]
      BY <2>1 DEF SrvSend
    <3>2. srv' = [srv EXCEPT ![c].replied = TRUE]
      BY <2>1 DEF SrvSend
    <3>3. /\ down'[c] = Append(down[c], F(k, srv[c].ses))
          /\ srv'[c].ses = srv[c].ses /\ srv'[c].cfin = srv[c].cfin /\ srv'[c].replied
          /\ srv'[c].fin = srv[c].fin /\ k # "zero"
      BY <3>1, <3>2, <1>r DEF SrvState
    <3>. QED BY <3>3, <2>1, <1>v
  <2>2. CASE srv[c].replied
    <3>1. CASE /\ down' = [down EXCEPT ![c] = Append(@, F("data", srv[c].ses))]
               /\ UNCHANGED srv
      <4>1. down'[c] = Append(down[c], F("data", srv[c].ses)) /\ srv'[c] = srv[c]
        BY <3>1, <1>r
      <4>. QED BY <4>1, <2>2, <1>v
    <3>2. CASE /\ down' = [down EXCEPT ![c] = Append(@, F("zero", srv[c].ses))]
               /\ srv' = [srv EXCEPT ![c].fin = TRUE]
      <4>1. /\ down'[c] = Append(down[c], F("zero", srv[c].ses))
            /\ srv'[c].ses = srv[c].ses /\ srv'[c].cfin = srv[c].cfin
            /\ srv'[c].replied = srv[c].replied /\ srv'[c].fin
        BY <3>2, <1>r DEF SrvState
      <4>. QED BY <4>1, <2>2
    <3>. QED BY <2>2, <3>1, <3>2 DEF SrvSend
  <2>. QED BY <2>1, <2>2
<1>2. UNCHANGED <<up, reply, peerClosed, dropped, held, pc, wr>>
  BY DEF SrvSend, SrvOnly, connVars, sesVars, relVars
<1>f. F(k, srv[c].ses) \in Frame /\ F(k, srv[c].ses).kind = k
      /\ F(k, srv[c].ses).ses = srv[c].ses
  BY <1>v DEF F, Frame
<1>n. PICK n \in Nat : n = Len(down[c]) + 1
  BY <1>r
<1>3. /\ DOMAIN down'[c] = 1..n
      /\ \A i \in DOMAIN down[c] : i \in DOMAIN down'[c] /\ down'[c][i] = down[c][i] /\ i < n
      /\ down'[c][n].kind = k /\ down'[c][n].ses = srv[c].ses
      /\ \A i \in DOMAIN down'[c] : i \in DOMAIN down[c] \/ i = n
  BY <1>1, <1>r, <1>f, <1>n, QueueAppend
<1>4. Framed(c) /\ Asked(c) /\ Owned(c) /\ Answers(c) /\ Delivered(c) /\ Replied(c)
  BY DEF WireOK
<1>s. \A s : /\ Serving(s, c)' <=> Serving(s, c)
             /\ Writes(s, c)' <=> Writes(s, c)
             /\ Relays(s, c)' <=> Relays(s, c)
  BY <1>2, SameSessions
<1>5. ~Finished(c) /\ Serving(srv[c].ses, c)
  BY <1>v, <1>4 DEF Finished, Answers
<1>6. /\ \A i \in DOMAIN up[c] : ~ConnectAt(c, i)
      /\ up[c] # <<>> => ~ConnectAt(c, 1)
  <2>1. up[c] \in Seq(Frame) BY WireRanges
  <2>2. /\ \A i \in DOMAIN up[c] : (i = 1 \/ i > 1) /\ up[c] # <<>>
        /\ up[c] # <<>> => 1 \in DOMAIN up[c]
    BY <2>1
  <2>. QED BY <2>2, <1>v, <1>4 DEF Framed
<1>7. \A i : ConnectAt(c, i)' <=> ConnectAt(c, i)
  BY <1>2 DEF ConnectAt
<1>z. /\ \A i \in DOMAIN down[c] : ZeroAt(c, i)' <=> ZeroAt(c, i)
      /\ ZeroAt(c, n)' <=> k = "zero"
  BY <1>3 DEF ZeroAt
<1>a. Framed(c)'
  BY <1>1, <1>2, <1>4, <1>6, <1>7 DEF Framed
<1>b. Asked(c)'
  BY <1>2, <1>6, <1>7 DEF Asked
<1>c. Owned(c)'
  BY <1>1, <1>2, <1>4, <1>s DEF Owned, UpOpen, UpSes
<1>d. Answers(c)'
  BY <1>1, <1>5, <1>s DEF Answers
\* A zero chunk the server has sent before could only be the end of an earlier
\* session, and then nothing of this one precedes it.
<1>8. ASSUME NEW i, LastZero(c, i) \/ n <= i, i \in Nat
      PROVE  LastZero(c, i)'
  <2>1. ASSUME NEW j \in DOMAIN down'[c], i < j, ZeroAt(c, j)'
        PROVE  j = n /\ k = "zero"
    BY <2>1, <1>8, <1>3, <1>5, <1>z, <1>r, <1>n DEF LastZero
  <2>2. k = "zero" => Finished(c)'
    BY <1>1 DEF Finished
  <2>3. \A m \in DOMAIN down'[c] : ~(n < m)
    BY <1>3
  <2>. QED BY <2>1, <2>2, <2>3 DEF LastZero
<1>e. Delivered(c)'
  <2>1. ASSUME NEW i \in DOMAIN down'[c], ~ZeroAt(c, i)'
        PROVE  Serving(down[c][i].ses, c)' /\ LastZero(c, i)'
    <3>1. CASE i = n
      BY <3>1, <1>2, <1>3, <1>5, <1>8 DEF Serving
    <3>2. CASE i \in DOMAIN down[c]
      <4>1. Serving(down[c][i].ses, c) /\ LastZero(c, i) /\ i \in Nat
        BY <3>2, <2>1, <1>z, <1>4, <1>r DEF Delivered
      <4>. QED BY <4>1, <3>2, <1>2, <1>3, <1>8 DEF Serving
    <3>. QED BY <3>1, <3>2, <1>3
  <2>. QED BY <2>1 DEF Delivered
<1>g. Replied(c)'
  <2>1. ~peerClosed[c]
    BY <1>5, <1>4 DEF Replied
  <2>2. reply[c] => LastZero(c, 0)'
    BY <1>4, <1>8 DEF Replied
  <2>. QED BY <2>1, <2>2, <1>1, <1>2, <1>4, <1>s DEF Replied
<1>. QED BY <1>a, <1>b, <1>c, <1>d, <1>e, <1>g DEF WireOK

\* The server is done with a session, and may repeat its zero chunk.
LEMMA NextWire ==
  ASSUME Typed, NEW c \in Conns, WireOK(c), SrvNext(c)
  PROVE  WireOK(c)'
<1>r. /\ down[c] \in Seq(Frame) /\ down \in [Conns -> Seq(Frame)]
      /\ srv \in [Conns -> SrvState] /\ srv[c] \in SrvState
      /\ DOMAIN down[c] = 1..Len(down[c]) /\ Len(down[c]) \in Nat
      /\ up[c] \in Seq(Frame) /\ NoSession \notin Sessions
  BY WireRanges
<1>1. /\ srv[c].ses # NoSession /\ srv[c].fin /\ srv[c].cfin
      /\ srv'[c].ses = NoSession /\ ~srv'[c].fin /\ ~srv'[c].cfin
      /\ UNCHANGED <<up, reply, peerClosed, dropped, held, pc, wr>>
  BY <1>r DEF SrvNext, SrvOnly, connVars, sesVars, relVars, IdleSrv
<1>2. \/ down'[c] = down[c]
      \/ down'[c] = Append(down[c], F("zero", srv[c].ses))
  BY <1>r DEF SrvNext
<1>f. F("zero", srv[c].ses) \in Frame /\ F("zero", srv[c].ses).kind = "zero"
  BY <1>1, <1>r DEF F, Frame, SrvState
<1>n. PICK n \in Nat : n = Len(down[c]) + 1
  BY <1>r
<1>3. /\ \A i \in DOMAIN down[c] : i \in DOMAIN down'[c] /\ down'[c][i] = down[c][i] /\ i < n
      /\ \A i \in DOMAIN down'[c] : i \in DOMAIN down[c] \/ (i = n /\ down'[c][n].kind = "zero")
  <2>1. CASE down'[c] = down[c]
    BY <2>1, <1>r, <1>n
  <2>2. CASE down'[c] = Append(down[c], F("zero", srv[c].ses))
    BY <2>2, <1>r, <1>f, <1>n, QueueAppend
  <2>. QED BY <1>2, <2>1, <2>2
<1>4. Framed(c) /\ Asked(c) /\ Owned(c) /\ Answers(c) /\ Delivered(c) /\ Replied(c)
  BY DEF WireOK
<1>s. \A s : /\ Serving(s, c)' <=> Serving(s, c)
             /\ Writes(s, c)' <=> Writes(s, c)
             /\ Relays(s, c)' <=> Relays(s, c)
  BY <1>1, SameSessions
<1>5. \A i : ConnectAt(c, i)' <=> ConnectAt(c, i)
  BY <1>1 DEF ConnectAt
<1>z. /\ \A i \in DOMAIN down[c] : ZeroAt(c, i)' <=> ZeroAt(c, i)
      /\ \A i \in DOMAIN down'[c] : i \in DOMAIN down[c] \/ (i = n /\ ZeroAt(c, i)')
      /\ Quiet(c) => Quiet(c)'
  BY <1>3 DEF ZeroAt, Quiet
<1>g. Finished(c)' /\ Finished(c)
  BY <1>1 DEF Finished
<1>a. Framed(c)'
  <2>1. up[c] # <<>> => ConnectAt(c, 1)
    BY <1>1, <1>4 DEF Framed
  <2>2. \A i \in DOMAIN up[c] : ConnectAt(c, i) => ~(i > 1)
    BY <1>1, <1>4 DEF Framed
  <2>. QED BY <2>1, <2>2, <1>1, <1>4, <1>5 DEF Framed
<1>b. Asked(c)'
  BY <1>1, <1>4, <1>5, <1>s, <1>z DEF Asked
<1>c. Owned(c)'
  <2>1. (UpOpen(c)' <=> UpOpen(c)) /\ (UpOpen(c) => UpSes(c)' = UpSes(c))
    BY <1>1 DEF UpOpen, UpSes
  <2>. QED BY <2>1, <1>1, <1>4, <1>s DEF Owned
<1>d. Answers(c)'
  BY <1>1, <1>g DEF Answers
<1>6. ASSUME NEW i, LastZero(c, i)
      PROVE  LastZero(c, i)'
  <2>1. ASSUME NEW j \in DOMAIN down'[c], i < j, ZeroAt(c, j)',
               NEW m \in DOMAIN down'[c], j < m
        PROVE  ZeroAt(c, m)'
    <3>1. CASE m = n BY <3>1, <1>z, <1>3
    <3>2. CASE m \in DOMAIN down[c]
      <4>1. j \in DOMAIN down[c]
        BY <2>1, <3>2, <1>3, <1>r
      <4>. QED BY <4>1, <3>2, <2>1, <1>6, <1>z DEF LastZero
    <3>. QED BY <3>1, <3>2, <1>z
  <2>. QED BY <2>1, <1>g DEF LastZero
<1>e. Delivered(c)'
  BY <1>3, <1>4, <1>6, <1>s, <1>z DEF Delivered
<1>h. Replied(c)'
  BY <1>1, <1>4, <1>6, <1>g, <1>s, <1>z DEF Replied
<1>. QED BY <1>a, <1>b, <1>c, <1>d, <1>e, <1>h DEF WireOK

-----------------------------------------------------------------------------
(* The session in charge: it writes, reads, and gives the transport back   *)

\* Nobody else is in charge of a transport a session refers to.
LEMMA Alone ==
  ASSUME OwnInv, NEW s \in Sessions, held[s] \in Conns, NEW t, Serving(t, held[s])
  PROVE  t = s
BY DEF OwnInv, Apart, Typed, PcInv, Holding, Serving

\* WriteConnect on a transport that still carries a stream: the CONNECT comes after
\* the zero chunk of the session before, to a server that is or will be done with it.
LEMMA ConnectWire ==
  ASSUME OwnInv, NEW c \in Conns, NEW s \in Sessions, held[s] = c, WireOK(c), ~dropped[c],
         WriteConnect(s)
  PROVE  WireOK(c)'
<1>t. Typed BY DEF OwnInv
<1>r. /\ up[c] \in Seq(Frame) /\ up \in [Conns -> Seq(Frame)] /\ pc[s] = "write"
      /\ srv[c] \in SrvState /\ srv[c].ses \in Sessions \cup {NoSession}
      /\ NoSession \notin Sessions
      /\ DOMAIN up[c] = 1..Len(up[c]) /\ Len(up[c]) \in Nat
      /\ pc \in [Sessions -> {"new", "take", "miss", "dial", "recheck", "write",
                         "ready", "relay", "put", "shut", "closed", "failed"}]
  BY <1>t, WireRanges DEF WriteConnect, SrvState
<1>f. F("connect", s) \in Frame /\ F("connect", s).kind = "connect" /\ F("connect", s).ses = s
  BY DEF F, Frame
<1>1. /\ up'[c] = Append(up[c], F("connect", s))
      /\ pc' = [pc EXCEPT ![s] = "ready"]
      /\ UNCHANGED <<down, srv, reply, peerClosed, dropped, held, wr>>
  BY <1>r DEF WriteConnect, Send, relVars
<1>n. PICK n \in Nat : n = Len(up[c]) + 1
  BY <1>r
<1>2. /\ DOMAIN up'[c] = 1..n /\ up'[c] # <<>> /\ Len(up'[c]) = n
      /\ \A i \in DOMAIN up[c] : up'[c][i] = up[c][i] /\ i < n /\ i > 0
      /\ up'[c][n].kind = "connect" /\ up'[c][n].ses = s
      /\ \A i \in DOMAIN up'[c] : i \in DOMAIN up[c] \/ i = n
      /\ \A i \in DOMAIN up'[c] : i > 1 => i - 1 \in DOMAIN up[c]
      /\ up[c] # <<>> => Len(up[c]) \in DOMAIN up[c] /\ 1 \in DOMAIN up[c] /\ n - 1 = Len(up[c])
      /\ up[c] = <<>> => n = 1
  BY <1>1, <1>r, <1>f, <1>n, QueueAppend
<1>4. Framed(c) /\ Asked(c) /\ Owned(c) /\ Answers(c) /\ Delivered(c) /\ Replied(c)
  BY DEF WireOK
\* Nobody is in charge yet, so nothing of a session is left on the transport.
<1>5. \A t : ~Serving(t, c)
  BY <1>r, Alone DEF Serving
<1>6. /\ \A i \in DOMAIN up[c] : ~ConnectAt(c, i)
      /\ Finished(c) /\ Quiet(c) /\ ~reply[c] /\ ~peerClosed[c]
  BY <1>5, <1>4 DEF Asked, Answers, Delivered, Replied, Relays, Quiet
<1>7. ~UpOpen(c)
  <2>1. \A t \in Sessions : ~Writes(t, c)
    BY <1>5 DEF Writes
  <2>2. UpOpen(c) => UpSes(c) \in Sessions
    <3>1. up[c] # <<>> => up[c][Len(up[c])] \in Frame
      BY <1>2, <1>r
    <3>. QED BY <3>1, <1>r DEF UpOpen, UpSes, Frame
  <2>. QED BY <2>1, <2>2, <1>4 DEF Owned
<1>8. up[c] # <<>> => /\ up[c][Len(up[c])].kind = "zero" /\ ~ConnectAt(c, 1)
                      /\ srv[c].ses # NoSession /\ ~srv[c].cfin
  <2>1. SUFFICES ASSUME up[c] # <<>>
                 PROVE  /\ up[c][Len(up[c])].kind = "zero" /\ ~ConnectAt(c, 1)
                        /\ srv[c].ses # NoSession /\ ~srv[c].cfin
    OBVIOUS
  <2>2. up[c][1] \in Frame BY <2>1, <1>2, <1>r
  <2>3. up[c][1].ses \in Sessions BY <2>2 DEF Frame
  <2>. QED BY <2>1, <2>3, <1>2, <1>4, <1>6, <1>7, <1>r DEF Framed, UpOpen
<1>9. \A i \in DOMAIN up'[c] : ConnectAt(c, i)' <=> i = n
  BY <1>2, <1>6 DEF ConnectAt
<1>s. \A t : (Serving(t, c)' <=> t = s) /\ (Writes(t, c)' <=> t = s)
  <2>1. Serving(s, c)' /\ Writes(s, c)'
    BY <1>1, <1>r DEF Serving, Writes
  <2>2. ASSUME NEW t, t # s PROVE ~Serving(t, c)'
    BY <2>2, <1>5, <1>1, <1>r DEF Serving
  <2>. QED BY <2>1, <2>2 DEF Writes
<1>a. Framed(c)'
  <2>1. \A i, j \in DOMAIN up'[c] : ConnectAt(c, i)' /\ ConnectAt(c, j)' => i = j
    BY <1>9
  <2>2. ASSUME NEW i \in DOMAIN up'[c], i > 1
        PROVE  IF ConnectAt(c, i)' THEN up'[c][i - 1].kind = "zero"
               ELSE up'[c][i - 1].kind # "zero" /\ up'[c][i].ses = up'[c][i - 1].ses
    <3>1. i - 1 \in DOMAIN up[c] /\ up'[c][i - 1] = up[c][i - 1] /\ up[c] # <<>>
      BY <2>2, <1>2, <1>r
    <3>2. CASE i = n
      BY <3>1, <3>2, <1>2, <1>8, <1>9
    <3>3. CASE i \in DOMAIN up[c]
      <4>1. up'[c][i] = up[c][i] /\ i # n /\ ~ConnectAt(c, i)
        BY <3>3, <1>2, <1>6
      <4>2. ~ConnectAt(c, i)'
        BY <4>1, <2>2, <1>9
      <4>3. up[c][i - 1].kind # "zero" /\ up[c][i].ses = up[c][i - 1].ses
        BY <4>1, <3>3, <2>2, <1>4 DEF Framed
      <4>. QED BY <4>1, <4>2, <4>3, <3>1
    <3>. QED BY <3>2, <3>3, <1>2
  <2>3. ASSUME NEW i \in DOMAIN up'[c], ConnectAt(c, i)', i > 1
        PROVE  srv'[c].ses # NoSession /\ srv'[c].fin /\ ~srv'[c].cfin
    BY <2>3, <1>1, <1>2, <1>6, <1>8, <1>9 DEF Finished
  <2>4. IF ConnectAt(c, 1)' THEN srv'[c].ses = NoSession \/ (srv'[c].fin /\ srv'[c].cfin)
        ELSE up'[c][1].ses = srv'[c].ses /\ ~srv'[c].cfin
    <3>1. CASE up[c] = <<>>
      <4>1. 1 \in DOMAIN up'[c] /\ ConnectAt(c, 1)'
        BY <3>1, <1>2, <1>9
      <4>. QED BY <4>1, <3>1, <1>1, <1>6, <1>7 DEF UpOpen, Finished
    <3>2. CASE up[c] # <<>>
      <4>1. 1 \in DOMAIN up[c] /\ 1 \in DOMAIN up'[c] /\ 1 # n /\ up'[c][1] = up[c][1]
        BY <3>2, <1>2, <1>r, <1>n
      <4>. QED BY <4>1, <3>2, <1>1, <1>4, <1>8, <1>9 DEF Framed
    <3>. QED BY <3>1, <3>2
  <2>. QED BY <2>1, <2>2, <2>3, <2>4 DEF Framed
<1>q. Quiet(c)' /\ Finished(c)' /\ ~reply'[c] /\ ~peerClosed'[c]
  BY <1>1, <1>6 DEF Quiet, Finished, ZeroAt
<1>b. Asked(c)'
  <2>1. Serving(s, c)' BY <1>s
  <2>. QED BY <2>1, <1>2, <1>9, <1>q DEF Asked, Serving
<1>c. Owned(c)'
  BY <1>2, <1>s DEF Owned, UpOpen, UpSes
<1>d. Answers(c)' /\ Delivered(c)' /\ Replied(c)'
  BY <1>q DEF Answers, Delivered, Replied, Quiet
<1>. QED BY <1>a, <1>b, <1>c, <1>d DEF WireOK

\* Payload, or the zero chunk that ends it, written by the session in charge.
LEMMA PayloadWire ==
  ASSUME OwnInv, NEW c \in Conns, NEW s \in Sessions, held[s] = c, WireOK(c), ~dropped[c],
         wr[s] = "run", NEW k \in {"data", "zero"}, Send(c, F(k, s)),
         wr' = [wr EXCEPT ![s] = IF k = "zero" THEN "closed" ELSE "run"],
         UNCHANGED <<down, srv, reply, peerClosed, dropped, held, pc>>
  PROVE  WireOK(c)'
<1>t. Typed BY DEF OwnInv
<1>r. /\ up[c] \in Seq(Frame) /\ up \in [Conns -> Seq(Frame)] /\ pc[s] = "relay"
      /\ NoSession \notin Sessions
      /\ DOMAIN up[c] = 1..Len(up[c]) /\ Len(up[c]) \in Nat
      /\ wr \in [Sessions -> {"off", "run", "closed", "err"}]
  BY <1>t, WireRanges DEF Typed, PcInv
<1>f. F(k, s).kind = k /\ F(k, s).ses = s /\ F(k, s) \in Frame
  BY DEF F, Frame
<1>1. up'[c] = Append(up[c], F(k, s))
  BY <1>r DEF Send
<1>n. PICK n \in Nat : n = Len(up[c]) + 1
  BY <1>r
<1>2. /\ DOMAIN up'[c] = 1..n /\ up'[c] # <<>> /\ Len(up'[c]) = n /\ n > 0
      /\ \A i \in DOMAIN up[c] : up'[c][i] = up[c][i] /\ i < n /\ i > 0
      /\ up'[c][n].kind = k /\ up'[c][n].ses = s
      /\ \A i \in DOMAIN up'[c] : i \in DOMAIN up[c] \/ i = n
      /\ \A i \in DOMAIN up'[c] : i > 1 => i - 1 \in DOMAIN up[c]
      /\ up[c] # <<>> => 1 \in DOMAIN up[c] /\ n - 1 = Len(up[c]) /\ 1 # n
      /\ up[c] = <<>> => n = 1
  BY <1>1, <1>r, <1>f, <1>n, QueueAppend
<1>4. Framed(c) /\ Asked(c) /\ Owned(c) /\ Answers(c) /\ Delivered(c) /\ Replied(c)
  BY DEF WireOK
<1>5. Serving(s, c) /\ Writes(s, c)
  BY <1>r DEF Serving, Writes
<1>6. UpOpen(c) /\ UpSes(c) = s
  BY <1>5, <1>4 DEF Owned
<1>7. /\ \A i \in DOMAIN up[c] : ConnectAt(c, i)' <=> ConnectAt(c, i)
      /\ ~ConnectAt(c, n)'
  BY <1>2 DEF ConnectAt
<1>s. \A t : (Serving(t, c)' <=> Serving(t, c)) /\ (Relays(t, c)' <=> Relays(t, c))
  BY DEF Serving, Relays
<1>q. /\ Quiet(c)' <=> Quiet(c)
      /\ Finished(c)' <=> Finished(c)
      /\ \A i : ZeroAt(c, i)' <=> ZeroAt(c, i)
      /\ \A i : LastZero(c, i)' <=> LastZero(c, i)
  BY DEF Quiet, Finished, ZeroAt, LastZero
<1>a. Framed(c)'
  <2>1. \A i, j \in DOMAIN up'[c] : ConnectAt(c, i)' /\ ConnectAt(c, j)' => i = j
    BY <1>2, <1>4, <1>7 DEF Framed
  <2>2. ASSUME NEW i \in DOMAIN up'[c], i > 1
        PROVE  IF ConnectAt(c, i)' THEN up'[c][i - 1].kind = "zero"
               ELSE up'[c][i - 1].kind # "zero" /\ up'[c][i].ses = up'[c][i - 1].ses
    <3>1. i - 1 \in DOMAIN up[c] /\ up'[c][i - 1] = up[c][i - 1] /\ up[c] # <<>>
      BY <2>2, <1>2, <1>r
    <3>2. CASE i = n
      <4>1. up[c][n - 1].kind # "zero" /\ up[c][n - 1].ses = s
        BY <3>1, <1>2, <1>6 DEF UpOpen, UpSes
      <4>. QED BY <4>1, <3>1, <3>2, <1>2, <1>7
    <3>3. CASE i \in DOMAIN up[c]
      <4>1. up'[c][i] = up[c][i] /\ (ConnectAt(c, i)' <=> ConnectAt(c, i))
        BY <3>3, <1>2, <1>7
      <4>2. IF ConnectAt(c, i) THEN up[c][i - 1].kind = "zero"
            ELSE up[c][i - 1].kind # "zero" /\ up[c][i].ses = up[c][i - 1].ses
        BY <3>3, <2>2, <1>4 DEF Framed
      <4>. QED BY <4>1, <4>2, <3>1
    <3>. QED BY <3>2, <3>3, <1>2
  <2>3. \A i \in DOMAIN up'[c] : ConnectAt(c, i)' /\ i > 1 =>
          srv'[c].ses # NoSession /\ srv'[c].fin /\ ~srv'[c].cfin
    BY <1>2, <1>4, <1>7 DEF Framed
  <2>4. IF ConnectAt(c, 1)' THEN srv'[c].ses = NoSession \/ (srv'[c].fin /\ srv'[c].cfin)
        ELSE up'[c][1].ses = srv'[c].ses /\ ~srv'[c].cfin
    <3>1. CASE up[c] = <<>>
      BY <3>1, <1>2, <1>6, <1>7 DEF UpOpen, UpSes
    <3>2. CASE up[c] # <<>>
      <4>1. 1 \in DOMAIN up[c] /\ up'[c][1] = up[c][1]
        BY <3>2, <1>2
      <4>. QED BY <4>1, <3>2, <1>4, <1>7 DEF Framed
    <3>. QED BY <3>1, <3>2
  <2>. QED BY <2>1, <2>2, <2>3, <2>4 DEF Framed
<1>b. Asked(c)'
  BY <1>2, <1>4, <1>7, <1>q, <1>s DEF Asked
<1>c. Owned(c)'
  <2>1. ASSUME NEW t \in Sessions
        PROVE  UpOpen(c)' /\ UpSes(c)' = t <=> Writes(t, c)'
    <3>1. Writes(t, c) <=> t = s
      BY <1>4, <1>6 DEF Owned
    <3>2. (UpOpen(c)' <=> k = "data") /\ UpSes(c)' = s
      BY <1>2 DEF UpOpen, UpSes
    <3>3. CASE t = s
      <4>1. Writes(t, c)' <=> k = "data"
        BY <3>3, <1>5, <1>r, <1>s DEF Writes
      <4>. QED BY <4>1, <3>2, <3>3
    <3>4. CASE t # s
      <4>1. ~Writes(t, c)'
        BY <3>1, <3>4, <1>r, <1>s DEF Writes
      <4>. QED BY <4>1, <3>2, <3>4
    <3>. QED BY <3>3, <3>4
  <2>. QED BY <2>1 DEF Owned
<1>d. Answers(c)'
  BY <1>4, <1>q, <1>s DEF Answers
<1>e. Delivered(c)'
  BY <1>4, <1>q, <1>s DEF Delivered
<1>g. Replied(c)'
  BY <1>4, <1>q, <1>s DEF Replied
<1>. QED BY <1>a, <1>b, <1>c, <1>d, <1>e, <1>g DEF WireOK

\* Conn.Read takes the frame at the head.  The reply is read only if it is not a zero
\* chunk, and only a zero chunk after it sets peerClosed.
LEMMA ReadWire ==
  ASSUME Typed, NEW c \in Conns, NEW s, Relays(s, c), WireOK(c),
         down[c] # <<>>, down'[c] = Tail(down[c]),
         reply'[c] => reply[c] \/ ~ZeroAt(c, 1),
         peerClosed'[c] => reply'[c] /\ (peerClosed[c] \/ (reply[c] /\ ZeroAt(c, 1))),
         UNCHANGED <<up, srv, dropped, held, pc, wr>>
  PROVE  WireOK(c)'
<1>1. /\ Len(down[c]) \in Nat \ {0}
      /\ DOMAIN down'[c] = 1..(Len(down[c]) - 1) /\ DOMAIN down[c] = 1..Len(down[c])
      /\ \A i \in DOMAIN down'[c] : i + 1 \in DOMAIN down[c] /\ down'[c][i] = down[c][i + 1]
      /\ 1 \in DOMAIN down[c]
  <2>1. down[c] \in Seq(Frame) BY WireRanges
  <2>. QED BY <2>1, QueueTail
<1>4. Framed(c) /\ Asked(c) /\ Owned(c) /\ Answers(c) /\ Delivered(c) /\ Replied(c)
  BY DEF WireOK
<1>s. \A t : /\ Serving(t, c)' <=> Serving(t, c)
             /\ Writes(t, c)' <=> Writes(t, c)
             /\ Relays(t, c)' <=> Relays(t, c)
  BY SameSessions
<1>q. /\ Finished(c)' <=> Finished(c)
      /\ \A i \in DOMAIN down'[c] : ZeroAt(c, i)' <=> ZeroAt(c, i + 1)
      /\ \A i : ConnectAt(c, i)' <=> ConnectAt(c, i)
  BY <1>1 DEF Finished, ZeroAt, ConnectAt
<1>2. Quiet(c) => Quiet(c)'
  BY <1>1, <1>q DEF Quiet
<1>3. ASSUME NEW i \in Nat, LastZero(c, i + 1) \/ LastZero(c, i)
      PROVE  LastZero(c, i)'
  <2>1. ASSUME NEW j \in DOMAIN down'[c], i < j, ZeroAt(c, j)',
               NEW m \in DOMAIN down'[c], j < m
        PROVE  Finished(c)' /\ ZeroAt(c, m)'
    <3>1. /\ j + 1 \in DOMAIN down[c] /\ i + 1 < j + 1 /\ i < j + 1 /\ ZeroAt(c, j + 1)
          /\ m + 1 \in DOMAIN down[c] /\ j + 1 < m + 1
      BY <2>1, <1>1, <1>q
    <3>. QED BY <3>1, <1>3, <1>q, <2>1 DEF LastZero
  <2>2. ASSUME NEW j \in DOMAIN down'[c], i < j, ZeroAt(c, j)'
        PROVE  Finished(c)'
    <3>1. /\ j + 1 \in DOMAIN down[c] /\ i + 1 < j + 1 /\ i < j + 1 /\ ZeroAt(c, j + 1)
      BY <2>2, <1>1, <1>q
    <3>. QED BY <3>1, <1>3, <1>q DEF LastZero
  <2>. QED BY <2>1, <2>2 DEF LastZero
<1>a. Framed(c)'
  BY <1>4, <1>q DEF Framed
<1>b. Asked(c)'
  BY <1>1, <1>2, <1>4, <1>q, <1>s DEF Asked, Quiet
<1>c. Owned(c)'
  BY <1>4, <1>s DEF Owned, UpOpen, UpSes
<1>d. Answers(c)'
  BY <1>2, <1>4, <1>q, <1>s DEF Answers
<1>e. Delivered(c)'
  <2>1. ASSUME NEW i \in DOMAIN down'[c], ~ZeroAt(c, i)'
        PROVE  Serving(down[c][i].ses, c)' /\ LastZero(c, i)'
    <3>1. i + 1 \in DOMAIN down[c] /\ ~ZeroAt(c, i + 1) /\ i \in Nat
      BY <2>1, <1>1, <1>q
    <3>2. Serving(down[c][i + 1].ses, c) /\ LastZero(c, i + 1)
      BY <3>1, <1>4 DEF Delivered
    <3>3. down'[c][i] = down[c][i + 1]
      BY <2>1, <1>1
    <3>. QED BY <3>1, <3>2, <3>3, <1>3 DEF Serving
  <2>. QED BY <2>1 DEF Delivered
<1>g. Replied(c)'
  <2>1. ASSUME reply'[c]
        PROVE  (srv'[c].ses = NoSession \/ srv'[c].replied) /\ LastZero(c, 0)'
    <3>1. CASE reply[c]
      BY <3>1, <1>3, <1>4 DEF Replied
    <3>2. CASE ~ZeroAt(c, 1)
      <4>1. ~Quiet(c) BY <3>2, <1>1 DEF Quiet
      <4>2. LastZero(c, 0 + 1)
        BY <3>2, <1>1, <1>4 DEF Delivered
      <4>. QED BY <4>1, <4>2, <1>3, <1>4 DEF Answers
    <3>. QED BY <2>1, <3>1, <3>2
  <2>2. ASSUME peerClosed'[c]
        PROVE  Quiet(c)' /\ Finished(c)'
    <3>1. CASE peerClosed[c]
      BY <3>1, <1>2, <1>4, <1>q DEF Replied
    <3>2. CASE reply[c] /\ ZeroAt(c, 1)
      <4>1. Finished(c) /\ \A m \in DOMAIN down[c] : 1 < m => ZeroAt(c, m)
        BY <3>2, <1>1, <1>4 DEF Replied, LastZero
      <4>2. \A i \in DOMAIN down'[c] : ZeroAt(c, i)'
        BY <4>1, <1>1, <1>q
      <4>. QED BY <4>1, <4>2, <1>q DEF Quiet
    <3>. QED BY <2>2, <3>1, <3>2
  <2>3. s \in Sessions /\ Relays(s, c)'
    BY <1>s DEF Relays, Serving
  <2>. QED BY <2>1, <2>2, <2>3 DEF Replied
<1>. QED BY <1>a, <1>b, <1>c, <1>d, <1>e, <1>g DEF WireOK

\* pooledConn.Close after both zero chunks: nothing of the session is left in flight
\* towards the client, and the server has finished it.
LEMMA ResetWire ==
  ASSUME OwnInv, NEW c \in Conns, NEW s \in Sessions, held[s] = c, WireOK(c), CloseReset(s)
  PROVE  WireOK(c)'
<1>t. Typed BY DEF OwnInv
<1>r. /\ pc \in [Sessions -> {"new", "take", "miss", "dial", "recheck", "write",
                         "ready", "relay", "put", "shut", "closed", "failed"}]
      /\ reply \in [Conns -> BOOLEAN] /\ peerClosed \in [Conns -> BOOLEAN]
  BY <1>t, WireRanges
<1>1. /\ pc[s] = "relay" /\ wr[s] = "closed" /\ peerClosed[c]
      /\ pc' = [pc EXCEPT ![s] = "put"] /\ ~reply'[c] /\ ~peerClosed'[c]
      /\ UNCHANGED <<up, down, srv, dropped, held, wr>>
  BY <1>r DEF CloseReset, RelayOver, wireVars, relVars
<1>4. Framed(c) /\ Asked(c) /\ Owned(c) /\ Answers(c) /\ Delivered(c) /\ Replied(c)
  BY DEF WireOK
<1>5. reply[c] /\ Quiet(c) /\ Finished(c) /\ \A i \in DOMAIN up[c] : ~ConnectAt(c, i)
  BY <1>1, <1>4 DEF Replied, Asked
<1>6. \A t \in Sessions : ~Writes(t, c) /\ ~Writes(t, c)'
  <2>1. \A t : Serving(t, c) => t = s
    BY Alone
  <2>2. ~Writes(s, c)
    BY <1>1 DEF Writes
  <2>3. \A t : ~Serving(t, c)'
    BY <2>1, <1>1, <1>r DEF Serving
  <2>. QED BY <2>1, <2>2, <2>3 DEF Writes
<1>q. /\ Quiet(c)' /\ Finished(c)'
      /\ \A i : ConnectAt(c, i)' <=> ConnectAt(c, i)
  BY <1>1, <1>5 DEF Quiet, Finished, ZeroAt, ConnectAt
<1>a. Framed(c)'
  BY <1>1, <1>4, <1>q DEF Framed
<1>b. Asked(c)'
  BY <1>1, <1>5, <1>q DEF Asked
<1>c. Owned(c)'
  BY <1>1, <1>4, <1>6 DEF Owned, UpOpen, UpSes
<1>d. Answers(c)' /\ Delivered(c)' /\ Replied(c)'
  BY <1>1, <1>q DEF Answers, Delivered, Replied, Quiet
<1>. QED BY <1>a, <1>b, <1>c, <1>d DEF WireOK

\* A new transport has nothing on it.
LEMMA FreshWire ==
  ASSUME NEW c \in Conns, Fresh(c), \A t \in Sessions : ~Writes(t, c)',
         UNCHANGED <<up, down, srv, reply, peerClosed>>
  PROVE  WireOK(c)'
<1>1. /\ up'[c] = <<>> /\ down'[c] = <<>> /\ srv'[c].ses = NoSession
      /\ ~reply'[c] /\ ~peerClosed'[c]
  BY DEF Fresh, IdleSrv
<1>2. DOMAIN up'[c] = {} /\ DOMAIN down'[c] = {}
  BY <1>1
<1>3. Framed(c)' BY <1>1, <1>2 DEF Framed
<1>4. Asked(c)' BY <1>2 DEF Asked
<1>5. Owned(c)' BY <1>1 DEF Owned, UpOpen
<1>6. Answers(c)' BY <1>1 DEF Answers, Finished
<1>7. Delivered(c)' BY <1>2 DEF Delivered
<1>8. Replied(c)' BY <1>1 DEF Replied
<1>. QED BY <1>3, <1>4, <1>5, <1>6, <1>7, <1>8 DEF WireOK

-----------------------------------------------------------------------------
(* Every step, over all transports                                         *)

\* Outside the transports D a step opens, closes, uses or leaves, nothing is lost.
LEMMA ElsewhereStep ==
  ASSUME WireInv, NEW D,
         \A c \in Conns \ D :
           /\ tr'[c] = tr[c] /\ up'[c] = up[c] /\ down'[c] = down[c] /\ srv'[c] = srv[c]
           /\ reply'[c] = reply[c] /\ peerClosed'[c] = peerClosed[c]
           /\ dropped[c] => dropped'[c]
           /\ \A s : /\ Serving(s, c) => Serving(s, c)'
                     /\ Relays(s, c) => Relays(s, c)'
                     /\ dropped'[c] \/ (Writes(s, c)' <=> Writes(s, c)),
         \A c \in Conns \cap D : tr'[c] # "unborn" /\ (tr'[c] = "open" => WireOK(c)')
  PROVE  WireInv'
<1>1. ASSUME NEW c \in Conns, tr'[c] = "open" PROVE WireOK(c)'
  <2>1. CASE c \in D BY <1>1, <2>1
  <2>2. CASE c \notin D BY <1>1, <2>2, WireFrame DEF WireInv
  <2>. QED BY <2>1, <2>2
<1>2. ASSUME NEW c \in Conns, tr'[c] = "unborn" PROVE Fresh(c)'
  <2>1. c \notin D /\ Fresh(c)
    BY <1>2 DEF WireInv
  <2>. QED BY <2>1 DEF Fresh
<1>. QED BY <1>1, <1>2 DEF WireInv

\* The steps that open, close or hand on transports without using the one they keep.
LEMMA ShutStep ==
  ASSUME PoolInv, NEW D, Shut(D), UNCHANGED <<reply, peerClosed, dropped>>,
         \A c \in Conns \ D : \A s : /\ Serving(s, c) => Serving(s, c)'
                                     /\ Relays(s, c) => Relays(s, c)'
                                     /\ Writes(s, c)' <=> Writes(s, c)
  PROVE  WireInv'
<1>1. \A c \in Conns \ D :
        /\ tr'[c] = tr[c] /\ up'[c] = up[c] /\ down'[c] = down[c] /\ srv'[c] = srv[c]
  BY DEF Shut
<1>2. \A c \in Conns \cap D : tr'[c] = "closed"
  BY DEF Shut
<1>. QED BY <1>1, <1>2, ElsewhereStep DEF PoolInv

LEMMA KeepStep ==
  ASSUME PoolInv, UNCHANGED <<wireVars, reply, peerClosed>>, \A c \in Conns : dropped[c] => dropped'[c],
         \A c \in Conns : \A s : /\ Serving(s, c) => Serving(s, c)'
                                 /\ Relays(s, c) => Relays(s, c)'
                                 /\ dropped'[c] \/ (Writes(s, c)' <=> Writes(s, c))
  PROVE  WireInv'
<1>1. UNCHANGED <<tr, up, down, srv>> BY DEF wireVars
<1>2. WireInv BY DEF PoolInv
<1>3. PICK D : D = {}
  OBVIOUS
<1>. QED BY <1>1, <1>2, <1>3, ElsewhereStep

LEMMA OpenStep ==
  ASSUME PoolInv, NEW c \in Conns, Open(c), UNCHANGED <<reply, peerClosed, dropped>>,
         \A d \in Conns : \A s : /\ Serving(s, d) => Serving(s, d)'
                                 /\ Relays(s, d) => Relays(s, d)'
                                 /\ Writes(s, d)' <=> Writes(s, d)
  PROVE  WireInv'
<1>t. Typed BY DEF PoolInv, OwnInv
<1>1. tr[c] = "unborn" /\ tr' = [tr EXCEPT ![c] = "open"] /\ UNCHANGED <<up, down, srv>>
  BY DEF Open
<1>2. Fresh(c)
  BY <1>1 DEF PoolInv, WireInv
<1>3. \A s \in Sessions : ~Writes(s, c)'
  <2>1. NoConn \notin Conns BY <1>t, WireRanges
  <2>2. \A s \in Sessions : held[s] # NoConn => tr[held[s]] = "open"
    BY DEF PoolInv, OwnInv, Live
  <2>3. \A s : ~Serving(s, c)
    BY <1>1, <2>1, <2>2 DEF Serving
  <2>. QED BY <2>3 DEF Writes
<1>4. WireOK(c)'
  BY <1>1, <1>2, <1>3, FreshWire
<1>5. /\ \A d \in Conns \ {c} : tr'[d] = tr[d]
      /\ tr'[c] = "open"
  BY <1>1, <1>t, WireRanges
<1>. QED BY <1>1, <1>4, <1>5, ElsewhereStep DEF PoolInv

\* A session outside ready and relay is in charge of nothing; one that goes on with
\* another transport leaves the others alone.
LEMMA IdleSession ==
  ASSUME PoolInv, NEW s \in Sessions, pc[s] \notin {"ready", "relay"},
         pc' = [pc EXCEPT ![s] = pc'[s]], pc'[s] \notin {"ready", "relay"},
         held' = [held EXCEPT ![s] = held'[s]], UNCHANGED wr
  PROVE  \A c, t : /\ Serving(t, c)' <=> Serving(t, c)
                   /\ Writes(t, c)' <=> Writes(t, c)
                   /\ Relays(t, c)' <=> Relays(t, c)
<1>t. Typed BY DEF PoolInv, OwnInv
<1>1. \A t \in Sessions : t # s => pc'[t] = pc[t] /\ held'[t] = held[t]
  BY <1>t, WireRanges
<1>. QED BY <1>1 DEF Serving, Writes, Relays

\* A session in charge closes its transport and forgets it.
LEMMA ReleaseWire ==
  ASSUME PoolInv, NEW s \in Sessions, held[s] \in Conns, Shut({held[s]}),
         held' = [held EXCEPT ![s] = NoConn], pc' = [pc EXCEPT ![s] = pc'[s]],
         UNCHANGED <<connVars, wr>>
  PROVE  WireInv'
<1>t. Typed BY DEF PoolInv, OwnInv
<1>1. \A t \in Sessions : t # s => pc'[t] = pc[t] /\ held'[t] = held[t]
  BY <1>t, WireRanges
<1>2. held'[s] = NoConn /\ NoConn \notin Conns
  BY <1>t, WireRanges
<1>3. \A c \in Conns \ {held[s]} : \A t : /\ Serving(t, c)' <=> Serving(t, c)
                                          /\ Writes(t, c)' <=> Writes(t, c)
                                          /\ Relays(t, c)' <=> Relays(t, c)
  BY <1>1, <1>2 DEF Serving, Writes, Relays
<1>. QED BY <1>3, ShutStep DEF connVars

\* A step of Warm, of Pool.Close or of a pop that closes, while the sessions stand still.
LEMMA StandStep ==
  ASSUME PoolInv, UNCHANGED <<held, pc, wr, reply, peerClosed, dropped>>,
         UNCHANGED wireVars \/ \E D : Shut(D)
  PROVE  WireInv'
<1>1. \A c, s : /\ Serving(s, c)' <=> Serving(s, c)
                /\ Writes(s, c)' <=> Writes(s, c)
                /\ Relays(s, c)' <=> Relays(s, c)
  BY SameSessions
<1>2. CASE UNCHANGED wireVars
  BY <1>1, <1>2, KeepStep
<1>3. ASSUME NEW D, Shut(D) PROVE WireInv'
  BY <1>1, <1>3, ShutStep
<1>. QED BY <1>2, <1>3

\* Pool.Dial.
LEMMA DialWire ==
  ASSUME PoolInv, NEW s \in Sessions, Arrive(s) \/ DialStep(s)
  PROVE  WireInv'
<1>t. Typed /\ OwnInv BY DEF PoolInv, OwnInv
<1>r. /\ pc \in [Sessions -> {"new", "take", "miss", "dial", "recheck", "write",
                         "ready", "relay", "put", "shut", "closed", "failed"}]
      /\ held \in [Sessions -> Conns \cup {NoConn}]
      /\ up \in [Conns -> Seq(Frame)] /\ dropped \in [Conns -> BOOLEAN]
      /\ pc[s] \in Holding => held[s] \in Conns
  BY <1>t, WireRanges DEF Typed, PcInv
<1>. USE DEF poolVars, warmVars, connVars, relVars
<1>1. CASE Arrive(s)
  BY <1>1, <1>r, IdleSession, KeepStep DEF Arrive
<1>2. CASE Take(s)
  <2>1. /\ pc[s] = "take" /\ UNCHANGED <<wireVars, reply, peerClosed, dropped, wr>>
        /\ \E t : Turn(s, t)
    BY <1>2 DEF Take
  <2>2. CASE UNCHANGED <<pc, held>>
    <3>1. \A c, t : /\ Serving(t, c)' <=> Serving(t, c)
                    /\ Writes(t, c)' <=> Writes(t, c)
                    /\ Relays(t, c)' <=> Relays(t, c)
      BY <2>1, <2>2, SameSessions
    <3>. QED BY <2>1, <3>1, KeepStep
  <2>3. CASE \/ /\ held' = [held EXCEPT ![s] = idle[1].conn]
                /\ pc' = [pc EXCEPT ![s] = "write"]
             \/ pc' = [pc EXCEPT ![s] = "miss"] /\ UNCHANGED held
    <3>1. /\ pc' = [pc EXCEPT ![s] = pc'[s]] /\ pc'[s] \in {"write", "miss"}
          /\ held' = [held EXCEPT ![s] = held'[s]]
      BY <2>3, <1>r
    <3>. QED BY <2>1, <3>1, IdleSession, KeepStep
  <2>. QED BY <2>1, <2>2, <2>3 DEF Turn
<1>8. CASE PopClose(s)
  <2>1. UNCHANGED <<held, pc, wr, reply, peerClosed, dropped>> /\ Shut({expired})
    BY <1>8 DEF PopClose, sesVars
  <2>. QED BY <2>1, StandStep
<1>3. CASE Miss(s)
  BY <1>3, <1>r, IdleSession, KeepStep DEF Miss
<1>4. CASE Factory(s)
  <2>1. CASE pc' = [pc EXCEPT ![s] = "failed"] /\ UNCHANGED <<wireVars, held, uses>>
    BY <1>4, <2>1, <1>r, IdleSession, KeepStep DEF Factory
  <2>2. ASSUME NEW c \in Conns, Open(c), held' = [held EXCEPT ![s] = c],
               pc' = [pc EXCEPT ![s] = "recheck"]
        PROVE  WireInv'
    BY <1>4, <2>2, <1>r, IdleSession, OpenStep DEF Factory
  <2>. QED BY <1>4, <2>1, <2>2 DEF Factory
<1>5. CASE Recheck(s)
  <2>1. CASE closed
    BY <1>5, <2>1, <1>r, ReleaseWire DEF Recheck, Holding
  <2>2. CASE ~closed
    BY <1>5, <2>2, <1>r, IdleSession, KeepStep DEF Recheck
  <2>. QED BY <2>1, <2>2
<1>6. CASE WriteConnect(s)
  <2>1. /\ held[s] \in Conns /\ pc[s] = "write" /\ pc' = [pc EXCEPT ![s] = "ready"]
        /\ tr[held[s]] = "open"
        /\ UNCHANGED <<tr, down, srv, reply, peerClosed, dropped, held, wr>>
    BY <1>6, <1>r, <1>t DEF WriteConnect, Holding, OwnInv, Live, Typed, PcInv
  <2>2. WireOK(held[s])
    BY <2>1 DEF PoolInv, WireInv
  <2>3. \A t \in Sessions : t # s => pc'[t] = pc[t]
    BY <2>1, <1>r
  <2>c. PICK c \in Conns : c = held[s]
    BY <2>1
  <2>4. \A d \in Conns \ {c} : /\ up'[d] = up[d]
          /\ \A t : /\ Serving(t, d)' <=> Serving(t, d)
                    /\ Writes(t, d)' <=> Writes(t, d)
                    /\ Relays(t, d)' <=> Relays(t, d)
    BY <1>6, <1>r, <2>1, <2>3, <2>c DEF WriteConnect, Send, Serving, Writes, Relays
  <2>5. WireOK(c)'
    <3>1. CASE ~dropped[c]
      BY <3>1, <1>6, <1>t, <2>2, <2>c, ConnectWire
    <3>2. CASE dropped[c]
      <4>1. up'[c] = up[c]
        BY <3>2, <1>6, <2>c DEF WriteConnect, Send
      <4>2. \A t : /\ Serving(t, c) => Serving(t, c)'
                   /\ Relays(t, c) => Relays(t, c)'
        BY <2>1, <2>3, <2>c DEF Serving, Relays
      <4>. QED BY <4>1, <4>2, <3>2, <2>1, <2>2, <2>c, WireFrame
    <3>. QED BY <3>1, <3>2
  <2>6. \A d \in Conns \cap {c} : tr'[d] # "unborn" /\ (tr'[d] = "open" => WireOK(d)')
    BY <2>1, <2>5, <2>c
  <2>7. WireInv BY DEF PoolInv
  <2>8. \A d \in Conns \ {c} :
          /\ tr'[d] = tr[d] /\ down'[d] = down[d] /\ srv'[d] = srv[d]
          /\ reply'[d] = reply[d] /\ peerClosed'[d] = peerClosed[d]
          /\ dropped[d] => dropped'[d]
    BY <2>1
  <2>. QED BY <2>4, <2>6, <2>7, <2>8, ElsewhereStep
<1>7. CASE WriteFails(s)
  BY <1>7, <1>r, ReleaseWire DEF WriteFails, Holding
<1>. QED BY <1>1, <1>2, <1>3, <1>4, <1>5, <1>6, <1>7, <1>8 DEF DialStep

\* A step on one open transport.
LEMMA OneStep ==
  ASSUME PoolInv, NEW c \in Conns, tr[c] = "open", WireOK(c)', UNCHANGED tr,
         \A d \in Conns \ {c} :
           /\ up'[d] = up[d] /\ down'[d] = down[d] /\ srv'[d] = srv[d]
           /\ reply'[d] = reply[d] /\ peerClosed'[d] = peerClosed[d]
           /\ dropped[d] => dropped'[d]
           /\ \A s : /\ Serving(s, d)' <=> Serving(s, d)
                     /\ Writes(s, d)' <=> Writes(s, d)
                     /\ Relays(s, d)' <=> Relays(s, d)
  PROVE  WireInv'
<1>1. \A d \in Conns \cap {c} : tr'[d] # "unborn" /\ (tr'[d] = "open" => WireOK(d)')
  OBVIOUS
<1>2. WireInv BY DEF PoolInv
<1>. QED BY <1>1, <1>2, ElsewhereStep

\* The relay of a session.
LEMMA RelayWire ==
  ASSUME PoolInv, NEW s \in Sessions,
         \/ StartRelay(s) \/ Abort(s) \/ WriteData(s) \/ CloseWrite(s) \/ ReaderStep(s)
  PROVE  WireInv'
<1>t. Typed /\ OwnInv BY DEF PoolInv, OwnInv
<1>r. /\ pc \in [Sessions -> {"new", "take", "miss", "dial", "recheck", "write",
                         "ready", "relay", "put", "shut", "closed", "failed"}]
      /\ up \in [Conns -> Seq(Frame)] /\ down \in [Conns -> Seq(Frame)]
      /\ reply \in [Conns -> BOOLEAN] /\ peerClosed \in [Conns -> BOOLEAN]
      /\ dropped \in [Conns -> BOOLEAN]
      /\ wr \in [Sessions -> {"off", "run", "closed", "err"}]
      /\ pc[s] \in Holding => held[s] \in Conns /\ tr[held[s]] = "open"
      /\ rd[s] = "run" \/ wr[s] = "run" => pc[s] = "relay"
  BY <1>t, WireRanges DEF Typed, PcInv, OwnInv, Live
<1>k. pc[s] = "relay" => held[s] \in Conns /\ tr[held[s]] = "open"
  BY <1>r DEF Holding
<1>. USE DEF poolVars, warmVars, connVars, wireVars, sesVars, relVars
<1>1. CASE StartRelay(s)
  <2>1. /\ pc[s] = "ready" /\ pc'[s] = "relay" /\ wr'[s] = "run"
        /\ \A t \in Sessions : t # s => pc'[t] = pc[t] /\ wr'[t] = wr[t]
        /\ UNCHANGED <<held, reply, peerClosed, dropped, wireVars>>
    BY <1>1, <1>r DEF StartRelay
  <2>2. \A c, t : /\ Serving(t, c)' <=> Serving(t, c)
                  /\ Writes(t, c)' <=> Writes(t, c)
                  /\ Relays(t, c) => Relays(t, c)'
    BY <2>1 DEF Serving, Writes, Relays
  <2>. QED BY <2>1, <2>2, KeepStep
<1>2. CASE Abort(s)
  BY <1>2, <1>r, ReleaseWire DEF Abort, Holding
<1>3. CASE WriteData(s) \/ CloseWrite(s)
  <2>1. /\ pc[s] = "relay" /\ wr[s] = "run" /\ held[s] \in Conns /\ tr[held[s]] = "open"
        /\ UNCHANGED <<tr, down, srv, reply, peerClosed, dropped, held, pc>>
    BY <1>3, <1>r, <1>k DEF WriteData, CloseWrite
  <2>c. PICK c \in Conns : c = held[s]
    BY <2>1
  <2>2. PICK k \in {"data", "zero"} :
          \/ /\ Send(c, F(k, s))
             /\ wr' = [wr EXCEPT ![s] = IF k = "zero" THEN "closed" ELSE "run"]
          \/ dropped[c] /\ up' = up /\ wr' = [wr EXCEPT ![s] = "err"]
    <3>1. CASE WriteData(s)
      <4>1. Send(c, F("data", s)) /\ wr' = wr
        BY <3>1, <2>c DEF WriteData
      <4>2. wr' = [wr EXCEPT ![s] = "run"]
        BY <4>1, <2>1, <1>r
      <4>. QED BY <4>1, <4>2
    <3>2. CASE CloseWrite(s)
      BY <3>2, <2>c DEF CloseWrite
    <3>. QED BY <1>3, <3>1, <3>2
  <2>3. \A t \in Sessions : t # s => wr'[t] = wr[t]
    BY <2>2, <1>r
  <2>4. \A d \in Conns \ {c} : /\ up'[d] = up[d]
          /\ \A t : /\ Serving(t, d)' <=> Serving(t, d)
                    /\ Writes(t, d)' <=> Writes(t, d)
                    /\ Relays(t, d)' <=> Relays(t, d)
    BY <1>r, <2>1, <2>2, <2>3, <2>c DEF Send, Serving, Writes, Relays
  <2>5. WireOK(c)
    BY <2>1, <2>c DEF PoolInv, WireInv
  <2>6. WireOK(c)'
    <3>1. CASE dropped[c]
      <4>1. up'[c] = up[c]
        BY <3>1, <2>2 DEF Send
      <4>2. \A t : (Serving(t, c)' <=> Serving(t, c)) /\ (Relays(t, c)' <=> Relays(t, c))
        BY <2>1 DEF Serving, Relays
      <4>. QED BY <4>1, <4>2, <3>1, <2>1, <2>5, WireFrame
    <3>2. CASE ~dropped[c]
      BY <3>2, <1>t, <2>1, <2>2, <2>5, <2>c, PayloadWire
    <3>. QED BY <3>1, <3>2
  <2>. QED BY <2>1, <2>4, <2>6, <2>c, OneStep
<1>4. CASE ReadDrop(s)
  <2>1. UNCHANGED <<held, pc, wr>>
    BY <1>4 DEF ReadDrop
  <2>. QED BY <1>4, <2>1, SameSessions, KeepStep DEF ReadDrop
<1>5. CASE ReadReply(s) \/ ReadPayload(s) \/ ReadZero(s)
  <2>1. /\ rd[s] = "run" /\ pc[s] = "relay" /\ held[s] \in Conns /\ tr[held[s]] = "open"
        /\ UNCHANGED <<tr, up, srv, dropped, held, pc, wr>>
    BY <1>5, <1>r, <1>k DEF ReadReply, ReadPayload, ReadZero
  <2>c. PICK c \in Conns : c = held[s]
    BY <2>1
  <2>2. down[c] # <<>> /\ down' = [down EXCEPT ![c] = Tail(@)] /\ Head(down[c]) = down[c][1]
    BY <1>5, <1>r, <2>c, QueueTail DEF ReadReply, ReadPayload, ReadZero
  <2>3. /\ reply' = [reply EXCEPT ![c] = reply'[c]]
        /\ peerClosed' = [peerClosed EXCEPT ![c] = peerClosed'[c]]
        /\ reply'[c] => reply[c] \/ ~ZeroAt(c, 1)
        /\ reply[c] => reply'[c]
        /\ peerClosed'[c] => peerClosed[c] \/ (reply[c] /\ ZeroAt(c, 1))
    BY <1>5, <1>r, <2>2, <2>c DEF ReadReply, ReadPayload, ReadZero, ZeroAt
  <2>5. WireOK(c) /\ Relays(s, c)
    BY <2>1, <2>c DEF PoolInv, WireInv, Relays, Serving
  <2>6. peerClosed'[c] => reply'[c] /\ (peerClosed[c] \/ (reply[c] /\ ZeroAt(c, 1)))
    BY <2>3, <2>5 DEF WireOK, Replied
  <2>7. down'[c] = Tail(down[c])
    BY <2>2, <1>r
  <2>8. WireOK(c)'
    BY <1>t, <2>1, <2>2, <2>3, <2>5, <2>6, <2>7, ReadWire
  <2>9. \A d \in Conns \ {c} :
          down'[d] = down[d] /\ reply'[d] = reply[d] /\ peerClosed'[d] = peerClosed[d]
    BY <2>2, <2>3, <1>r
  <2>. QED BY <2>1, <2>8, <2>9, <2>c, SameSessions, OneStep
<1>. QED BY <1>1, <1>2, <1>3, <1>4, <1>5 DEF ReaderStep

\* pooledConn.Close.
LEMMA CloseWire ==
  ASSUME PoolInv, NEW s \in Sessions, CloseStep(s)
  PROVE  WireInv'
<1>t. Typed /\ OwnInv BY DEF PoolInv, OwnInv
<1>r. /\ pc \in [Sessions -> {"new", "take", "miss", "dial", "recheck", "write",
                         "ready", "relay", "put", "shut", "closed", "failed"}]
      /\ reply \in [Conns -> BOOLEAN] /\ peerClosed \in [Conns -> BOOLEAN]
      /\ pc[s] \in Holding => held[s] \in Conns /\ tr[held[s]] = "open"
  BY <1>t, WireRanges DEF Typed, PcInv, OwnInv, Live
<1>. USE DEF poolVars, warmVars, connVars, relVars
<1>1. CASE CloseDiscard(s)
  BY <1>1, <1>r, ReleaseWire DEF CloseDiscard, RelayOver, Holding
<1>2. CASE CloseReset(s)
  <2>1. /\ pc[s] = "relay" /\ held[s] \in Conns /\ tr[held[s]] = "open"
        /\ pc' = [pc EXCEPT ![s] = "put"]
        /\ reply' = [reply EXCEPT ![held[s]] = FALSE]
        /\ peerClosed' = [peerClosed EXCEPT ![held[s]] = FALSE]
        /\ UNCHANGED <<tr, up, down, srv, dropped, held, wr>>
    BY <1>2, <1>r DEF CloseReset, RelayOver, Holding, wireVars
  <2>c. PICK c \in Conns : c = held[s]
    BY <2>1
  <2>2. WireOK(c)
    BY <2>1, <2>c DEF PoolInv, WireInv
  <2>3. WireOK(c)'
    BY <1>2, <1>t, <2>2, <2>c, ResetWire
  <2>4. \A t \in Sessions : t # s => pc'[t] = pc[t]
    BY <2>1, <1>r
  <2>5. \A d \in Conns \ {c} :
          /\ reply'[d] = reply[d] /\ peerClosed'[d] = peerClosed[d]
          /\ \A t : /\ Serving(t, d)' <=> Serving(t, d)
                    /\ Writes(t, d)' <=> Writes(t, d)
                    /\ Relays(t, d)' <=> Relays(t, d)
    BY <2>1, <2>4, <2>c, <1>r DEF Serving, Writes, Relays
  <2>. QED BY <2>1, <2>3, <2>5, <2>c, OneStep
<1>3. CASE PutBack(s)
  <2>1. /\ pc[s] = "put" /\ UNCHANGED <<wireVars, connVars, wr>>
        /\ pc' = [pc EXCEPT ![s] = pc'[s]] /\ pc'[s] \in {"closed", "shut"}
        /\ held' = [held EXCEPT ![s] = held'[s]]
    BY <1>3, <1>t, <1>r, WireRanges DEF PutBack
  <2>. QED BY <2>1, IdleSession, KeepStep
<1>4. CASE Refused(s)
  BY <1>4, <1>r, ReleaseWire DEF Refused, Holding
<1>. QED BY <1>1, <1>2, <1>3, <1>4 DEF CloseStep

\* The server, and the loss of the stream.
LEMMA ServerWire ==
  ASSUME PoolInv, NEW c \in Conns, ServerStep(c)
  PROVE  WireInv'
<1>t. Typed /\ OwnInv BY DEF PoolInv, OwnInv
<1>r. /\ up \in [Conns -> Seq(Frame)] /\ down \in [Conns -> Seq(Frame)]
      /\ srv \in [Conns -> SrvState] /\ dropped \in [Conns -> BOOLEAN]
  BY <1>t, WireRanges
<1>. USE DEF poolVars, warmVars, connVars, sesVars, relVars
<1>1. CASE Drop(c)
  <2>1. /\ UNCHANGED <<held, pc, wr, wireVars, reply, peerClosed>>
        /\ \A d \in Conns : dropped[d] => dropped'[d]
    BY <1>1, <1>r DEF Drop
  <2>2. \A t, d : /\ Serving(t, d)' <=> Serving(t, d)
                  /\ Writes(t, d)' <=> Writes(t, d)
                  /\ Relays(t, d)' <=> Relays(t, d)
    BY <2>1, SameSessions
  <2>. QED BY <2>1, <2>2, KeepStep
<1>2. CASE SrvReceive(c) \/ SrvSend(c) \/ SrvNext(c)
  <2>1. /\ tr[c] = "open" /\ UNCHANGED <<held, pc, wr, tr, reply, peerClosed, dropped>>
        /\ \A d \in Conns \ {c} : up'[d] = up[d] /\ down'[d] = down[d] /\ srv'[d] = srv[d]
    BY <1>2, <1>r DEF SrvReceive, SrvSend, SrvNext, SrvOnly, Alive
  <2>2. \A t, d : /\ Serving(t, d)' <=> Serving(t, d)
                  /\ Writes(t, d)' <=> Writes(t, d)
                  /\ Relays(t, d)' <=> Relays(t, d)
    BY <2>1, SameSessions
  <2>3. WireOK(c)
    BY <2>1 DEF PoolInv, WireInv
  <2>4. WireOK(c)'
    BY <1>2, <1>t, <2>3, ReceiveWire, SendWire, NextWire
  <2>. QED BY <2>1, <2>2, <2>4, OneStep
<1>3. CASE Stall(c)
  <2>1. UNCHANGED <<held, pc, wr, reply, peerClosed, dropped, wireVars>>
    BY <1>3 DEF Stall
  <2>. QED BY <2>1, StandStep
<1>. QED BY <1>1, <1>2, <1>3 DEF ServerStep

LEMMA InitWire == Init => WireInv
BY DEF Init, WireInv, Fresh

LEMMA NextWireInv == PoolInv /\ [Next]_vars => PoolInv'
<1>. SUFFICES ASSUME PoolInv, [Next]_vars PROVE PoolInv' OBVIOUS
<1>0. OwnInv'
  BY NextOwn DEF PoolInv
<1>. USE DEF poolVars, warmVars, connVars, sesVars, relVars
<1>1. ASSUME NEW s \in Sessions, SessionStep(s) PROVE WireInv'
  BY <1>1, DialWire, RelayWire, CloseWire DEF SessionStep
<1>2. ASSUME NEW c \in Conns, ServerStep(c) PROVE WireInv'
  BY <1>2, ServerWire
<1>3. ASSUME WarmFactory \/ WarmPut \/ PoolClose \/ PoolShut \/ Tick \/ AllDone \/ UNCHANGED vars
      PROVE  WireInv'
  <2>1. UNCHANGED <<held, pc, wr, reply, peerClosed, dropped>>
    BY <1>3 DEF WarmFactory, WarmPut, PoolClose, PoolShut, Tick, AllDone, vars
  <2>2. \/ UNCHANGED wireVars
        \/ \E D : Shut(D)
        \/ \E c \in Conns : Open(c)
    BY <1>3 DEF WarmFactory, WarmPut, PoolClose, PoolShut, Tick, AllDone, vars
  <2>3. ASSUME NEW c \in Conns, Open(c) PROVE WireInv'
    BY <2>1, <2>3, SameSessions, OpenStep
  <2>. QED BY <2>1, <2>2, <2>3, StandStep
<1>7. WireInv'
  BY <1>1, <1>2, <1>3 DEF Next
<1>. QED BY <1>0, <1>7 DEF PoolInv

\* The invariant of a reused transport: what is in flight on it belongs to the session
\* in charge, or is the rest of one that both sides have finished.
THEOREM WireInvariant == Spec => []PoolInv
<1>1. Init => PoolInv
  BY InitOwn, InitWire DEF PoolInv
<1>. QED BY <1>1, NextWireInv, PTL DEF Spec

-----------------------------------------------------------------------------
\* A client's stream holds the bytes of its own session, on new and on reused
\* transports (pool.go pooledConn.Close, snell/v4.go Read, HalfClose).
THEOREM OwnBytesOnly == Spec => []NoCrossSession
<1>1. Init => NoCrossSession
  BY DEF Init, NoCrossSession
<1>2. PoolInv /\ NoCrossSession /\ [Next]_vars => NoCrossSession'
  <2>. SUFFICES ASSUME PoolInv, NoCrossSession, [Next]_vars PROVE NoCrossSession'
    OBVIOUS
  <2>t. Typed /\ OwnInv BY DEF PoolInv, OwnInv
  <2>. USE DEF poolVars, warmVars, connVars, wireVars, sesVars, relVars
  <2>1. ASSUME NEW s \in Sessions, ReadReply(s) \/ ReadPayload(s) PROVE NoCrossSession'
    <3>1. /\ held[s] \in Conns /\ tr[held[s]] = "open" /\ down[held[s]] \in Seq(Frame)
          /\ got \in [Sessions -> SUBSET Sessions] /\ down[held[s]] # <<>>
      BY <2>1, <2>t, WireRanges DEF ReadReply, ReadPayload, Typed, PcInv, Holding, OwnInv, Live
    <3>c. PICK c \in Conns : c = held[s]
      BY <3>1
    <3>2. 1 \in DOMAIN down[c] /\ Head(down[c]) = down[c][1]
      BY <3>1, <3>c, QueueTail
    <3>3. ~ZeroAt(c, 1) => down[c][1].ses = s
      <4>1. WireOK(c) BY <3>1, <3>c DEF PoolInv, WireInv
      <4>2. ~ZeroAt(c, 1) => Serving(down[c][1].ses, c)
        BY <4>1, <3>2 DEF WireOK, Delivered
      <4>. QED BY <4>2, <3>c, <2>t, Alone
    <3>4. got' = got \/ (~ZeroAt(c, 1) /\ got' = [got EXCEPT ![s] = @ \cup {down[c][1].ses}])
      BY <2>1, <3>2, <3>c DEF ReadReply, ReadPayload, ZeroAt
    <3>. QED BY <3>1, <3>3, <3>4 DEF NoCrossSession
  <2>2. CASE ~(\E s \in Sessions : ReadReply(s) \/ ReadPayload(s))
    <3>1. got' = got
      BY <2>2 DEF Next, SessionStep, DialStep, ReaderStep, CloseStep, ServerStep, Arrive, Take,
           Miss, Factory, Recheck, WriteConnect, WriteFails, StartRelay, Abort, WriteData,
           CloseWrite, ReadZero, ReadDrop, CloseDiscard, CloseReset, PutBack, SrvReceive,
           SrvSend, SrvNext, Drop, Stall, SrvOnly, PopClose, Refused, WarmFactory, WarmPut, PoolClose,
           PoolShut, Tick, Turn, AllDone, vars
    <3>. QED BY <3>1 DEF NoCrossSession
  <2>. QED BY <2>1, <2>2
<1>. QED BY <1>1, <1>2, WireInvariant, PTL DEF Spec

\* The server meets a CONNECT outside a session, and every other frame inside the one
\* it belongs to (snell/v4.go WriteConnect, HalfClose).
THEOREM RequestsFramed == Spec => []UpstreamFramed
<1>1. PoolInv => UpstreamFramed
  <2>. SUFFICES ASSUME PoolInv, NEW c \in Conns, tr[c] = "open", up[c] # <<>>
                PROVE  IF Head(up[c]).kind = "connect"
                       THEN srv[c].ses = NoSession \/ (srv[c].fin /\ srv[c].cfin)
                       ELSE srv[c].ses = Head(up[c]).ses /\ ~srv[c].cfin
    BY DEF UpstreamFramed
  <2>1. Framed(c) BY DEF PoolInv, WireInv, WireOK
  <2>2. up[c] \in Seq(Frame) BY WireRanges DEF PoolInv, OwnInv
  <2>3. Head(up[c]) = up[c][1] BY <2>2, QueueTail
  <2>. QED BY <2>1, <2>3 DEF Framed, ConnectAt
<1>. QED BY <1>1, WireInvariant, PTL
=============================================================================
