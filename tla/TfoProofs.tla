------------------------------ MODULE TfoProofs ------------------------------
(***************************************************************************)
(* The safety of the delayed dial for any number of messages and deadline  *)
(* changes: nothing leaks, the early data is sent once, deadlines hold.    *)
(***************************************************************************)
EXTENDS TfoConn, TLAPS

-----------------------------------------------------------------------------
(* The inductive invariant: what the fields of tfoConn, the TCP connection *)
(* and the callers can be in each stage of the Once.                       *)

\* The dial has a caller, which waits for it.
Caller ==
  /\ once = "free" => first = "none"
  /\ once # "free" => first \in {"w", "r"}
  /\ once \in {"dial", "publish"} => (IF first = "w" THEN w ELSE r) = "once"

\* Until publish nobody has the connection, and no message was accepted.
Before ==
  /\ once # "done" => /\ ~conn /\ ~err /\ acked = 0 /\ wn = 1
                      /\ w \in {"idle", "once", "failed"} /\ r \in {"idle", "once"}
  /\ once \in {"free", "dial"} => sock = "none" /\ wire = <<>>
  /\ once = "publish" => /\ sock = (IF dialed THEN "open" ELSE "none")
                         /\ wire = (IF dialed /\ first = "w" THEN <<1>> ELSE <<>>)

\* Afterwards either the connection is there, open until Close, or an error is.
After ==
  once = "done" =>
    /\ conn = ~err
    /\ conn => sock = (IF closed THEN "closed" ELSE "open")
    /\ err  => sock \in {"none", "closed"}

\* The writer's count, and how far the TCP connection has come.
Counts ==
  /\ wn = acked + 1
  /\ w \in {"once", "io"} => wn <= MaxMsgs
  /\ w = "io" => once = "done" /\ conn
  /\ once = "done" => IF conn THEN Len(wire) = acked ELSE acked = 0 /\ Len(wire) <= 1
  /\ \A i \in 1..Len(wire) : wire[i] = i

TfoInv == TypeOK /\ Caller /\ Before /\ After /\ Counts /\ DeadlinesKept

USE TfoAssumption DEF TfoAssumption

-----------------------------------------------------------------------------
LEMMA InitTfo == Init => TfoInv
<1>. SUFFICES ASSUME Init PROVE TfoInv OBVIOUS
<1>1. wire \in Seq(1..MaxMsgs) /\ Len(wire) = 0 /\ 1 \in 1..(MaxMsgs + 1)
  BY DEF Init
<1>2. TypeOK
  <2>1. once = "free" /\ first = "none" /\ sock = "none" /\ w = "idle" /\ r = "idle"
    BY DEF Init
  <2>2. ~dialed /\ ~conn /\ ~err /\ ~closed /\ {dialed, conn, err, closed} \subseteq BOOLEAN
    BY DEF Init
  <2>3. /\ rdl \in 0..MaxSets /\ wdl \in 0..MaxSets /\ sockR \in 0..MaxSets /\ sockW \in 0..MaxSets
        /\ wn \in 1..(MaxMsgs + 1) /\ acked \in 0..MaxMsgs
    BY DEF Init
  <2>. QED BY <1>1, <2>1, <2>2, <2>3 DEF TypeOK
<1>3. Counts
  BY <1>1 DEF Init, Counts
<1>. QED
  BY <1>2, <1>3 DEF Init, TfoInv, Caller, Before, After, DeadlinesKept

\* A caller comes, waits, or returns; nothing of the connection changes.
LEMMA CallerSteps ==
  ASSUME TfoInv, Enter \/ ReadEnter \/ StartDial \/ AfterOnce \/ ReadAfterOnce \/ SockRead
  PROVE  TfoInv'
<1>1. CASE Enter
  BY <1>1 DEF Enter, Fail, TfoInv, TypeOK, Caller, Before, After, Counts, DeadlinesKept,
              onceVars, dlVars
<1>2. CASE ReadEnter
  BY <1>2 DEF ReadEnter, TfoInv, TypeOK, Caller, Before, After, Counts, DeadlinesKept,
              onceVars, dlVars, wrVars
<1>3. CASE StartDial
  BY <1>3 DEF StartDial, TfoInv, TypeOK, Caller, Before, After, Counts, DeadlinesKept,
              dlVars, wrVars
<1>4. CASE AfterOnce
  BY <1>4 DEF AfterOnce, Fail, TfoInv, TypeOK, Caller, Before, After, Counts, DeadlinesKept,
              onceVars, dlVars
<1>5. CASE ReadAfterOnce
  BY <1>5 DEF ReadAfterOnce, TfoInv, TypeOK, Caller, Before, After, Counts, DeadlinesKept,
              onceVars, dlVars, wrVars
<1>6. CASE SockRead
  BY <1>6 DEF SockRead, TfoInv, TypeOK, Caller, Before, After, Counts, DeadlinesKept,
              onceVars, dlVars, wrVars
<1>. QED BY <1>1, <1>2, <1>3, <1>4, <1>5, <1>6

\* The dial: it yields a connection with the writer's first message, an empty one,
\* or none.
LEMMA DialStep == ASSUME TfoInv, Dial PROVE TfoInv'
<1>1. CASE DialOK
  <2>1. wire' \in Seq(1..MaxMsgs) /\ \A i \in 1..Len(wire') : wire'[i] = i
    <3>1. CASE first = "w"
      <4>1. wn = 1 /\ wire' = <<1>>
        BY <1>1, <3>1 DEF DialOK, TfoInv, Before
      <4>. QED BY <4>1
    <3>2. CASE first # "w"
      BY <1>1, <3>2 DEF DialOK
    <3>. QED BY <3>1, <3>2
  <2>. QED
    BY <1>1, <2>1 DEF DialOK, TfoInv, TypeOK, Caller, Before, After, Counts, DeadlinesKept,
                      dlVars, wrVars
<1>2. CASE DialFails
  BY <1>2 DEF DialFails, TfoInv, TypeOK, Caller, Before, After, Counts, DeadlinesKept,
              dlVars, wrVars
<1>. QED BY <1>1, <1>2 DEF Dial

\* publish: the connection with the deadlines recorded so far, or an error and a
\* closed one; the early data was accepted only if the caller was the writer.
LEMMA PublishStep == ASSUME TfoInv, Publish PROVE TfoInv'
<1>1. /\ once = "publish" /\ once' = "done" /\ acked = 0 /\ wn = 1
      /\ UNCHANGED <<first, dialed, closed, rdl, wdl, wire>>
      /\ first \in {"w", "r"} /\ FirstReturns
  BY DEF Publish, TfoInv, Caller, Before
<1>2. \/ /\ conn' = TRUE /\ err' = FALSE /\ ~closed /\ dialed /\ sock' = "open"
         /\ sockR' = rdl /\ sockW' = wdl
      \/ /\ conn' = FALSE /\ err' = TRUE /\ sock' \in {"none", "closed"}
         /\ UNCHANGED <<sockR, sockW>>
  BY DEF Publish, TfoInv, Before
<1>3. Len(wire) = (IF dialed /\ first = "w" THEN 1 ELSE 0)
  BY <1>1 DEF TfoInv, Before
<1>4. CASE first = "w"
  <2>1. /\ r' = r /\ w = "once"
        /\ IF err' THEN w' = "failed" /\ acked' = 0 /\ wn' = 1
                   ELSE w' = "idle" /\ acked' = 1 /\ wn' = 2
    BY <1>1, <1>4 DEF FirstReturns, Fail, Acked, TfoInv, Caller
  <2>1a. w' \in {"idle", "failed"} /\ acked' \in 0..MaxMsgs /\ wn' \in 1..(MaxMsgs + 1)
    BY <2>1
  <2>2. TypeOK'
    BY <1>1, <1>2, <2>1, <2>1a DEF TfoInv, TypeOK
  <2>3. Caller' /\ Before' /\ After' /\ DeadlinesKept'
    BY <1>1, <1>2, <1>4, <2>1 DEF TfoInv, TypeOK, Caller, Before, After, DeadlinesKept
  <2>4. Counts'
    BY <1>1, <1>2, <1>3, <1>4, <2>1 DEF TfoInv, TypeOK, Before, Counts
  <2>. QED BY <2>2, <2>3, <2>4 DEF TfoInv
<1>5. CASE first = "r"
  <2>1. r' = "post" /\ UNCHANGED wrVars
    BY <1>1, <1>5 DEF FirstReturns
  <2>2. TypeOK'
    BY <1>1, <1>2, <1>5, <2>1 DEF TfoInv, TypeOK, wrVars
  <2>3. Caller' /\ Before' /\ After' /\ DeadlinesKept'
    BY <1>1, <1>2, <1>5, <2>1 DEF TfoInv, TypeOK, Caller, Before, After, DeadlinesKept, wrVars
  <2>4. Counts'
    BY <1>1, <1>2, <1>3, <1>5, <2>1 DEF TfoInv, TypeOK, Before, Counts, wrVars
  <2>. QED BY <2>2, <2>3, <2>4 DEF TfoInv
<1>. QED BY <1>1, <1>4, <1>5

\* conn.Write: the next message, appended; or a failure.
LEMMA SockWriteStep == ASSUME TfoInv, SockWrite PROVE TfoInv'
<1>1. /\ once = "done" /\ conn /\ Len(wire) = acked /\ wn = acked + 1 /\ wn <= MaxMsgs
      /\ wire \in Seq(1..MaxMsgs) /\ acked \in Nat
  BY DEF SockWrite, TfoInv, TypeOK, Counts
<1>2. CASE wire' = Append(wire, wn) /\ Acked
  <2>1. /\ wire' \in Seq(1..MaxMsgs) /\ Len(wire') = acked + 1
        /\ \A i \in 1..Len(wire') : wire'[i] = i
    BY <1>1, <1>2 DEF TfoInv, Counts
  <2>2. acked' = acked + 1 /\ wn' = wn + 1 /\ w' = "idle"
        /\ UNCHANGED <<once, first, dialed, conn, err, closed, rdl, wdl, sock, sockR, sockW, r>>
    BY <1>1, <1>2 DEF SockWrite, Acked, onceVars, dlVars
  <2>3. TypeOK'
    BY <1>1, <2>1, <2>2 DEF TfoInv, TypeOK
  <2>4. Caller' /\ Before' /\ After' /\ DeadlinesKept'
    BY <1>1, <2>2 DEF TfoInv, Caller, Before, After, DeadlinesKept
  <2>5. Counts'
    BY <1>1, <2>1, <2>2 DEF Counts
  <2>. QED BY <2>3, <2>4, <2>5 DEF TfoInv
<1>3. CASE Fail /\ UNCHANGED wire
  BY <1>1, <1>3 DEF SockWrite, Fail, TfoInv, TypeOK, Caller, Before, After, Counts,
                    DeadlinesKept, onceVars, dlVars
<1>. QED BY <1>2, <1>3 DEF SockWrite

LEMMA CloseStep == ASSUME TfoInv, Close PROVE TfoInv'
BY DEF Close, TfoInv, TypeOK, Caller, Before, After, Counts, DeadlinesKept,
       onceVars, dlVars, wrVars

\* A deadline is recorded and, on an open connection, set at once.
LEMMA DeadlineStep == ASSUME TfoInv, SetDeadline PROVE TfoInv'
<1>1. /\ rdl' \in 0..MaxSets /\ wdl' \in 0..MaxSets
      /\ sockR' \in 0..MaxSets /\ sockW' \in 0..MaxSets
  BY DEF SetDeadline, TfoInv, TypeOK
<1>2. DeadlinesKept'
  BY DEF SetDeadline, TfoInv, DeadlinesKept
<1>. QED
  BY <1>1, <1>2 DEF SetDeadline, TfoInv, TypeOK, Caller, Before, After, Counts,
                    onceVars, wrVars

LEMMA NextTfo == TfoInv /\ [Next]_vars => TfoInv'
<1>. SUFFICES ASSUME TfoInv, [Next]_vars PROVE TfoInv' OBVIOUS
<1>1. CASE UNCHANGED vars \/ AllDone
  BY <1>1 DEF AllDone, vars, onceVars, dlVars, wrVars, TfoInv, TypeOK, Caller, Before, After,
              Counts, DeadlinesKept
<1>. QED
  BY <1>1, CallerSteps, DialStep, PublishStep, SockWriteStep, CloseStep, DeadlineStep DEF Next

-----------------------------------------------------------------------------
\* The invariant of the delayed dial (tfo.go ensure, publish and the methods
\* around them).
THEOREM TfoInvariant == Spec => []TfoInv
BY InitTfo, NextTfo, PTL DEF Spec

\* However Close, Write, Read and the dial interleave, the TCP connection is open
\* after the dial exactly while the tfoConn holds it (publish, Close).
THEOREM NothingLeaks == Spec => []NoLeak
<1>1. TfoInv => NoLeak
  BY DEF TfoInv, TypeOK, After, NoLeak
<1>. QED BY <1>1, TfoInvariant, PTL

\* The messages are on the TCP connection in order and once, the early data with
\* them, and a message that was accepted is there (Write).
THEOREM EarlyDataOnce == Spec => []ExactlyOnce
<1>1. ASSUME TfoInv PROVE ExactlyOnce
  <2>1. wire \in Seq(1..MaxMsgs) /\ acked \in Nat /\ conn \in BOOLEAN /\ err \in BOOLEAN
    BY <1>1 DEF TfoInv, TypeOK
  <2>. QED BY <1>1, <2>1 DEF TfoInv, After, Counts, ExactlyOnce
<1>. QED BY <1>1, TfoInvariant, PTL

\* The connection obeys the deadlines set last, whenever they were (SetDeadline,
\* publish).
THEOREM LastDeadlines == Spec => []DeadlinesKept
<1>1. TfoInv => DeadlinesKept
  BY DEF TfoInv
<1>. QED BY <1>1, TfoInvariant, PTL
=============================================================================
