----------------------------- MODULE SessionProofs -----------------------------
(***************************************************************************)
(* The safety of a client connection and its dial, for any amount of       *)
(* payload and any number of addresses: no dial without credentials, no    *)
(* socket left when the connection is closed, no address left out, and no  *)
(* byte lost between two ends that stay.                                   *)
(***************************************************************************)
EXTENDS Session, TLAPS

-----------------------------------------------------------------------------
(* The inductive invariant: how far the dial is at each point of the       *)
(* handler, and when there is a socket.                                    *)

Places == {"peek", "auth", "request", "dial", "ack", "relay", "associate", "close", "closed"}
Holding == {"shake", "upgrade", "open", "reply", "ok"}
Dialing == {"lookup", "connect", "err"} \cup Holding

Kinds ==
  /\ pc \in Places /\ ph \in {"idle", "over"} \cup Dialing
  /\ up \in {"none", "open", "closed"} /\ reuse \in BOOLEAN

\* The handler waits for its dial, and a node with a pool does not dial itself.
Waiting ==
  /\ pc \in {"peek", "auth", "request"} => ph = "idle" /\ up = "none"
  /\ pc = "dial" => up = "none" /\ ph # "over" /\ (reuse => ph = "idle")
  /\ pc = "associate" => up = "none" /\ ph # "over"
  /\ pc \in {"ack", "relay"} => up = "open"
  /\ pc \in {"ack", "relay", "close", "closed"} => ph \in {"idle", "over"}
  /\ pc = "close" => up # "closed"
  /\ pc = "closed" => up # "open"
  /\ (up # "none" /\ ~reuse) => ph = "over"

\* A socket belongs to the dial, and after it to the upstream without a pool.
Socket ==
  socks = IF ph \in Holding \/ (ph = "over" /\ up = "open" /\ ~reuse) THEN 1 ELSE 0

Entitled ==
  needAuth =>
    /\ pc \in {"request", "dial", "ack", "relay", "associate"} => authed
    /\ (up # "none" \/ ph # "idle") => authed

OwnedInv == Kinds /\ Waiting /\ Socket /\ Entitled

\* What the invariant speaks of.
owned == <<needAuth, reuse, pc, authed, up, ph, socks>>

-----------------------------------------------------------------------------
LEMMA InitOwned == Init => OwnedInv
BY DEF Init, MixedInit, DialInit, OwnedInv, Kinds, Waiting, Socket, Entitled, Places, Holding, Dialing

\* Payload moves, ends end and break: none of it matters here.
LEMMA FrameStep == ASSUME OwnedInv, UNCHANGED owned PROVE OwnedInv'
BY DEF OwnedInv, Kinds, Waiting, Socket, Entitled, owned

LEMMA EndsStep == ASSUME Ends, UNCHANGED dialVars PROVE UNCHANGED owned
<1>1. CASE ClientSends BY <1>1 DEF ClientSends, owned, cfg, dialVars
<1>2. CASE ClientBreaks BY <1>2 DEF ClientBreaks, owned, cfg, dialVars
<1>3. CASE UpSends BY <1>3 DEF UpSends, owned, cfg, dialVars
<1>4. CASE UpBreaks BY <1>4 DEF UpBreaks, owned, cfg, dialVars
<1>5. CASE ClientStops \/ UpStops BY <1>5 DEF ClientStops, UpStops, owned, cfg, dialVars
<1>. QED BY <1>1, <1>2, <1>3, <1>4, <1>5 DEF Ends

\* The handshake asks for credentials before it goes on, and dials nothing.
LEMMA ServeStepOwned == ASSUME OwnedInv, Server, UNCHANGED dialVars PROVE OwnedInv'
<1>. USE DEF OwnedInv, Kinds, Waiting, Socket, Entitled, Places, dialVars, cfg
<1>1. CASE Greet BY <1>1 DEF Greet, Goto, Waits
<1>2. CASE Login BY <1>2 DEF Login, Goto, Waits
<1>3. CASE Request BY <1>3 DEF Request, Goto, Waits
<1>4. CASE Associate BY <1>4 DEF Associate, Goto
<1>5. CASE Refuse BY <1>5 DEF Refuse, Goto
<1>6. CASE Timeout BY <1>6 DEF Timeout, Goto
<1>7. CASE Ack BY <1>7 DEF Ack, Goto
<1>8. CASE RelayReturns BY <1>8 DEF RelayReturns, Goto
<1>9. CASE CopyUp \/ CopyUpFails \/ CopyDown
  BY <1>9, FrameStep DEF CopyUp, CopyUpFails, CopyDown, owned
<1>. QED BY <1>1, <1>2, <1>3, <1>4, <1>5, <1>6, <1>7, <1>8, <1>9 DEF Server, ServeStep

\* Each way a dial goes on keeps or gives up the one socket it has.
LEMMA DialStep == ASSUME OwnedInv, Dials, UNCHANGED mixedVars PROVE OwnedInv'
<1>. USE DEF OwnedInv, Kinds, Waiting, Socket, Entitled, Holding, Dialing, mixedVars, cfg, Places
<1>1. CASE Destinations BY <1>1 DEF Destinations, AttemptFails
<1>2. CASE Connect
  <2>1. /\ ph = "connect"
        /\ \/ ph' = "shake" /\ socks' = socks + 1
           \/ ph' \in {"connect", "lookup", "err"} /\ socks' = socks
    BY <1>2, ZenonT(30) DEF Connect, Refused, AttemptFails
  <2>. QED BY <2>1
<1>3. CASE ShakeFails BY <1>3 DEF ShakeFails, AttemptFails
<1>4. CASE ShakeOK
  <2>1. /\ ph = "shake"
        /\ \/ ph' \in {"upgrade", "open"} /\ socks' = socks
           \/ ph' = "err" /\ socks' = socks - 1
    BY <1>4, ZenonT(30) DEF ShakeOK, GivesUp
  <2>. QED BY <2>1
<1>5. CASE Upgrade BY <1>5 DEF Upgrade, GivesUp
<1>6. CASE Open BY <1>6 DEF Open, GivesUp
<1>7. CASE Reply BY <1>7 DEF Reply, GivesUp
<1>8. CASE Expires BY <1>8, FrameStep DEF Expires, owned
<1>. QED BY <1>1, <1>2, <1>3, <1>4, <1>5, <1>6, <1>7, <1>8 DEF Dials, DialProceeds

\* The calls, their returns, and the deferred closes.
LEMMA CallStep == ASSUME OwnedInv, Calls \/ Handles \/ AssociateOver PROVE OwnedInv'
<1>. USE DEF OwnedInv, Kinds, Waiting, Socket, Entitled, Holding, Dialing, mixedVars, dialVars, cfg, Places
<1>1. CASE ConnectDials BY <1>1 DEF ConnectDials, DialStarts
<1>2. CASE AssociateDials BY <1>2 DEF AssociateDials, DialStarts
<1>3. CASE Dialed BY <1>3 DEF Dialed, DialOK, Returns, Goto
<1>4. CASE DialFailed BY <1>4 DEF DialFailed, DialFails, Returns, Goto
<1>5. CASE AssociateRefused BY <1>5 DEF AssociateRefused, AssociateEnds, Returns, Goto
<1>6. CASE AssociateOver BY <1>6 DEF AssociateOver, AssociateEnds, Returns, Goto
<1>7. CASE CloseAll BY <1>7 DEF CloseAll, Closes, Hangup, Goto
<1>. QED BY <1>1, <1>2, <1>3, <1>4, <1>5, <1>6, <1>7 DEF Calls, Handles

LEMMA NextOwned == OwnedInv /\ [Next]_vars => OwnedInv'
<1>. SUFFICES ASSUME OwnedInv, [Next]_vars PROVE OwnedInv' OBVIOUS
<1>1. CASE Ends /\ UNCHANGED dialVars BY <1>1, EndsStep, FrameStep
<1>2. CASE AllDone \/ UNCHANGED vars
  BY <1>2, FrameStep DEF AllDone, vars, mixedVars, dialVars, cfg, owned
<1>. QED BY <1>1, <1>2, ServeStepOwned, DialStep, CallStep DEF Next

\* The inductive invariant holds.
THEOREM OwnedInvariant == Spec => []OwnedInv
<1>. QED BY InitOwned, NextOwned, PTL DEF Spec

\* Nobody makes the program dial without credentials, and a closed connection has
\* left no socket and no upstream open (serve, Dial, ListenPacket).
THEOREM NoStrangerNoSocket == Spec => []UpstreamOwned
<1>1. OwnedInv => UpstreamOwned
  BY DEF OwnedInv, UpstreamOwned, Kinds, Waiting, Socket, Entitled, Holding
<1>. QED BY <1>1, OwnedInvariant, PTL

-----------------------------------------------------------------------------
(* NothingUntried: the record of each handshake is complete before the     *)
(* next begins or the dial fails.                                          *)

Records == [found : Nat, tried : Nat, connected : BOOLEAN]
Complete(e) == e.connected \/ e.tried = e.found
AllowsTwo == nd.legacy /\ nd.path
Quiet == {"idle", "over"}

\* How many records there are, and which of them is still open.
Recorded ==
  /\ log \in Seq(Records) /\ try \in {1, 2} /\ (try = 2 => AllowsTwo)
  /\ ph \in Quiet \cup Dialing
  /\ ph \in Quiet => log = <<>> /\ try = 1 /\ ~shook
  /\ ph = "lookup" => Len(log) = try - 1 /\ ~shook
  /\ ph \in {"connect", "shake"} => Len(log) = try /\ ~shook
  /\ ph \in {"upgrade", "open", "reply", "ok"} => shook
  /\ (ph = "err" /\ ~shook) => Len(log) = try /\ (AllowsTwo => try = 2)
  /\ ph = "connect" => left \in Nat \ {0} /\ log[try].found = log[try].tried + left
  /\ \A t \in DOMAIN log : t < try \/ ph \notin {"connect"} => Complete(log[t])

\* Log replaces the record of this handshake, and leaves the earlier one alone.
LEMMA LogEffect ==
  ASSUME Recorded, Len(log) \in {try - 1, try}, NEW e \in Records, Log(e.found, e.tried, e.connected)
  PROVE  /\ log' \in Seq(Records) /\ Len(log') = try /\ log'[try] = e
         /\ \A t \in DOMAIN log' : t < try => t \in DOMAIN log /\ log'[t] = log[t]
<1>1. e = [found |-> e.found, tried |-> e.tried, connected |-> e.connected]
  BY DEF Records
<1>2. DEFINE old == SubSeq(log, 1, try - 1)
<1>3. old \in Seq(Records) /\ Len(old) = try - 1 /\ \A t \in 1..(try - 1) : old[t] = log[t]
  BY DEF Recorded
<1>4. log' = Append(old, e)
  BY <1>1 DEF Log
<1>. HIDE DEF old
<1>. QED BY <1>3, <1>4 DEF Recorded

\* The first handshake is followed by the second, if the node allows it.
LEMMA AttemptStep ==
  ASSUME Recorded, AttemptFails, UNCHANGED <<nd, shook>>, ~shook,
         log' \in Seq(Records), Len(log') = try, \A t \in DOMAIN log' : Complete(log'[t])
  PROVE  Recorded'
BY DEF Recorded, AttemptFails, AllowsTwo, Quiet, Dialing, Holding, Complete

LEMMA DestinationsStep == ASSUME Recorded, Destinations PROVE Recorded'
<1>1. ph = "lookup" /\ ~shook /\ Len(log) = try - 1 /\ \A t \in DOMAIN log : Complete(log[t])
  BY DEF Destinations, Recorded
<1>2. UNCHANGED <<nd, shook>>
  BY DEF Destinations
<1>3. CASE AttemptFails /\ Log(0, 0, FALSE)
  <2>. DEFINE e == [found |-> 0, tried |-> 0, connected |-> FALSE]
  <2>1. e \in Records /\ Log(e.found, e.tried, e.connected) /\ Complete(e)
    BY <1>3 DEF Records, Complete
  <2>. HIDE DEF e
  <2>2. /\ log' \in Seq(Records) /\ Len(log') = try /\ log'[try] = e
        /\ \A t \in DOMAIN log' : t < try => t \in DOMAIN log /\ log'[t] = log[t]
    BY <1>1, <2>1, LogEffect
  <2>3. \A t \in DOMAIN log' : Complete(log'[t])
    BY <1>1, <2>1, <2>2 DEF Recorded
  <2>. QED BY <1>1, <1>2, <1>3, <2>2, <2>3, AttemptStep
<1>4. ASSUME NEW n \in 1..MaxAddrs, ph' = "connect", left' = n, Log(n, 0, FALSE), UNCHANGED try
      PROVE  Recorded'
  <2>. DEFINE e == [found |-> n, tried |-> 0, connected |-> FALSE]
  <2>0. n \in Nat \ {0}
    BY DialAssumption DEF DialAssumption
  <2>1. /\ e.found = n /\ e.tried = 0 /\ e \in Records
        /\ Log(e.found, e.tried, e.connected)
    BY <1>4, <2>0 DEF Records
  <2>. HIDE DEF e
  <2>2. /\ log' \in Seq(Records) /\ Len(log') = try /\ log'[try] = e
        /\ \A t \in DOMAIN log' : t < try => t \in DOMAIN log /\ log'[t] = log[t]
    BY <1>1, <2>1, LogEffect
  <2>. QED
    <3>1. log'[try].found = log'[try].tried + left'
      BY <1>4, <2>0, <2>1, <2>2
    <3>2. \A t \in DOMAIN log' : t < try => Complete(log'[t])
      BY <1>1, <2>2
    <3>. QED
      BY <1>1, <1>2, <1>4, <2>0, <2>2, <3>1, <3>2
      DEF Recorded, AllowsTwo, Quiet, Dialing, Holding, Complete
<1>. QED BY <1>3, <1>4 DEF Destinations

LEMMA ConnectStep == ASSUME Recorded, Connect PROVE Recorded'
<1>. DEFINE old == log[try]
<1>1. /\ ph = "connect" /\ ~shook /\ Len(log) = try /\ old \in Records
      /\ left \in Nat \ {0} /\ old.found = old.tried + left
      /\ \A t \in DOMAIN log : t < try => Complete(log[t])
  BY DEF Connect, Recorded
<1>2. UNCHANGED <<nd, shook>>
  BY DEF Connect
<1>. DEFINE e(c) == [found |-> old.found, tried |-> old.found - left + 1, connected |-> c]
<1>3. ASSUME NEW c \in BOOLEAN PROVE e(c) \in Records
  BY <1>1 DEF Records
<1>4. CASE /\ ph' = "shake" /\ Log(old.found, old.found - left + 1, TRUE) /\ UNCHANGED try
  <2>1. e(TRUE) \in Records /\ Complete(e(TRUE)) /\ Log(e(TRUE).found, e(TRUE).tried, e(TRUE).connected)
    BY <1>3, <1>4 DEF Complete
  <2>. HIDE DEF e
  <2>2. /\ log' \in Seq(Records) /\ Len(log') = try /\ log'[try] = e(TRUE)
        /\ \A t \in DOMAIN log' : t < try => t \in DOMAIN log /\ log'[t] = log[t]
    BY <1>1, <2>1, LogEffect
  <2>3. \A t \in DOMAIN log' : t < try \/ t = try
    BY <2>2 DEF Recorded
  <2>4. \A t \in DOMAIN log' : Complete(log'[t])
    BY <1>1, <2>1, <2>2, <2>3
  <2>. QED
    BY <1>1, <1>2, <1>4, <2>2, <2>4 DEF Recorded, AllowsTwo, Quiet, Dialing, Holding
<1>5. CASE Refused /\ Log(old.found, old.found - left + 1, FALSE)
  <2>1. /\ e(FALSE) \in Records /\ Log(e(FALSE).found, e(FALSE).tried, e(FALSE).connected)
        /\ e(FALSE).found = old.found /\ e(FALSE).tried = old.found - left + 1
    BY <1>3, <1>5
  <2>2. PICK f \in Records : f = e(FALSE)
    BY <2>1
  <2>. HIDE DEF e
  <2>3. /\ log' \in Seq(Records) /\ Len(log') = try /\ log'[try] = f
        /\ \A t \in DOMAIN log' : t < try => t \in DOMAIN log /\ log'[t] = log[t]
    BY <1>1, <2>1, <2>2, LogEffect
  <2>4. \A t \in DOMAIN log' : t < try => Complete(log'[t])
    BY <1>1, <2>3
  <2>5. f.found \in Nat /\ f.tried \in Nat /\ f.found = f.tried + (left - 1)
    <3>1. old.found \in Nat /\ old.tried \in Nat
      BY <1>1 DEF Records
    <3>2. f.found = old.found /\ f.tried = old.found - left + 1
      BY <2>1, <2>2
    <3>3. old.found - left + 1 = old.tried + 1
      BY <1>1, <3>1
    <3>. QED BY <1>1, <3>1, <3>2, <3>3
  <2>6. CASE left = 1
    <3>1. Complete(f)
      BY <2>5, <2>6 DEF Complete
    <3>2. \A t \in DOMAIN log' : t < try \/ t = try
      BY <2>3 DEF Recorded
    <3>3. \A t \in DOMAIN log' : Complete(log'[t])
      BY <2>3, <2>4, <3>1, <3>2
    <3>. QED BY <1>1, <1>2, <1>5, <2>3, <2>6, <3>3, AttemptStep DEF Refused
  <2>7. CASE left # 1
    <3>1. ph' = "connect" /\ try' = try /\ left' = left - 1 /\ left' \in Nat \ {0}
      BY <1>1, <1>5, <2>7 DEF Refused
    <3>2. log'[try].found = log'[try].tried + left'
      BY <2>3, <2>5, <3>1
    <3>. QED
      BY <1>1, <1>2, <2>3, <2>4, <3>1, <3>2
      DEF Recorded, AllowsTwo, Quiet, Dialing, Holding, Complete
  <2>. QED BY <2>6, <2>7
<1>. QED BY <1>4, <1>5 DEF Connect

LEMMA ShakeFailsStep == ASSUME Recorded, ShakeFails PROVE Recorded'
<1>1. /\ ph = "shake" /\ ~shook /\ log' = log /\ Len(log) = try /\ AttemptFails
      /\ UNCHANGED <<nd, shook>> /\ log \in Seq(Records) /\ \A t \in DOMAIN log : Complete(log[t])
  BY DEF ShakeFails, Recorded, histVars
<1>. QED BY <1>1, AttemptStep

\* From the handshake on there is nothing more to record.
LEMMA LateStep ==
  ASSUME Recorded, ShakeOK \/ Upgrade \/ Open \/ Reply \/ Expires PROVE Recorded'
<1>1. /\ UNCHANGED <<nd, try, left, log>>
      /\ \/ UNCHANGED <<ph, shook>>
         \/ ph = "shake" /\ shook' /\ ph' \in {"upgrade", "open", "err"}
         \/ ph \in {"upgrade", "open", "reply"} /\ shook' = shook /\ ph' \in {"open", "reply", "ok", "err"}
  <2>1. CASE ShakeOK BY <2>1, ZenonT(30) DEF ShakeOK, GivesUp
  <2>2. CASE Upgrade BY <2>2, ZenonT(30) DEF Upgrade, GivesUp, histVars
  <2>3. CASE Open BY <2>3, ZenonT(30) DEF Open, GivesUp, histVars
  <2>4. CASE Reply BY <2>4, ZenonT(30) DEF Reply, GivesUp, histVars
  <2>5. CASE Expires BY <2>5, ZenonT(30) DEF Expires, histVars
  <2>. QED BY <2>1, <2>2, <2>3, <2>4, <2>5
<1>. QED BY <1>1 DEF Recorded, AllowsTwo, Quiet, Dialing, Holding

LEMMA OutsideStep ==
  ASSUME Recorded, Calls \/ Handles \/ AssociateOver \/ UNCHANGED dialVars PROVE Recorded'
<1>1. CASE UNCHANGED dialVars \/ CloseAll
  <2>1. UNCHANGED <<nd, ph, try, left, shook, log>>
    BY <1>1 DEF dialVars, CloseAll, Hangup, histVars
  <2>. QED BY <2>1 DEF Recorded, AllowsTwo
<1>2. CASE Calls
  <2>1. ph = "idle" /\ ph' = "lookup" /\ UNCHANGED <<try, shook, log>>
    BY <1>2 DEF Calls, ConnectDials, AssociateDials, DialStarts, histVars
  <2>. QED BY <2>1 DEF Recorded, AllowsTwo, Quiet, Dialing, Holding
<1>3. CASE (\E n \in {socks, socks - 1} : Returns(n))
  BY <1>3 DEF Returns, Recorded, Quiet, Dialing, Holding
<1>4. CASE Dialed \/ DialFailed \/ AssociateRefused \/ AssociateOver
  <2>1. UNCHANGED dialVars \/ \E n \in {socks, socks - 1} : Returns(n)
    BY <1>4 DEF Dialed, DialFailed, AssociateRefused, AssociateOver
  <2>. QED BY <1>1, <1>3, <2>1
<1>. QED BY <1>1, <1>2, <1>4 DEF Handles

\* However it ended, a dial without a handshake has tried everything it could.
THEOREM EverythingTried == Spec => []NothingUntried
<1>1. Init => Recorded
  <2>. SUFFICES ASSUME Init PROVE Recorded OBVIOUS
  <2>1. log = <<>> /\ try = 1 /\ ph = "idle" /\ ~shook
    BY DEF Init, DialInit
  <2>. QED BY <2>1 DEF Recorded, Quiet, Dialing, Holding
<1>2. Recorded /\ [Next]_vars => Recorded'
  <2>. SUFFICES ASSUME Recorded, [Next]_vars PROVE Recorded' OBVIOUS
  <2>1. CASE Dials
    BY <2>1, DestinationsStep, ConnectStep, ShakeFailsStep, LateStep DEF Dials, DialProceeds
  <2>2. CASE UNCHANGED dialVars \/ Calls \/ Handles \/ AssociateOver
    BY <2>2, OutsideStep
  <2>. QED BY <2>1, <2>2 DEF Next, AllDone, vars
<1>3. Recorded => NothingUntried
  BY DEF Recorded, NothingUntried, AllowsTwo, Complete
<1>. QED BY <1>1, <1>2, <1>3, PTL DEF Spec

-----------------------------------------------------------------------------
(* NothingLost: what is on its way in each direction, as long as neither   *)
(* end has broken.                                                         *)

Words == {"methods", "nomethod", "login", "badlogin", "connect", "associate", "badrequest",
          "http", "httpauth", "httpother"}
Copies == {"off", "run", "done", "err"}
Unbroken == ~cgone /\ ~upGone

Amounts ==
  /\ todo \in Seq(Words) /\ inq \in Seq(Words \cup {"data", "eof"})
  /\ sent \in Nat /\ upGot \in Nat /\ upSent \in Nat /\ upq \in Nat /\ clGot \in Nat

\* Where the relay is, and that its ends are the only ends of a copy.
Stages ==
  /\ c2u \in Copies /\ u2c \in Copies /\ (c2u = "off" <=> u2c = "off")
  /\ pc \in Handshake \cup {"associate"} => c2u = "off"
  /\ pc = "relay" => c2u # "off"
  /\ pc \in {"close", "closed"} => c2u # "run" /\ u2c # "run"
  /\ c2u # "off" => ~deadline
  /\ upEof => c2u \in {"done", "err"}
  /\ clEof => u2c \in {"done", "err"}

\* The end of the client's stream has been sent and not been read.
Ending == IF cfin /\ c2u # "done" THEN 1 ELSE 0

\* What is not read: m messages of the opening, the payload that is owed to the
\* upstream, the end.
Pipeline(m) ==
  /\ Len(inq) = m + (sent - upGot) + Ending
  /\ upGot \leq sent
  /\ \A i \in 1..Len(inq) :
       /\ i \leq m => inq[i] \in Words
       /\ (i > m /\ i \leq m + (sent - upGot)) => inq[i] = "data"
       /\ i > m + (sent - upGot) => inq[i] = "eof"

Upward ==
  /\ todo # <<>> => sent = 0
  /\ c2u # "err"
  /\ c2u = "done" => cfin /\ inq = <<>>
  /\ \E m \in 0..Len(inq) : Pipeline(m)

Downward ==
  /\ u2c # "err"
  /\ upSent = clGot + upq
  /\ u2c = "done" => upFin /\ upq = 0

LossInv == Amounts /\ Stages /\ (Unbroken => Upward /\ Downward)

\* Payload that moves in neither direction: only where serve and the copies are.
moved == <<todo, inq, sent, cfin, cgone, upGot, upSent, upq, upFin, upGone, clGot>>

LEMMA InitLoss == Init => LossInv
<1>. SUFFICES ASSUME Init PROVE LossInv OBVIOUS
<1>1. /\ pc = "peek" /\ todo \in Openings /\ inq = <<>> /\ sent = 0 /\ ~cfin
      /\ upGot = 0 /\ ~upEof /\ upSent = 0 /\ upq = 0 /\ clGot = 0 /\ ~clEof
      /\ c2u = "off" /\ u2c = "off"
  BY DEF Init, MixedInit
<1>2. todo \in Seq(Words)
  <2>1. {"methods", "nomethod", "login", "badlogin", "connect", "associate", "badrequest",
         "http", "httpauth", "httpother"} \subseteq Words
    BY DEF Words
  <2>2. \A a \in Words : <<a>> \in Seq(Words)
    OBVIOUS
  <2>3. \A a, b \in Words : <<a, b>> \in Seq(Words)
    OBVIOUS
  <2>4. \A a, b, c \in Words : <<a, b, c>> \in Seq(Words)
    OBVIOUS
  <2>5. CASE todo \in {<<"nomethod">>, <<"http">>, <<"httpauth">>, <<"httpother">>}
    BY <2>1, <2>2, <2>5
  <2>6. CASE todo \in {<<"methods", "connect">>, <<"methods", "associate">>, <<"methods", "badrequest">>}
    BY <2>1, <2>3, <2>6
  <2>7. CASE todo \in {<<"methods", "login", "connect">>, <<"methods", "login", "associate">>,
                       <<"methods", "badlogin", "connect">>}
    BY <2>1, <2>4, <2>7
  <2>. QED BY <1>1, <2>5, <2>6, <2>7, Zenon DEF Openings
<1>3. Stages
  BY <1>1 DEF Stages, Copies
<1>4. Pipeline(0)
  BY <1>1 DEF Pipeline, Ending
<1>. QED BY <1>1, <1>2, <1>3, <1>4 DEF LossInv, Amounts, Upward, Downward

\* The steps of serve and of the copies between the places.
LEMMA StagesStep == ASSUME Stages, [Next]_vars PROVE Stages'
<1>. USE DEF Stages, Copies, Handshake
<1>1. CASE ServeStep \/ Timeout \/ AssociateEnds \/ DialOK \/ DialFails \/ Closes
  <2>. USE DEF Goto, relayVars, upVars, Waits
  <2>1. CASE Greet BY <2>1 DEF Greet
  <2>2. CASE Login BY <2>2 DEF Login
  <2>3. CASE Request BY <2>3 DEF Request
  <2>4. CASE Associate BY <2>4 DEF Associate
  <2>5. CASE Refuse BY <2>5 DEF Refuse
  <2>6. CASE Timeout BY <2>6 DEF Timeout
  <2>7. CASE Ack BY <2>7 DEF Ack
  <2>8. CASE RelayReturns BY <2>8 DEF RelayReturns
  <2>9. CASE AssociateEnds \/ DialOK \/ DialFails \/ Closes
    BY <2>9 DEF AssociateEnds, DialOK, DialFails, Closes
  <2>. QED BY <1>1, <2>1, <2>2, <2>3, <2>4, <2>5, <2>6, <2>7, <2>8, <2>9 DEF ServeStep
<1>2. CASE CopyUp \/ CopyUpFails
  <2>1. /\ c2u = "run" /\ c2u' \in {"run", "done", "err"} /\ UNCHANGED <<pc, deadline, u2c, clEof>>
        /\ c2u' = "run" => upEof' = upEof
    BY <1>2, ZenonT(30) DEF CopyUp, CopyUpFails, UpTold
  <2>. QED BY <2>1
<1>3. CASE CopyDown
  <2>1. /\ u2c = "run" /\ u2c' \in {"run", "done", "err"} /\ UNCHANGED <<pc, deadline, c2u, upEof>>
        /\ u2c' = "run" => clEof' = clEof
    BY <1>3, ZenonT(30) DEF CopyDown
  <2>. QED BY <2>1
<1>4. CASE Ends \/ UNCHANGED mixedVars
  <2>1. UNCHANGED <<pc, deadline, c2u, u2c, upEof, clEof>>
    BY <1>4 DEF Ends, ClientSends, ClientBreaks, ClientStops, UpSends, UpBreaks, UpStops, mixedVars,
           upVars, relayVars
  <2>. QED BY <2>1
<1>. QED
  BY <1>1, <1>2, <1>3, <1>4
  DEF Next, Server, Calls, ConnectDials, AssociateDials, Handles, Dialed, DialFailed,
      AssociateRefused, AssociateOver, CloseAll, AllDone, vars

\* Nothing moved, and no copy ended.
LEMMA StillStep ==
  ASSUME LossInv, Stages', UNCHANGED moved, c2u' = c2u \/ (c2u = "off" /\ c2u' = "run"),
         u2c' = u2c \/ (u2c = "off" /\ u2c' = "run")
  PROVE  LossInv'
<1>1. Amounts' /\ (Unbroken' => Unbroken)
  BY DEF LossInv, Amounts, moved, Unbroken
<1>2. ASSUME Upward PROVE Upward'
  <2>1. Ending' = Ending
    BY DEF Ending, moved
  <2>2. PICK m \in 0..Len(inq) : Pipeline(m)
    BY <1>2 DEF Upward
  <2>3. Pipeline(m)'
    BY <2>1, <2>2 DEF Pipeline, moved
  <2>. QED BY <1>2, <2>3 DEF Upward, moved
<1>3. ASSUME Downward PROVE Downward'
  BY <1>3 DEF Downward, moved
<1>. QED BY <1>1, <1>2, <1>3 DEF LossInv

\* A message of the opening is consumed by the handshake or, for what it has left,
\* by the copy; a message of the payload by the copy, which the upstream then has;
\* the end by the copy, which is then done.
LEMMA ConsumeStep ==
  ASSUME Amounts, Upward, inq # <<>>, inq' = Tail(inq), UNCHANGED <<todo, sent, cfin>>,
         \/ Head(inq) \in Words /\ upGot' = upGot /\ c2u' = c2u
         \/ Head(inq) = "data" /\ upGot' = upGot + 1 /\ c2u' = c2u
         \/ Head(inq) = "eof" /\ upGot' = upGot /\ c2u = "run" /\ c2u' = "done"
  PROVE  Upward'
<1>1. PICK m \in 0..Len(inq) : Pipeline(m)
  BY DEF Upward
<1>2. /\ Len(inq) \in Nat \ {0} /\ Len(inq') = Len(inq) - 1 /\ Head(inq) = inq[1]
      /\ \A i \in 1..Len(inq') : inq'[i] = inq[i + 1]
  BY DEF Amounts
<1>3. CASE Head(inq) \in Words
  <2>1. upGot' = upGot /\ c2u' = c2u
    BY <1>3 DEF Words
  <2>2. Ending' = Ending /\ Ending \in Nat
    BY <2>1 DEF Ending
  <2>3. m > 0
    BY <1>1, <1>2, <1>3, <2>2 DEF Pipeline, Words, Amounts
  <2>4. Pipeline(m - 1)'
    BY <1>1, <1>2, <2>1, <2>2, <2>3 DEF Pipeline, Amounts
  <2>5. m - 1 \in 0..Len(inq')
    BY <1>2, <2>3
  <2>6. c2u # "done"
    BY DEF Upward
  <2>. QED BY <2>1, <2>4, <2>5, <2>6 DEF Upward
<1>4. CASE Head(inq) = "data"
  <2>1. upGot' = upGot + 1 /\ c2u' = c2u
    BY <1>4 DEF Words
  <2>2. Ending' = Ending /\ Ending \in Nat
    BY <2>1 DEF Ending
  <2>3. m = 0 /\ upGot < sent
    BY <1>1, <1>2, <1>4, <2>2 DEF Pipeline, Words, Amounts
  <2>4. Pipeline(0)'
    BY <1>1, <1>2, <2>1, <2>2, <2>3 DEF Pipeline, Amounts
  <2>5. c2u # "done"
    BY DEF Upward
  <2>. QED BY <1>2, <2>1, <2>4, <2>5 DEF Upward
<1>5. CASE Head(inq) = "eof"
  <2>1. upGot' = upGot /\ c2u = "run" /\ c2u' = "done"
    BY <1>5 DEF Words
  <2>2. m = 0 /\ upGot = sent /\ Len(inq) = 1 /\ cfin
    BY <1>1, <1>2, <1>5, <2>1 DEF Pipeline, Words, Amounts, Ending
  <2>3. inq' = <<>>
    BY <2>2 DEF Amounts
  <2>4. Ending' = 0
    BY <2>1 DEF Ending
  <2>5. Pipeline(0)'
    <3>1. Len(inq') = 0 /\ upGot' = sent' /\ sent' \in Nat
      BY <2>1, <2>2, <2>3 DEF Amounts
    <3>. QED BY <2>4, <3>1 DEF Pipeline
  <2>. QED BY <1>2, <2>1, <2>2, <2>3, <2>5 DEF Upward
<1>. QED BY <1>3, <1>4, <1>5

LEMMA ClientSendsLoss == ASSUME LossInv, ClientSends, Stages' PROVE LossInv'
<1>. USE DEF LossInv
<1>1. /\ ~cfin /\ UNCHANGED <<cgone, upGot, upSent, upq, upFin, upGone, clGot, c2u, u2c>>
  BY DEF ClientSends, upVars, relayVars
<1>2. (Unbroken' => Unbroken) /\ (Downward => Downward')
  BY <1>1 DEF Unbroken, Downward
<1>. DEFINE Sends(x) == inq' = Append(inq, x)
<1>3. \/ todo # <<>> /\ Sends(Head(todo)) /\ todo' = Tail(todo) /\ UNCHANGED <<sent, cfin>>
      \/ todo = <<>> /\ Sends("data") /\ sent' = sent + 1 /\ UNCHANGED <<todo, cfin>>
      \/ Sends("eof") /\ cfin' = TRUE /\ UNCHANGED <<todo, sent>>
  BY DEF ClientSends
<1>4. PICK x \in Words \cup {"data", "eof"} : Sends(x)
  <2>1. todo # <<>> => Head(todo) \in Words
    BY DEF Amounts
  <2>. QED BY <1>3, <2>1
<1>5. /\ inq' \in Seq(Words \cup {"data", "eof"}) /\ Len(inq') = Len(inq) + 1
      /\ inq'[Len(inq) + 1] = x /\ Len(inq) \in Nat
      /\ \A i \in 1..Len(inq) : inq'[i] = inq[i]
  BY <1>4 DEF Amounts
<1>6. todo' \in Seq(Words) /\ sent' \in Nat
  <2>1. todo # <<>> => Tail(todo) \in Seq(Words)
    BY DEF Amounts
  <2>2. (todo' = Tail(todo) /\ todo # <<>>) \/ todo' = todo
    BY <1>3
  <2>3. sent' = sent \/ sent' = sent + 1
    BY <1>3
  <2>. QED BY <2>1, <2>2, <2>3 DEF Amounts
<1>7. ASSUME Upward PROVE Upward'
  <2>1. c2u # "done" /\ c2u # "err" /\ Ending = 0
    BY <1>1, <1>7 DEF Upward, Ending
  <2>2. PICK m \in 0..Len(inq) : Pipeline(m)
    BY <1>7 DEF Upward
  <2>3. CASE todo # <<>> /\ Sends(Head(todo)) /\ todo' = Tail(todo) /\ UNCHANGED <<sent, cfin>>
    <3>1. sent = 0 /\ upGot = 0 /\ m = Len(inq)
      BY <1>7, <2>1, <2>2, <2>3 DEF Upward, Pipeline, Amounts
    <3>2. inq'[Len(inq) + 1] \in Words /\ Ending' = 0
      BY <1>1, <2>1, <2>3, <1>5 DEF Amounts, Ending
    <3>3. Pipeline(m + 1)'
      BY <1>1, <1>5, <2>2, <2>3, <3>1, <3>2 DEF Pipeline, Amounts
    <3>4. m + 1 \in 0..Len(inq')
      BY <1>5, <3>1
    <3>. QED BY <1>1, <2>1, <2>3, <3>1, <3>3, <3>4 DEF Upward
  <2>4. CASE todo = <<>> /\ Sends("data") /\ sent' = sent + 1 /\ UNCHANGED <<todo, cfin>>
    <3>1. inq'[Len(inq) + 1] = "data" /\ Ending' = 0
      BY <1>1, <2>1, <2>4, <1>5 DEF Amounts, Ending
    <3>2. Pipeline(m)'
      BY <1>1, <1>5, <2>1, <2>2, <2>4, <3>1 DEF Pipeline, Amounts
    <3>3. m \in 0..Len(inq')
      BY <1>5
    <3>. QED BY <1>1, <2>1, <2>4, <3>2, <3>3 DEF Upward
  <2>5. CASE Sends("eof") /\ cfin' = TRUE /\ UNCHANGED <<todo, sent>>
    <3>1. inq'[Len(inq) + 1] = "eof" /\ Ending' = 1
      BY <1>1, <2>1, <2>5, <1>5 DEF Amounts, Ending
    <3>2. Pipeline(m)'
      BY <1>1, <1>5, <2>1, <2>2, <2>5, <3>1 DEF Pipeline, Amounts
    <3>3. m \in 0..Len(inq')
      BY <1>5
    <3>. QED BY <1>1, <1>7, <2>1, <2>5, <3>2, <3>3 DEF Upward
  <2>. QED BY <1>3, <2>3, <2>4, <2>5
<1>. QED BY <1>1, <1>2, <1>5, <1>6, <1>7 DEF Amounts

\* What the upstream sends is on its way; a break at either end excuses the rest.
LEMMA EndsLoss == ASSUME LossInv, Ends, Stages' PROVE LossInv'
<1>. USE DEF LossInv
<1>1. CASE ClientSends BY <1>1, ClientSendsLoss
<1>2. CASE ClientBreaks
  <2>1. Amounts' /\ ~Unbroken'
    BY <1>2 DEF ClientBreaks, Amounts, Unbroken, upVars, relayVars
  <2>. QED BY <2>1
<1>3. CASE UpSends
  <2>1. /\ UNCHANGED <<todo, inq, sent, cfin, cgone, upGot, upGone, clGot, c2u, u2c>>
        /\ ~upFin
        /\ \/ upSent' = upSent + 1 /\ upq' = upq + 1 /\ upFin' = upFin
           \/ upFin' /\ UNCHANGED <<upSent, upq>>
    BY <1>3, ZenonT(30) DEF UpSends, clientVars, relayVars
  <2>2. Amounts' /\ Unbroken' = Unbroken
    BY <2>1 DEF Amounts, Unbroken
  <2>3. ASSUME Upward PROVE Upward'
    <3>1. PICK m \in 0..Len(inq) : Pipeline(m)
      BY <2>3 DEF Upward
    <3>2. Pipeline(m)'
      BY <2>1, <3>1 DEF Pipeline, Ending
    <3>. QED BY <2>1, <2>3, <3>2 DEF Upward
  <2>4. ASSUME Downward PROVE Downward'
    BY <2>1, <2>4 DEF Downward, Amounts
  <2>. QED BY <2>2, <2>3, <2>4
<1>4. CASE UpBreaks
  <2>1. Amounts' /\ ~Unbroken'
    BY <1>4 DEF UpBreaks, Amounts, Unbroken, clientVars, relayVars
  <2>. QED BY <2>1
<1>5. CASE ClientStops \/ UpStops
  BY <1>5, StillStep DEF ClientStops, UpStops, moved, upVars, relayVars, clientVars
<1>. QED BY <1>1, <1>2, <1>3, <1>4, <1>5 DEF Ends

\* The handshake takes a message of the opening, and the payload behind it stays.
LEMMA HandshakeLoss ==
  ASSUME LossInv, Stages', NEW m \in Words, Reads(m),
         UNCHANGED <<todo, sent, cfin, cgone, upGot, upSent, upq, upFin, upGone, clGot, c2u, u2c>>
  PROVE  LossInv'
<1>1. inq # <<>> /\ Head(inq) \in Words /\ inq' = Tail(inq)
  BY DEF Reads
<1>2. Amounts'
  BY <1>1 DEF LossInv, Amounts
<1>3. Unbroken' = Unbroken /\ (Downward => Downward')
  BY DEF Unbroken, Downward
<1>. QED BY <1>1, <1>2, <1>3, ConsumeStep DEF LossInv

LEMMA ServerLoss == ASSUME LossInv, Server, Stages' PROVE LossInv'
<1>. USE DEF clientVars, upVars, relayVars, moved
<1>1. CASE Greet
  <2>. "methods" \in Words BY DEF Words
  <2>. QED BY <1>1, HandshakeLoss DEF Greet, Waits
<1>2. CASE Login
  <2>. "login" \in Words BY DEF Words
  <2>. QED BY <1>2, HandshakeLoss DEF Login, Waits
<1>3. CASE Request
  <2>. {"connect", "httpauth", "http"} \subseteq Words BY DEF Words
  <2>. QED BY <1>3, HandshakeLoss DEF Request, Waits
<1>4. CASE Associate
  <2>. "associate" \in Words BY DEF Words
  <2>. QED BY <1>4, HandshakeLoss DEF Associate
<1>5. CASE Refuse BY <1>5, StillStep DEF Refuse
<1>6. CASE Timeout BY <1>6, StillStep DEF Timeout
<1>7. CASE Ack
  <2>1. c2u = "off" /\ u2c = "off"
    BY <1>7 DEF Ack, LossInv, Stages, Handshake
  <2>2. UNCHANGED moved /\ (c2u' = c2u \/ c2u' = "run") /\ (u2c' = u2c \/ u2c' = "run")
    BY <1>7 DEF Ack
  <2>. QED BY <2>1, <2>2, StillStep
<1>8. CASE RelayReturns BY <1>8, StillStep DEF RelayReturns
<1>9. CASE CopyUp \/ CopyUpFails
  <2>1. UNCHANGED <<todo, sent, cfin, cgone, upSent, upq, upFin, upGone, clGot, u2c>>
    BY <1>9, ZenonT(30) DEF CopyUp, CopyUpFails, UpTold
  <2>2. Unbroken' = Unbroken /\ (Downward => Downward')
    BY <2>1 DEF Unbroken, Downward
  <2>3. CASE CopyUp
    <3>1. inq # <<>> /\ inq' = Tail(inq) /\ c2u = "run"
      BY <2>3 DEF CopyUp
    <3>2. Head(inq) \in Words \cup {"data", "eof"} /\ inq' \in Seq(Words \cup {"data", "eof"})
      BY <3>1 DEF LossInv, Amounts
    <3>3. upGot' = upGot \/ upGot' = upGot + 1 \/ upGot' = upGot + 0
      BY <2>3, ZenonT(30) DEF CopyUp
    <3>4. Amounts'
      BY <2>1, <3>2, <3>3 DEF LossInv, Amounts
    <3>5. ASSUME Unbroken PROVE
            \/ Head(inq) \in Words /\ upGot' = upGot /\ c2u' = c2u
            \/ Head(inq) = "data" /\ upGot' = upGot + 1 /\ c2u' = c2u
            \/ Head(inq) = "eof" /\ upGot' = upGot /\ c2u = "run" /\ c2u' = "done"
      <4>1. CASE Head(inq) = "eof"
        BY <2>3, <3>1, <4>1 DEF CopyUp
      <4>2. CASE Head(inq) # "eof"
        BY <2>3, <3>2, <3>5, <4>2 DEF CopyUp, Unbroken, Words, LossInv, Amounts
      <4>. QED BY <4>1, <4>2
    <3>. QED BY <2>1, <2>2, <3>1, <3>4, <3>5, ConsumeStep DEF LossInv
  <2>4. CASE CopyUpFails
    <3>1. Amounts' /\ ~Unbroken
      BY <2>1, <2>4 DEF CopyUpFails, LossInv, Amounts, Stages, Unbroken
    <3>. QED BY <2>2, <3>1 DEF LossInv
  <2>. QED BY <1>9, <2>3, <2>4
<1>10. CASE CopyDown
  <2>1. /\ u2c = "run" /\ UNCHANGED <<todo, inq, sent, cfin, cgone, upGot, upSent, upFin, upGone, c2u>>
        /\ \/ /\ upq > 0 /\ upq' = upq - 1
              /\ \/ cgone /\ clGot' = clGot
                 \/ ~cgone /\ clGot' = clGot + 1 /\ u2c' = u2c
           \/ /\ upq = 0 /\ (upFin \/ upGone) /\ UNCHANGED <<upq, clGot>>
              /\ upFin => u2c' = "done"
    BY <1>10, ZenonT(30) DEF CopyDown
  <2>2. Amounts' /\ Unbroken' = Unbroken
    BY <2>1 DEF LossInv, Amounts, Unbroken
  <2>3. ASSUME Upward PROVE Upward'
    <3>1. PICK m \in 0..Len(inq) : Pipeline(m)
      BY <2>3 DEF Upward
    <3>2. Pipeline(m)'
      BY <2>1, <3>1 DEF Pipeline, Ending
    <3>. QED BY <2>1, <2>3, <3>2 DEF Upward
  <2>4. ASSUME Downward, Unbroken PROVE Downward'
    BY <2>1, <2>4 DEF Downward, LossInv, Amounts, Unbroken
  <2>. QED BY <2>2, <2>3, <2>4 DEF LossInv
<1>. QED BY <1>1, <1>2, <1>3, <1>4, <1>5, <1>6, <1>7, <1>8, <1>9, <1>10 DEF Server, ServeStep

LEMMA NextLoss == LossInv /\ [Next]_vars => LossInv'
<1>. SUFFICES ASSUME LossInv, [Next]_vars PROVE LossInv' OBVIOUS
<1>1. Stages'
  BY StagesStep DEF LossInv
<1>2. CASE Ends \/ Server BY <1>1, <1>2, EndsLoss, ServerLoss
<1>3. CASE UNCHANGED mixedVars \/ DialOK \/ DialFails \/ AssociateEnds \/ Closes
  <2>1. UNCHANGED moved /\ c2u' = c2u /\ u2c' = u2c
    BY <1>3 DEF moved, mixedVars, clientVars, upVars, relayVars, DialOK, DialFails, AssociateEnds, Closes
  <2>. QED BY <1>1, <2>1, StillStep
<1>. QED
  BY <1>2, <1>3
  DEF Next, Calls, ConnectDials, AssociateDials, Handles, Dialed, DialFailed,
      AssociateRefused, AssociateOver, CloseAll, AllDone, vars

\* The relay loses nothing: a connection whose ends did not break has given each end
\* all that the other sent when it closes, and no end comes before its payload.
THEOREM AllDelivered == Spec => []NothingLost
<1>1. LossInv => NothingLost
  <2>. SUFFICES ASSUME LossInv, Unbroken, c2u # "off" PROVE
         /\ pc = "closed" \/ upEof => upGot = sent
         /\ pc = "closed" \/ clEof => clGot = upSent
    BY DEF NothingLost, Unbroken
  <2>1. c2u = "done" => upGot = sent
    <3>. SUFFICES ASSUME c2u = "done" PROVE upGot = sent OBVIOUS
    <3>1. PICK m \in 0..Len(inq) : Pipeline(m)
      BY DEF LossInv, Upward
    <3>2. Len(inq) = 0
      BY DEF LossInv, Upward
    <3>. QED BY <3>1, <3>2 DEF Pipeline, Ending, LossInv, Amounts
  <2>2. u2c = "done" => clGot = upSent
    BY DEF LossInv, Downward, Amounts
  <2>3. /\ pc = "closed" => c2u = "done" /\ u2c = "done"
        /\ upEof => c2u = "done"
        /\ clEof => u2c = "done"
    BY DEF LossInv, Stages, Copies, Upward, Downward
  <2>. QED BY <2>1, <2>2, <2>3
<1>. QED BY <1>1, InitLoss, NextLoss, PTL DEF Spec
=============================================================================
