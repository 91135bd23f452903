--------------------------- MODULE DnsFlightProofs ---------------------------
(***************************************************************************)
(* The shared lookup for any callers, calls and times: one call in flight, *)
(* no answer older than its caller allows, and no inherited cancellation.  *)
(***************************************************************************)
EXTENDS DnsFlight, TLAPS

-----------------------------------------------------------------------------
(* The inductive invariant.                                                *)

\* A call that is over has an outcome, and one that is being cached succeeded.
Over(k) == st[k] \in {"done", "gone"}
Outcome ==
  \A k \in Calls :
    /\ Over(k) => res[k] \in {"ok", "err"}
    /\ st[k] = "put" => res[k] = "ok"

\* The cache holds the addresses of a call that is over, with their time.
CacheInv ==
  cache.call # NoCall => Over(cache.call) /\ cache.exp = at[cache.call] + TTL

\* Nobody starts after now; the calls a caller has missed are gone for good; and
\* the call it waits for was not among them.
CallerInv ==
  \A c \in Callers :
    /\ began[c] <= now
    /\ \A k \in past[c] : st[k] = "gone"
    /\ pc[c] = "wait" => /\ on[c] \in Calls /\ on[c] \notin past[c]
                         /\ out[c] = "none"
    /\ pc[c] \in {"idle", "get", "join"} => out[c] = "none"
    /\ out[c] \in {"ok", "err"} => ans[c] \in Calls /\ Over(ans[c])

FlightInv ==
  /\ TypeOK /\ OneFlight /\ Outcome /\ CacheInv /\ CallerInv
  /\ NoStaleAnswer /\ OwnCancelOnly

USE FlightAssumption DEF FlightAssumption

-----------------------------------------------------------------------------
LEMMA InitFlight == Init => FlightInv
BY DEF Init, FlightInv, TypeOK, OneFlight, Outcome, CacheInv, CallerInv, Over,
       NoStaleAnswer, OwnCancelOnly

\* A caller that arrives remembers when, and which calls are gone.
LEMMA StartStep == ASSUME FlightInv, NEW c \in Callers, Start(c) PROVE FlightInv'
<1>1. TypeOK'
  BY DEF Start, callVars, FlightInv, TypeOK
<1>2. CallerInv'
  BY DEF Start, callVars, FlightInv, TypeOK, CallerInv, Over
<1>3. NoStaleAnswer'
  BY DEF Start, callVars, FlightInv, TypeOK, CallerInv, NoStaleAnswer
<1>. QED
  BY <1>1, <1>2, <1>3
  DEF Start, callVars, FlightInv, OneFlight, Outcome, CacheInv, Over, OwnCancelOnly

\* A caller returns: with a cached answer in time, with the outcome of its call,
\* or cancelled.
LEMMA ReturnStep ==
  ASSUME FlightInv, NEW c \in Callers, CacheGet(c) \/ WaitDone(c) \/ WaitCtx(c)
  PROVE  FlightInv'
<1>1. /\ UNCHANGED <<cache, callVars, cancelled, on, began, past, now>>
      /\ \/ pc' = [pc EXCEPT ![c] = "join"] /\ UNCHANGED <<out, ans>> /\ pc[c] = "get"
         \/ \E o \in {"ok", "err", "ctx"}, k \in Calls \cup {NoCall} :
              /\ Return(c, o, k)
              /\ o = "ctx" => cancelled[c]
              /\ o \in {"ok", "err"} => /\ k \in Calls /\ Over(k)
                                        /\ k \notin past[c] \/ (o = "ok" /\ began[c] <= at[k] + TTL)
  <2>1. CASE CacheGet(c)
    BY <2>1 DEF CacheGet, Cached, FlightInv, TypeOK, CacheInv, CallerInv
  <2>2. CASE WaitDone(c)
    <3>1. Return(c, res[on[c]], on[c]) /\ UNCHANGED <<cache, callVars, cancelled, on, began, past, now>>
      BY <2>2 DEF WaitDone
    <3>2. on[c] \in Calls /\ on[c] \notin past[c] /\ Over(on[c]) /\ res[on[c]] \in {"ok", "err"}
      <4>1. pc[c] = "wait" /\ Over(on[c])
        BY <2>2 DEF WaitDone, Over
      <4>2. on[c] \in Calls /\ on[c] \notin past[c]
        BY <4>1 DEF FlightInv, CallerInv
      <4>3. res[on[c]] \in {"ok", "err"}
        BY <4>1, <4>2 DEF FlightInv, Outcome
      <4>. QED BY <4>1, <4>2, <4>3
    <3>3. res[on[c]] # "ctx"
      BY <3>2
    <3>. QED BY <3>1, <3>2, <3>3
  <2>3. CASE WaitCtx(c)
    BY <2>3 DEF WaitCtx
  <2>. QED BY <2>1, <2>2, <2>3
<1>2. TypeOK'
  BY <1>1 DEF Return, callVars, FlightInv, TypeOK
<1>3. CallerInv'
  BY <1>1 DEF Return, callVars, FlightInv, TypeOK, CallerInv, Over
<1>4. NoStaleAnswer' /\ OwnCancelOnly'
  BY <1>1 DEF Return, callVars, FlightInv, TypeOK, CallerInv, NoStaleAnswer, OwnCancelOnly
<1>. QED
  BY <1>1, <1>2, <1>3, <1>4 DEF callVars, FlightInv, OneFlight, Outcome, CacheInv, Over

\* A caller joins the call in the table, or starts one; neither can be one that
\* was gone when it arrived.
LEMMA JoinStep == ASSUME FlightInv, NEW c \in Callers, Join(c) PROVE FlightInv'
<1>1. PICK k \in Calls :
        /\ on' = [on EXCEPT ![c] = k] /\ sf' = k
        /\ \/ sf = k /\ st' = st
           \/ sf = NoCall /\ st[k] = "free" /\ st' = [st EXCEPT ![k] = "run"]
  BY DEF Join, NewCall, FreeCalls, FlightInv, TypeOK
<1>2. /\ pc[c] = "join" /\ pc' = [pc EXCEPT ![c] = "wait"]
      /\ UNCHANGED <<cache, res, at, cancelled, out, ans, began, past, now>>
  BY DEF Join
<1>3. TypeOK'
  BY <1>1, <1>2 DEF FlightInv, TypeOK
<1>4. OneFlight'
  BY <1>1 DEF FlightInv, TypeOK, OneFlight
<1>5. st[k] # "gone"
  BY <1>1 DEF FlightInv, OneFlight
<1>6. Outcome' /\ CacheInv'
  BY <1>1, <1>2 DEF FlightInv, TypeOK, Outcome, CacheInv, Over
<1>7. CallerInv'
  BY <1>1, <1>2, <1>5 DEF FlightInv, TypeOK, CallerInv, Over
<1>. QED
  BY <1>2, <1>3, <1>4, <1>6, <1>7 DEF FlightInv, NoStaleAnswer, OwnCancelOnly

\* The leader moves its own call on, which nobody has an answer of yet: until it
\* is over its time may change, afterwards it does not.
LEMMA LeaderFlight == ASSUME FlightInv, NEW k \in Calls, LeaderStep(k) PROVE FlightInv'
<1>1. UNCHANGED <<callerVars, cancelled, now>>
  BY DEF LeaderStep, Resolve, CachePut, Delete
<1>2. TypeOK'
  BY DEF LeaderStep, Resolve, CachePut, Delete, callerVars, FlightInv, TypeOK
<1>3. OneFlight'
  BY DEF LeaderStep, Resolve, CachePut, Delete, FlightInv, TypeOK, OneFlight
<1>4. Outcome'
  BY DEF LeaderStep, Resolve, CachePut, Delete, FlightInv, TypeOK, Outcome, Over
<1>5. \A j \in Calls : /\ Over(j) => Over(j)' /\ at'[j] = at[j]
                       /\ st[j] = "gone" => st'[j] = "gone"
  BY DEF LeaderStep, Resolve, CachePut, Delete, FlightInv, TypeOK, Over
<1>6. CacheInv'
  <2>1. CASE CachePut(k)
    BY <2>1 DEF CachePut, FlightInv, TypeOK, CacheInv, Over
  <2>2. CASE UNCHANGED cache
    BY <1>5, <2>2 DEF FlightInv, TypeOK, CacheInv, Over
  <2>. QED BY <2>1, <2>2 DEF LeaderStep, Resolve, Delete
<1>7. CallerInv'
  BY <1>1, <1>5 DEF callerVars, FlightInv, TypeOK, CallerInv, Over
<1>8. NoStaleAnswer' /\ OwnCancelOnly'
  BY <1>1, <1>5 DEF callerVars, FlightInv, CallerInv, NoStaleAnswer, OwnCancelOnly
<1>. QED
  BY <1>2, <1>3, <1>4, <1>6, <1>7, <1>8 DEF FlightInv

LEMMA NextFlight == FlightInv /\ [Next]_vars => FlightInv'
<1>. SUFFICES ASSUME FlightInv, [Next]_vars PROVE FlightInv' OBVIOUS
<1>1. CASE UNCHANGED vars
  BY <1>1 DEF vars, callVars, callerVars, FlightInv, TypeOK, OneFlight, Outcome, CacheInv,
              CallerInv, Over, NoStaleAnswer, OwnCancelOnly
<1>2. ASSUME NEW c \in Callers, Cancel(c) PROVE FlightInv'
  BY <1>2 DEF Cancel, callVars, callerVars, FlightInv, TypeOK, OneFlight, Outcome, CacheInv,
              CallerInv, Over, NoStaleAnswer, OwnCancelOnly
<1>3. CASE Tick
  BY <1>3 DEF Tick, callVars, callerVars, FlightInv, TypeOK, OneFlight, Outcome, CacheInv,
              CallerInv, Over, NoStaleAnswer, OwnCancelOnly
<1>4. CASE AllDone
  BY <1>1, <1>4 DEF AllDone
<1>. QED
  BY <1>1, <1>2, <1>3, <1>4, StartStep, ReturnStep, JoinStep, LeaderFlight DEF Next, CallerStep

-----------------------------------------------------------------------------
\* The invariant of LookupServers and its leaders.
THEOREM FlightInvariant == Spec => []FlightInv
BY InitFlight, NextFlight, PTL DEF Spec

\* One call is in flight and it is the one in the table, although the leader
\* deletes the entry without looking at it (dest.go LookupServers).
THEOREM SingleFlight == Spec => []OneFlight
<1>1. FlightInv => OneFlight
  BY DEF FlightInv
<1>. QED BY <1>1, FlightInvariant, PTL

\* A caller gets the outcome of a call it has not missed, or cached addresses in
\* time, although cache and table are looked at in two steps (dest.go
\* LookupServers, dnsCacheGet).
THEOREM FreshAnswers == Spec => []NoStaleAnswer
<1>1. FlightInv => NoStaleAnswer
  BY DEF FlightInv
<1>. QED BY <1>1, FlightInvariant, PTL

\* A caller is told of a cancellation only if it is its own (waitDNSCall).
THEOREM OwnCancellation == Spec => []OwnCancelOnly
<1>1. FlightInv => OwnCancelOnly
  BY DEF FlightInv
<1>. QED BY <1>1, FlightInvariant, PTL
=============================================================================
