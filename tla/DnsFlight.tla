------------------------------ MODULE DnsFlight ------------------------------
(***************************************************************************)
(* LookupServers of dialer/dest.go for one name and one list of servers:   *)
(* the 60 s cache, the table of calls in flight, the goroutine that runs a *)
(* call for everybody (the leader), and the callers that wait for it, each *)
(* with a context of its own.  How a call gets its answer is DnsRace.      *)
(***************************************************************************)
EXTENDS Naturals, FiniteSets

CONSTANTS
  Callers,     \* lookups of this name
  Calls,       \* calls that can be started
  NoCall,      \* no call
  TTL,         \* dnsCacheTTL, in ticks
  MaxTime      \* bound of the clock

ASSUME FlightAssumption ==
  /\ NoCall \notin Calls /\ TTL \in Nat /\ MaxTime \in Nat

VARIABLES
  cache,       \* dnsCache: the call whose answer it holds and when it expires
  sf,          \* dnsSF
  st, res,     \* a call: free, run, put, done (channel closed) or gone; its outcome
  at,          \* when its outcome was known, or its addresses cached
  pc, on,      \* a caller, and the call it waits for
  out,         \* what it returns: nothing yet, ok, err or ctx
  cancelled,   \* its context is done
  ans,         \* the call its answer comes from
  began, past, \* when it started, and the calls that were gone by then (history)
  now

callVars == <<st, res, at, sf>>
callerVars == <<pc, on, out, ans, began, past>>
vars == <<cache, callVars, callerVars, cancelled, now>>

Init ==
  /\ cache = [call |-> NoCall, exp |-> 0] /\ sf = NoCall
  /\ st = [k \in Calls |-> "free"] /\ res = [k \in Calls |-> "none"]
  /\ at = [k \in Calls |-> 0]
  /\ pc = [c \in Callers |-> "idle"] /\ on = [c \in Callers |-> NoCall]
  /\ out = [c \in Callers |-> "none"] /\ ans = [c \in Callers |-> NoCall]
  /\ cancelled = [c \in Callers |-> FALSE]
  /\ began = [c \in Callers |-> 0] /\ past = [c \in Callers |-> {}]
  /\ now = 0

Return(c, o, k) ==
  /\ pc' = [pc EXCEPT ![c] = "returned"]
  /\ out' = [out EXCEPT ![c] = o]
  /\ ans' = [ans EXCEPT ![c] = k]

-----------------------------------------------------------------------------
(* The callers                                                             *)

Start(c) ==
  /\ pc[c] = "idle"
  /\ pc' = [pc EXCEPT ![c] = "get"]
  /\ began' = [began EXCEPT ![c] = now]
  /\ past' = [past EXCEPT ![c] = {k \in Calls : st[k] = "gone"}]
  /\ UNCHANGED <<cache, callVars, cancelled, on, out, ans, now>>

Cached == cache.call # NoCall /\ now <= cache.exp

\* dnsCacheGet.
CacheGet(c) ==
  /\ pc[c] = "get"
  /\ IF Cached THEN Return(c, "ok", cache.call)
     ELSE pc' = [pc EXCEPT ![c] = "join"] /\ UNCHANGED <<out, ans>>
  /\ UNCHANGED <<cache, callVars, cancelled, on, began, past, now>>

FreeCalls == {k \in Calls : st[k] = "free"}
NewCall == CHOOSE k \in FreeCalls : TRUE

\* Under dnsSFMu: wait for the call in flight, or start one.
Join(c) ==
  /\ pc[c] = "join"
  /\ \/ sf # NoCall /\ on' = [on EXCEPT ![c] = sf] /\ UNCHANGED <<st, sf>>
     \/ /\ sf = NoCall /\ FreeCalls # {}
        /\ st' = [st EXCEPT ![NewCall] = "run"]
        /\ sf' = NewCall /\ on' = [on EXCEPT ![c] = NewCall]
  /\ pc' = [pc EXCEPT ![c] = "wait"]
  /\ UNCHANGED <<cache, res, at, cancelled, out, ans, began, past, now>>

\* Mutant: only a success wakes the waiters.
WaitDone_OkOnly(c) ==
  /\ pc[c] = "wait" /\ st[on[c]] \in {"done", "gone"} /\ res[on[c]] = "ok"
  /\ Return(c, res[on[c]], on[c])
  /\ UNCHANGED <<cache, callVars, cancelled, on, began, past, now>>

\* waitDNSCall.
WaitDone(c) ==
  /\ pc[c] = "wait" /\ st[on[c]] \in {"done", "gone"}
  /\ Return(c, res[on[c]], on[c])
  /\ UNCHANGED <<cache, callVars, cancelled, on, began, past, now>>

WaitCtx(c) ==
  /\ pc[c] = "wait" /\ cancelled[c]
  /\ Return(c, "ctx", NoCall)
  /\ UNCHANGED <<cache, callVars, cancelled, on, began, past, now>>

\* The context of c ends; nothing before the wait looks at it.
Cancel(c) ==
  /\ ~cancelled[c] /\ pc[c] = "wait"
  /\ cancelled' = [cancelled EXCEPT ![c] = TRUE]
  /\ UNCHANGED <<cache, callVars, callerVars, now>>

-----------------------------------------------------------------------------
(* The leader of call k                                                    *)

\* Mutant: the leader runs under the context of the caller that started it.
Resolve_CallerCtx(k) ==
  /\ st[k] = "run"
  /\ \/ st' = [st EXCEPT ![k] = "put"] /\ res' = [res EXCEPT ![k] = "ok"]
     \/ st' = [st EXCEPT ![k] = "done"] /\ res' = [res EXCEPT ![k] = "err"]
     \/ /\ \E c \in Callers : on[c] = k /\ cancelled[c]
        /\ st' = [st EXCEPT ![k] = "done"] /\ res' = [res EXCEPT ![k] = "ctx"]
  /\ at' = [at EXCEPT ![k] = now]
  /\ UNCHANGED <<cache, sf, callerVars, cancelled, now>>

\* lookupServersUncached returns, with the background context's deadline at the
\* latest: an error, or addresses, which it puts into the cache first.
Resolve(k) ==
  /\ st[k] = "run"
  /\ \/ st' = [st EXCEPT ![k] = "put"] /\ res' = [res EXCEPT ![k] = "ok"]
     \/ st' = [st EXCEPT ![k] = "done"] /\ res' = [res EXCEPT ![k] = "err"]
  /\ at' = [at EXCEPT ![k] = now]
  /\ UNCHANGED <<cache, sf, callerVars, cancelled, now>>

\* dnsCachePut, then the outcome is stored and the channel closed.
CachePut(k) ==
  /\ st[k] = "put"
  /\ cache' = [call |-> k, exp |-> now + TTL]
  /\ at' = [at EXCEPT ![k] = now]
  /\ st' = [st EXCEPT ![k] = "done"]
  /\ UNCHANGED <<res, sf, callerVars, cancelled, now>>

\* Mutant: the call leaves the table before its channel is closed.
Delete_Early(k) ==
  /\ st[k] \in {"put", "done"} /\ sf = k
  /\ sf' = NoCall
  /\ st' = [st EXCEPT ![k] = IF @ = "done" THEN "gone" ELSE @]
  /\ UNCHANGED <<cache, res, at, callerVars, cancelled, now>>

\* Mutant: the error of a call stays in the table.
Delete_OnSuccess(k) ==
  /\ st[k] = "done"
  /\ sf' = IF res[k] = "ok" THEN NoCall ELSE sf
  /\ st' = [st EXCEPT ![k] = "gone"]
  /\ UNCHANGED <<cache, res, at, callerVars, cancelled, now>>

\* delete(dnsSF, ck), whatever the table holds.
Delete(k) ==
  /\ st[k] = "done"
  /\ sf' = NoCall
  /\ st' = [st EXCEPT ![k] = "gone"]
  /\ UNCHANGED <<cache, res, at, callerVars, cancelled, now>>

Tick ==
  /\ now < MaxTime
  /\ now' = now + 1
  /\ UNCHANGED <<cache, callVars, callerVars, cancelled>>

AllDone ==
  /\ \A c \in Callers : pc[c] = "returned"
  /\ UNCHANGED vars

CallerStep(c) == CacheGet(c) \/ Join(c) \/ WaitDone(c) \/ WaitCtx(c)
LeaderStep(k) == Resolve(k) \/ CachePut(k) \/ Delete(k)
Next ==
  \/ \E c \in Callers : Start(c) \/ Cancel(c) \/ CallerStep(c)
  \/ \E k \in Calls : LeaderStep(k)
  \/ Tick \/ AllDone

Spec == Init /\ [][Next]_vars

\* Goroutines run, and the leader's lookup ends (DnsRace: its context has a
\* deadline of its own).  No caller need cancel.
FairSpec ==
  /\ Spec
  /\ \A c \in Callers : WF_vars(CallerStep(c))
  /\ \A k \in Calls : WF_vars(LeaderStep(k))

-----------------------------------------------------------------------------
(* Properties                                                              *)

\* The ranges of the table, the cache, the calls and the callers.
TypeOK ==
  /\ cache \in [call : Calls \cup {NoCall}, exp : Nat]
  /\ sf \in Calls \cup {NoCall} /\ now \in Nat
  /\ st \in [Calls -> {"free", "run", "put", "done", "gone"}]
  /\ res \in [Calls -> {"none", "ok", "err"}] /\ at \in [Calls -> Nat]
  /\ pc \in [Callers -> {"idle", "get", "join", "wait", "returned"}]
  /\ on \in [Callers -> Calls \cup {NoCall}] /\ ans \in [Callers -> Calls \cup {NoCall}]
  /\ out \in [Callers -> {"none", "ok", "err", "ctx"}]
  /\ cancelled \in [Callers -> BOOLEAN]
  /\ began \in [Callers -> Nat] /\ past \in [Callers -> SUBSET Calls]

\* One call per name is in flight, the one in the table: the unconditional delete
\* of the leader never removes another call, and none is left behind.
OneFlight == \A k \in Calls : st[k] \in {"run", "put", "done"} <=> sf = k

\* What a caller returns is the outcome of a call that was still in the table
\* when the caller came, or addresses cached at most dnsCacheTTL earlier: a
\* failure is not remembered, and the cache and the table together never give
\* out an older answer.
NoStaleAnswer ==
  \A c \in Callers : out[c] \in {"ok", "err"} =>
    \/ ans[c] \notin past[c]
    \/ out[c] = "ok" /\ began[c] <= at[ans[c]] + TTL

\* A caller whose context lives gets the outcome of the call, whoever started it
\* and whatever became of that caller (dest_test.go
\* TestLookupSingleflightIgnoresLeaderCancel).
OwnCancelOnly == \A c \in Callers : out[c] = "ctx" => cancelled[c]

\* Every lookup returns, cancelled or not.
LookupReturns == \A c \in Callers : pc[c] = "get" ~> pc[c] = "returned"
=============================================================================
