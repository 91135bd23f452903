------------------------------- MODULE DnsRace -------------------------------
(***************************************************************************)
(* One uncached lookup of dialer/dest.go: lookupServersUncached asks all   *)
(* servers at once and takes the first addresses; for each server          *)
(* lookupAAndHints asks for A records and, at the same time, for the       *)
(* address hints of HTTPS records, which it waits for 50 ms only once the  *)
(* A answer is there.                                                      *)
(***************************************************************************)
EXTENDS Naturals, Sequences, SequencesExt, FiniteSets

CONSTANTS
  Servers,     \* the servers asked
  AIps, HIps,  \* address lists an A answer and an HTTPS answer can carry
  Waiting, Failed  \* "no answer yet" and "the query failed"

ASSUME RaceAssumption ==
  /\ {Waiting, Failed} \cap (AIps \cup HIps) = {} /\ <<>> \in AIps \cap HIps /\ Waiting # Failed
  /\ IsFiniteSet(Servers) /\ \A x \in AIps \cup HIps : x \in Seq(ToSet(x))

VARIABLES
  a, h,        \* what came on aCh and httpsCh: Waiting, Failed or a list
  q,           \* lookupAAndHints: A, hint, both, late or done
  chan,        \* the channel of outcomes, make(chan, len(servers)); <<>> is an error
  main,        \* lookupServersUncached: wait or returned
  remaining, result,
  expired      \* the deadline of the lookup (tcpDNSTimeout) has passed

vars == <<a, h, q, chan, main, remaining, result, expired>>

Init ==
  /\ a = [v \in Servers |-> Waiting] /\ h = [v \in Servers |-> Waiting]
  /\ q = [v \in Servers |-> "A"] /\ chan = <<>>
  /\ main = "wait" /\ remaining = Cardinality(Servers) /\ result = <<>>
  /\ expired = FALSE

\* The context of the queries is done: the deadline, or the lookup returned.
CtxDone == expired \/ main = "returned"

List(x) == IF x \in {Waiting, Failed} THEN <<>> ELSE x

\* mergeIPv4: the hints first, each address once.
Merge(hint, ips) ==
  LET all == hint \o ips
      new == {k \in DOMAIN all : \A j \in 1..(k - 1) : all[j] # all[k]}
      Nth(n) == CHOOSE k \in new : Cardinality({j \in new : j <= k}) = n
  IN [n \in 1..Cardinality(new) |-> all[Nth(n)]]

\* Mutant: the channel has one place.
Finish_OnePlace(v, ips) ==
  /\ Len(chan) < 1
  /\ chan' = Append(chan, ips) /\ q' = [q EXCEPT ![v] = "done"]

\* An outcome is sent as soon as the channel has room: it has a place per server.
Finish(v, ips) ==
  /\ Len(chan) < Cardinality(Servers)
  /\ chan' = Append(chan, ips) /\ q' = [q EXCEPT ![v] = "done"]

-----------------------------------------------------------------------------
(* The queries of a server: lookupRaw                                      *)

\* An answer, an unusable one, an error, or the query's own timeout.
AAnswer(v) ==
  /\ a[v] = Waiting
  /\ \E x \in AIps \cup {Failed} : a' = [a EXCEPT ![v] = x]
  /\ UNCHANGED <<h, q, chan, main, remaining, result, expired>>

HAnswer(v) ==
  /\ h[v] = Waiting
  /\ \E x \in HIps \cup {Failed} : h' = [h EXCEPT ![v] = x]
  /\ UNCHANGED <<a, q, chan, main, remaining, result, expired>>

-----------------------------------------------------------------------------
(* lookupAAndHints                                                         *)

\* The A answer first: nothing the hints say is looked at before it.
GetA(v) ==
  /\ q[v] = "A"
  /\ \/ /\ a[v] # Waiting
        /\ q' = [q EXCEPT ![v] = IF h[v] # Waiting THEN "both" ELSE "hint"]
        /\ UNCHANGED chan
     \/ CtxDone /\ Finish(v, <<>>)
  /\ UNCHANGED <<a, h, main, remaining, result, expired>>

\* Without the hints: the A addresses if there are any.
Late(v) ==
  IF List(a[v]) # <<>> THEN Finish(v, Merge(<<>>, List(a[v])))
  ELSE q' = [q EXCEPT ![v] = "late"] /\ UNCHANGED chan

\* Mutant: the A addresses wait for the hints as long as it takes.
GetHint_NoTimer(v) ==
  /\ \/ /\ q[v] \in {"hint", "both"} /\ h[v] # Waiting
        /\ Finish(v, Merge(List(h[v]), List(a[v])))
     \/ q[v] = "hint" /\ CtxDone /\ Late(v)
  /\ UNCHANGED <<a, h, main, remaining, result, expired>>

\* The hints if they are there or come in time; the timer; or the end of the
\* context, which drops a failed query at once.
GetHint(v) ==
  /\ \/ /\ q[v] \in {"hint", "both"} /\ h[v] # Waiting
        /\ Finish(v, Merge(List(h[v]), List(a[v])))
     \/ q[v] = "hint" /\ Late(v)
     \/ /\ q[v] \in {"hint", "both"} /\ CtxDone
        /\ IF a[v] = Failed THEN Finish(v, <<>>) ELSE Late(v)
  /\ UNCHANGED <<a, h, main, remaining, result, expired>>

\* No A addresses: the hints are the only hope.
GetLate(v) ==
  /\ q[v] = "late"
  /\ \/ h[v] # Waiting /\ Finish(v, Merge(List(h[v]), List(a[v])))
     \/ CtxDone /\ Finish(v, <<>>)
  /\ UNCHANGED <<a, h, main, remaining, result, expired>>

-----------------------------------------------------------------------------
(* lookupServersUncached                                                   *)

\* Mutant: the first outcome decides.
Collect_First ==
  /\ main = "wait" /\ chan # <<>>
  /\ chan' = Tail(chan) /\ remaining' = remaining - 1
  /\ result' = Head(chan) /\ main' = "returned"
  /\ UNCHANGED <<a, h, q, expired>>

\* The next outcome: addresses end the lookup (and go to the cache), an error
\* ends it when it was the last one.
Collect ==
  /\ main = "wait" /\ chan # <<>>
  /\ chan' = Tail(chan) /\ remaining' = remaining - 1
  /\ result' = Head(chan)
  /\ main' = IF Head(chan) # <<>> \/ remaining = 1 THEN "returned" ELSE "wait"
  /\ UNCHANGED <<a, h, q, expired>>

GiveUp ==
  /\ main = "wait" /\ expired
  /\ main' = "returned"
  /\ UNCHANGED <<a, h, q, chan, remaining, result, expired>>

Expire ==
  /\ ~expired /\ main = "wait"
  /\ expired' = TRUE
  /\ UNCHANGED <<a, h, q, chan, main, remaining, result>>

\* Nothing has to happen after the return, except what EverybodyEnds asks.
AllDone == main = "returned" /\ UNCHANGED vars

Worker(v) == GetA(v) \/ GetHint(v) \/ GetLate(v)
Next ==
  \/ \E v \in Servers : AAnswer(v) \/ HAnswer(v) \/ Worker(v)
  \/ Collect \/ GiveUp \/ Expire \/ AllDone

Spec == Init /\ [][Next]_vars

\* Goroutines and timers run; no server need answer, and the deadline, which
\* comes 60 timers later, need not pass.
FairSpec == Spec /\ WF_vars(Collect) /\ \A v \in Servers : WF_vars(Worker(v))

-----------------------------------------------------------------------------
(* Properties                                                              *)

\* Before the deadline the lookup fails only when every server has answered or
\* failed and none had an address, in A or in HTTPS records: one slow or broken
\* server, or one whose A answer is empty, never hides another's addresses.
NoFalseFailure ==
  (main = "returned" /\ result = <<>> /\ ~expired) =>
    \A v \in Servers : /\ Waiting \notin {a[v], h[v]}
                       /\ List(a[v]) = <<>> /\ List(h[v]) = <<>>

\* A server that answers the A query with addresses is enough: neither silent
\* HTTPS queries nor silent servers delay the lookup to its deadline
\* (dest_test.go TestLookupADoesNotWaitOnSilentHTTPS).
AnswerIsEnough ==
  \A v \in Servers : (List(a[v]) # <<>> /\ ~expired) ~> main = "returned"

\* At its deadline the lookup returns, and once it returned every goroutine it
\* started ends, those of the servers that lost included: their contexts are
\* cancelled and the channel has room for all of them.
EverybodyEnds == CtxDone ~> (main = "returned" /\ \A v \in Servers : q[v] = "done")
=============================================================================
