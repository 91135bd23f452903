----------------------------- MODULE DnsRaceProofs -----------------------------
(***************************************************************************)
(* One lookup and its queries, for any finite set of servers and any       *)
(* address lists: it fails early only when no server has an address.       *)
(***************************************************************************)
EXTENDS DnsRace, FiniteSetTheorems, TLAPS

-----------------------------------------------------------------------------
(* The inductive invariant: what the outcomes in the channel, those that   *)
(* were collected and the places of the workers say about the answers.     *)

Undone == {v \in Servers : q[v] # "done"}

\* The server has answered or failed, twice, and has no address.
Spent(v) == Waiting \notin {a[v], h[v]} /\ List(a[v]) = <<>> /\ List(h[v]) = <<>>

Ranges ==
  /\ a \in [Servers -> {Waiting, Failed} \cup AIps]
  /\ h \in [Servers -> {Waiting, Failed} \cup HIps]
  /\ q \in [Servers -> {"A", "hint", "both", "late", "done"}]
  /\ chan \in Seq(ToSet(chan))

\* Past its first select a worker has the A answer, without addresses in the last.
Asked ==
  \A v \in Servers : /\ q[v] \in {"hint", "both", "late"} => a[v] # Waiting
                     /\ q[v] = "late" => List(a[v]) = <<>>

\* Until the lookup ends it has collected errors only, and one outcome is to come
\* from each worker that runs and from each place of the channel.
Outstanding == main = "wait" => remaining = Cardinality(Undone) + Len(chan)
Errors ==
  (main = "wait" /\ ~expired /\ \A k \in DOMAIN chan : chan[k] = <<>>) =>
    \A v \in Servers : q[v] = "done" => Spent(v)

RaceInv == Ranges /\ Asked /\ Outstanding /\ Errors /\ NoFalseFailure

-----------------------------------------------------------------------------
(* Merging                                                                 *)

LEMMA ListIsSeq ==
  ASSUME NEW x \in {Waiting, Failed} \cup AIps \cup HIps PROVE List(x) \in Seq(ToSet(List(x)))
BY RaceAssumption DEF RaceAssumption, List, ToSet

\* Addresses are not lost by merging.
LEMMA MergeKeeps ==
  ASSUME NEW x, x \in Seq(ToSet(x)), NEW y, y \in Seq(ToSet(y)), Merge(x, y) = <<>>
  PROVE  x = <<>> /\ y = <<>>
<1>. DEFINE all == x \o y
            new == {k \in DOMAIN all : \A j \in 1..(k - 1) : all[j] # all[k]}
            Nth(n) == CHOOSE k \in new : Cardinality({j \in new : j <= k}) = n
<1>1. /\ Len(x) \in Nat /\ Len(y) \in Nat /\ Len(all) = Len(x) + Len(y)
      /\ DOMAIN all = 1..(Len(x) + Len(y))
  <2>1. x \in Seq(ToSet(x) \cup ToSet(y)) /\ y \in Seq(ToSet(x) \cup ToSet(y))
    OBVIOUS
  <2>. QED BY <2>1
<1>2. IsFiniteSet(new)
  <2>1. 1 \in Int /\ Len(x) + Len(y) \in Int
    BY <1>1
  <2>2. new \in SUBSET DOMAIN all /\ DOMAIN all = 1..(Len(x) + Len(y))
    BY <1>1
  <2>. HIDE DEF new, all
  <2>3. IsFiniteSet(1..(Len(x) + Len(y)))
    BY <2>1, FS_Interval
  <2>. QED BY <2>2, <2>3, FS_Subset
<1>3. Len(x) + Len(y) > 0 => 1 \in new
  BY <1>1
<1>4. Merge(x, y) = [n \in 1..Cardinality(new) |-> all[Nth(n)]]
  BY DEF Merge
<1>. HIDE DEF new, all, Nth
<1>5. Cardinality(new) \in Nat
  BY <1>2, FS_CardinalityType
<1>6. Cardinality(new) = 0
  <2>1. DOMAIN Merge(x, y) = 1..Cardinality(new)
    BY <1>4
  <2>. QED BY <1>5, <2>1
<1>7. new = {}
  BY <1>2, <1>6, FS_EmptySet
<1>8. Len(x) = 0 /\ Len(y) = 0
  BY <1>1, <1>3, <1>7
<1>. QED BY <1>8

-----------------------------------------------------------------------------
(* The steps                                                               *)

LEMMA InitRace == Init => RaceInv
<1>. SUFFICES ASSUME Init PROVE RaceInv OBVIOUS
<1>1. Ranges /\ Asked /\ Errors /\ NoFalseFailure
  BY DEF Init, Ranges, Asked, Errors, NoFalseFailure, ToSet
<1>2. Undone = Servers /\ Len(chan) = 0 /\ remaining = Cardinality(Servers)
  BY DEF Init, Undone
<1>3. Cardinality(Servers) \in Nat
  BY RaceAssumption, FS_CardinalityType DEF RaceAssumption
<1>. QED BY <1>1, <1>2, <1>3 DEF RaceInv, Outstanding

\* An answer comes once.
LEMMA AnswerStep ==
  ASSUME RaceInv, NEW v \in Servers, AAnswer(v) \/ HAnswer(v) PROVE RaceInv'
<1>1. UNCHANGED <<q, chan, main, remaining, result, expired>>
  BY DEF AAnswer, HAnswer
<1>2. Ranges'
  BY DEF AAnswer, HAnswer, RaceInv, Ranges
<1>3. \A w \in Servers : /\ a[w] # Waiting => a'[w] = a[w]
                         /\ h[w] # Waiting => h'[w] = h[w]
  BY DEF AAnswer, HAnswer, RaceInv, Ranges
<1>4. \A w \in Servers : Spent(w) => Spent(w)'
  BY <1>3 DEF Spent
<1>5. Asked'
  BY <1>1, <1>3 DEF RaceInv, Asked
<1>6. Outstanding' /\ Errors'
  BY <1>1, <1>4 DEF RaceInv, Outstanding, Errors, Undone
<1>7. NoFalseFailure'
  BY <1>1, <1>4 DEF RaceInv, NoFalseFailure, Spent
<1>. QED BY <1>2, <1>5, <1>6, <1>7 DEF RaceInv

\* A worker that goes on.
LEMMA GoesOn ==
  ASSUME RaceInv, NEW v \in Servers, q[v] # "done", NEW x \in {"hint", "both", "late"},
         q' = [q EXCEPT ![v] = x], UNCHANGED <<a, h, chan, main, remaining, result, expired>>,
         a[v] # Waiting, x = "late" => List(a[v]) = <<>>
  PROVE  RaceInv'
<1>1. Ranges' /\ Asked'
  BY DEF RaceInv, Ranges, Asked
<1>2. Undone' = Undone
  BY DEF RaceInv, Ranges, Undone
<1>3. \A w \in Servers : q'[w] = "done" => q[w] = "done"
  BY DEF RaceInv, Ranges
<1>4. Outstanding' /\ Errors' /\ NoFalseFailure'
  BY <1>2, <1>3 DEF RaceInv, Outstanding, Errors, NoFalseFailure, Spent
<1>. QED BY <1>1, <1>4 DEF RaceInv

\* A worker that ends: before the deadline, and while the lookup runs, with an
\* error only if its server is spent.
LEMMA Finishes ==
  ASSUME RaceInv, NEW v \in Servers, q[v] # "done", NEW ips, Finish(v, ips),
         UNCHANGED <<a, h, main, remaining, result, expired>>,
         ips = <<>> /\ ~CtxDone => Spent(v)
  PROVE  RaceInv'
<1>1. /\ chan' = Append(chan, ips) /\ q' = [q EXCEPT ![v] = "done"]
      /\ Len(chan) \in Nat /\ chan \in Seq(ToSet(chan))
  BY DEF Finish, RaceInv, Ranges
<1>2. /\ Len(chan') = Len(chan) + 1 /\ DOMAIN chan' = 1..(Len(chan) + 1)
      /\ DOMAIN chan = 1..Len(chan)
      /\ chan'[Len(chan) + 1] = ips /\ \A k \in DOMAIN chan : chan'[k] = chan[k]
      /\ chan' \in Seq(ToSet(chan) \cup {ips})
  <2>1. chan \in Seq(ToSet(chan) \cup {ips})
    BY <1>1
  <2>. QED BY <1>1, <2>1
<1>3. chan' \in Seq(ToSet(chan'))
  <2>1. \A k \in 1..Len(chan') : chan'[k] \in ToSet(chan')
    BY <1>1, <1>2 DEF ToSet
  <2>. QED BY <1>2, <2>1
<1>4. Ranges' /\ Asked'
  BY <1>1, <1>3 DEF RaceInv, Ranges, Asked
<1>5. Outstanding'
  <2>1. Undone' = Undone \ {v} /\ v \in Undone
    BY <1>1 DEF RaceInv, Ranges, Undone
  <2>2. IsFiniteSet(Undone)
    BY RaceAssumption, FS_Subset DEF RaceAssumption, Undone
  <2>3. Cardinality(Undone') = Cardinality(Undone) - 1 /\ Cardinality(Undone) \in Nat
    BY <2>1, <2>2, FS_RemoveElement, FS_CardinalityType
  <2>. QED BY <1>1, <1>2, <2>3 DEF RaceInv, Outstanding
<1>6. Errors'
  <2>. SUFFICES ASSUME main = "wait", ~expired, \A k \in DOMAIN chan' : chan'[k] = <<>>
                PROVE  \A w \in Servers : q'[w] = "done" => Spent(w)
    BY DEF Errors, Spent
  <2>1. ips = <<>> /\ \A k \in DOMAIN chan : chan[k] = <<>>
    BY <1>1, <1>2
  <2>2. Spent(v)
    BY <2>1 DEF CtxDone
  <2>3. \A w \in Servers : q[w] = "done" => Spent(w)
    BY <2>1 DEF RaceInv, Errors
  <2>. QED BY <1>1, <2>2, <2>3 DEF RaceInv, Ranges
<1>7. NoFalseFailure'
  BY DEF RaceInv, NoFalseFailure
<1>. QED BY <1>4, <1>5, <1>6, <1>7 DEF RaceInv

\* Both answers merged: no address means that there was none.
LEMMA BothMerged ==
  ASSUME RaceInv, NEW v \in Servers, a[v] # Waiting, h[v] # Waiting,
         Merge(List(h[v]), List(a[v])) = <<>>
  PROVE  Spent(v)
<1>1. /\ List(h[v]) \in Seq(ToSet(List(h[v])))
      /\ List(a[v]) \in Seq(ToSet(List(a[v])))
  BY ListIsSeq DEF RaceInv, Ranges
<1>. QED BY <1>1, MergeKeeps DEF Spent

LEMMA LateStep ==
  ASSUME RaceInv, NEW v \in Servers, q[v] \in {"hint", "both"}, Late(v),
         UNCHANGED <<a, h, main, remaining, result, expired>>
  PROVE  RaceInv'
<1>1. a[v] # Waiting /\ q[v] # "done"
  BY DEF RaceInv, Asked
<1>2. CASE List(a[v]) # <<>>
  <2>1. PICK ips : ips = Merge(<<>>, List(a[v]))
    OBVIOUS
  <2>2. ips # <<>>
    <3>1. List(a[v]) \in Seq(ToSet(List(a[v])))
      BY ListIsSeq DEF RaceInv, Ranges
    <3>2. <<>> \in Seq(ToSet(<<>>))
      OBVIOUS
    <3>. QED BY <1>2, <2>1, <3>1, <3>2, MergeKeeps
  <2>3. Finish(v, ips)
    BY <1>2, <2>1 DEF Late
  <2>. QED BY <1>1, <2>2, <2>3, Finishes
<1>3. CASE List(a[v]) = <<>>
  <2>1. q' = [q EXCEPT ![v] = "late"] /\ UNCHANGED chan
    BY <1>3 DEF Late
  <2>. QED BY <1>1, <1>3, <2>1, GoesOn
<1>. QED BY <1>2, <1>3

LEMMA WorkerStep == ASSUME RaceInv, NEW v \in Servers, Worker(v) PROVE RaceInv'
<1>1. UNCHANGED <<a, h, main, remaining, result, expired>> /\ q[v] # "done"
  BY DEF Worker, GetA, GetHint, GetLate
<1>2. CASE GetA(v)
  <2>1. CASE CtxDone /\ Finish(v, <<>>)
    BY <1>1, <2>1, Finishes
  <2>2. CASE ~(CtxDone /\ Finish(v, <<>>))
    <3>1. PICK x \in {"hint", "both"} :
            a[v] # Waiting /\ q' = [q EXCEPT ![v] = x] /\ UNCHANGED chan
      BY <1>2, <2>2 DEF GetA
    <3>. QED BY <1>1, <3>1, GoesOn
  <2>. QED BY <2>1, <2>2
<1>3. CASE GetHint(v)
  <2>1. q[v] \in {"hint", "both"} /\ a[v] # Waiting
    BY <1>3 DEF GetHint, RaceInv, Asked
  <2>2. CASE Late(v)
    BY <1>1, <2>1, <2>2, LateStep
  <2>3. CASE CtxDone /\ Finish(v, <<>>)
    BY <1>1, <2>3, Finishes
  <2>4. CASE h[v] # Waiting /\ Finish(v, Merge(List(h[v]), List(a[v])))
    <3>1. PICK ips : ips = Merge(List(h[v]), List(a[v]))
      OBVIOUS
    <3>2. ips = <<>> => Spent(v)
      BY <2>1, <2>4, <3>1, BothMerged
    <3>. QED BY <1>1, <2>4, <3>1, <3>2, Finishes
  <2>. QED BY <1>3, <2>2, <2>3, <2>4 DEF GetHint
<1>4. CASE GetLate(v)
  <2>1. q[v] = "late" /\ a[v] # Waiting
    BY <1>4 DEF GetLate, RaceInv, Asked
  <2>2. CASE CtxDone /\ Finish(v, <<>>)
    BY <1>1, <2>2, Finishes
  <2>3. CASE h[v] # Waiting /\ Finish(v, Merge(List(h[v]), List(a[v])))
    <3>1. PICK ips : ips = Merge(List(h[v]), List(a[v]))
      OBVIOUS
    <3>2. ips = <<>> => Spent(v)
      BY <2>1, <2>3, <3>1, BothMerged
    <3>. QED BY <1>1, <2>3, <3>1, <3>2, Finishes
  <2>. QED BY <1>4, <2>2, <2>3 DEF GetLate
<1>. QED BY <1>2, <1>3, <1>4 DEF Worker

\* The last outcome is an error only when all were, and nobody is left.
LEMMA CollectStep == ASSUME RaceInv, Collect PROVE RaceInv'
<1>1. /\ main = "wait" /\ chan # <<>> /\ chan' = Tail(chan) /\ result' = Head(chan)
      /\ remaining' = remaining - 1 /\ UNCHANGED <<a, h, q, expired>>
      /\ main' = IF Head(chan) # <<>> \/ remaining = 1 THEN "returned" ELSE "wait"
  BY DEF Collect
<1>2. /\ chan \in Seq(ToSet(chan)) /\ Len(chan) \in Nat /\ Len(chan) > 0
      /\ Head(chan) = chan[1] /\ Len(Tail(chan)) = Len(chan) - 1
      /\ DOMAIN chan = 1..Len(chan) /\ DOMAIN Tail(chan) = 1..(Len(chan) - 1)
      /\ \A k \in DOMAIN Tail(chan) : Tail(chan)[k] = chan[k + 1]
      /\ Tail(chan) \in Seq(ToSet(chan))
  BY <1>1 DEF RaceInv, Ranges
<1>3. chan' \in Seq(ToSet(chan'))
  <2>1. chan' \in Seq(ToSet(chan))
    BY <1>1, <1>2
  <2>2. PICK t : t = chan'
    OBVIOUS
  <2>3. t \in Seq(ToSet(chan)) /\ Len(t) \in Nat /\ DOMAIN t = 1..Len(t)
    BY <2>1, <2>2
  <2>4. \A k \in 1..Len(t) : t[k] \in ToSet(t)
    BY <2>3 DEF ToSet
  <2>5. t \in Seq(ToSet(t))
    BY <2>3, <2>4
  <2>. QED BY <2>2, <2>5
<1>4. Ranges' /\ Asked'
  BY <1>1, <1>3 DEF RaceInv, Ranges, Asked
<1>5. Undone' = Undone /\ Cardinality(Undone) \in Nat /\ (Cardinality(Undone) = 0 => Undone = {})
  <2>1. IsFiniteSet(Undone)
    BY RaceAssumption, FS_Subset DEF RaceAssumption, Undone
  <2>. QED BY <1>1, <2>1, FS_CardinalityType, FS_EmptySet DEF Undone
<1>6. remaining = Cardinality(Undone) + Len(chan)
  BY <1>1 DEF RaceInv, Outstanding
<1>7. Outstanding'
  BY <1>1, <1>2, <1>5, <1>6 DEF Outstanding
<1>8. ASSUME ~expired, Head(chan) = <<>>, \A k \in DOMAIN chan' : chan'[k] = <<>>
      PROVE  \A v \in Servers : q[v] = "done" => Spent(v)
  <2>1. ASSUME NEW k \in DOMAIN chan PROVE chan[k] = <<>>
    <3>1. CASE k = 1
      BY <1>2, <1>8, <3>1
    <3>2. CASE k # 1
      <4>1. k - 1 \in DOMAIN Tail(chan) /\ chan[k] = Tail(chan)[k - 1]
        BY <1>2, <3>2
      <4>. QED BY <1>1, <1>8, <4>1
    <3>. QED BY <3>1, <3>2
  <2>. QED BY <1>1, <1>8, <2>1 DEF RaceInv, Errors
<1>9. Errors'
  BY <1>1, <1>8 DEF Errors, Spent
<1>10. NoFalseFailure'
  <2>. SUFFICES ASSUME main' = "returned", result' = <<>>, ~expired PROVE \A v \in Servers : Spent(v)
    BY <1>1 DEF NoFalseFailure, Spent
  <2>1. remaining = 1 /\ Head(chan) = <<>>
    BY <1>1
  <2>2. Undone = {} /\ DOMAIN Tail(chan) = {}
    BY <1>2, <1>5, <1>6, <2>1
  <2>. QED BY <1>1, <1>8, <2>1, <2>2 DEF Undone
<1>. QED BY <1>4, <1>7, <1>9, <1>10 DEF RaceInv

LEMMA NextRace == RaceInv /\ [Next]_vars => RaceInv'
<1>. SUFFICES ASSUME RaceInv, [Next]_vars PROVE RaceInv' OBVIOUS
<1>1. CASE GiveUp \/ Expire
  <2>1. expired' /\ UNCHANGED <<a, h, q, chan, remaining>> /\ (main' = "wait" => main = "wait")
    BY <1>1 DEF GiveUp, Expire
  <2>. QED BY <2>1 DEF RaceInv, Ranges, Asked, Outstanding, Undone, Errors, NoFalseFailure
<1>2. CASE AllDone \/ UNCHANGED vars
  BY <1>2 DEF AllDone, vars, RaceInv, Ranges, Asked, Outstanding, Undone, Errors, NoFalseFailure, Spent
<1>. QED BY <1>1, <1>2, AnswerStep, WorkerStep, CollectStep DEF Next

\* Before its deadline a lookup fails only when every server has answered or failed
\* and none had an address (lookupServersUncached, lookupAAndHints).
THEOREM NoEarlyFailure == Spec => []NoFalseFailure
<1>1. RaceInv => NoFalseFailure
  BY DEF RaceInv
<1>. QED BY <1>1, InitRace, NextRace, PTL DEF Spec
=============================================================================
