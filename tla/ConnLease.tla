------------------------------ MODULE ConnLease ------------------------------
(***************************************************************************)
(* What the connection pool of dialer/pool.go promises: a transport is     *)
(* leased to one user at a time, serves at most MaxUses sessions and, once *)
(* the pool is shut, is never leased again.                                *)
(***************************************************************************)
EXTENDS Naturals

CONSTANTS Conns, Sessions, MaxUses, MaxIdle

VARIABLES
  lease,   \* "unborn", "free", "gone", a session, "warmer" or "closer"
  served,  \* sessions a transport has been leased to
  shut     \* Pool.Close was called

vars == <<lease, served, shut>>

Users == Sessions \cup {"warmer", "closer"}
Free  == {c \in Conns : lease[c] = "free"}

Init ==
  /\ lease = [c \in Conns |-> "unborn"]
  /\ served = [c \in Conns |-> 0]
  /\ shut = FALSE

\* The transports of D end.
Retire(D) ==
  /\ D # {}
  /\ \A c \in D : lease[c] \in Users \cup {"free"}
  /\ lease' = [c \in Conns |-> IF c \in D THEN "gone" ELSE lease[c]]
  /\ served' = [c \in Conns |-> IF c \in D THEN 0 ELSE served[c]]
  /\ UNCHANGED shut

\* Taken from the free ones to be ended; never leased again.
Expire(c) ==
  /\ ~shut /\ lease[c] = "free"
  /\ lease' = [lease EXCEPT ![c] = "closer"]
  /\ served' = [served EXCEPT ![c] = 0]
  /\ UNCHANGED shut

Grant(c, s) ==
  /\ ~shut /\ lease[c] = "free"
  /\ served[c] < MaxUses
  /\ \A d \in Conns : lease[d] # s
  /\ lease' = [lease EXCEPT ![c] = s]
  /\ served' = [served EXCEPT ![c] = @ + 1]
  /\ UNCHANGED shut

Create(c, u) ==
  /\ lease[c] = "unborn" /\ u \in Sessions \cup {"warmer"}
  /\ \A d \in Conns : lease[d] # u
  /\ lease' = [lease EXCEPT ![c] = u]
  /\ served' = [served EXCEPT ![c] = IF u \in Sessions THEN 1 ELSE 0]
  /\ UNCHANGED shut

Return(c) ==
  /\ ~shut /\ lease[c] \in Sessions \cup {"warmer"}
  /\ served[c] < MaxUses
  /\ lease' = [lease EXCEPT ![c] = "free"]
  /\ UNCHANGED <<served, shut>>

Shut ==
  /\ ~shut /\ shut' = TRUE
  /\ lease' = [c \in Conns |-> IF c \in Free THEN "closer" ELSE lease[c]]
  /\ served' = [c \in Conns |-> IF c \in Free THEN 0 ELSE served[c]]

Next ==
  \/ \E D \in SUBSET Conns : Retire(D)
  \/ \E c \in Conns : Expire(c) \/ \E s \in Sessions : Grant(c, s)
  \/ \E c \in Conns : Return(c) \/ \E u \in Sessions \cup {"warmer"} : Create(c, u)
  \/ Shut

Spec == Init /\ [][Next]_vars
=============================================================================
