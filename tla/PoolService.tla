----------------------------- MODULE PoolService -----------------------------
(***************************************************************************)
(* What MySqlConnectionPool promises to QueryMySql (oj_model.hpp): a       *)
(* connection is free or has one user; who asks gets a free one; who used  *)
(* one gives it back, or loses it when its query is left by an exception.  *)
(* Mutex, condition variable, queue order and sleeping are left out.       *)
(***************************************************************************)
CONSTANTS
  Workers,  \* the threads that query
  Conns,    \* the connections
  NoConn    \* what a worker uses while it uses none

VARIABLES
  free,     \* the connections nobody uses
  use,      \* the connection a worker uses
  asking    \* the workers that wait for one

vars == <<free, use, asking>>

Init ==
  /\ free = Conns
  /\ use = [w \in Workers |-> NoConn]
  /\ asking = {}

Ask(w) ==
  /\ w \notin asking
  /\ use[w] = NoConn
  /\ asking' = asking \cup {w}
  /\ UNCHANGED <<free, use>>

Grant(w, c) ==
  /\ w \in asking
  /\ c \in free
  /\ free' = free \ {c}
  /\ use' = [use EXCEPT ![w] = c]
  /\ asking' = asking \ {w}

GiveBack(w) ==
  /\ use[w] # NoConn
  /\ free' = free \cup {use[w]}
  /\ use' = [use EXCEPT ![w] = NoConn]
  /\ UNCHANGED asking

Lose(w) ==
  /\ use[w] # NoConn
  /\ use' = [use EXCEPT ![w] = NoConn]
  /\ UNCHANGED <<free, asking>>

Serve == \E w \in Workers, c \in Conns : Grant(w, c)

Next ==
  \/ Serve
  \/ \E w \in Workers : Ask(w) \/ GiveBack(w) \/ Lose(w)

Spec == Init /\ [][Next]_vars

\* A free connection does not wait forever for one of the workers that ask.
\* Which of them gets it is not promised.
Fairness == WF_vars(Serve) /\ \A w \in Workers : WF_vars(GiveBack(w) \/ Lose(w))

=============================================================================
