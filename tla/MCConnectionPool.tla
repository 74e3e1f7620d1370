-------------------------- MODULE MCConnectionPool --------------------------
(* ConnectionPool for TLC: more workers than connections, so that they wait,  *)
(* and enough of them that a lost wakeup leaves one asleep.                   *)
EXTENDS ConnectionPool

=============================================================================
