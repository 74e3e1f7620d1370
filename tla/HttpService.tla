----------------------------- MODULE HttpService -----------------------------
(***************************************************************************)
(* What the HTTP server promises to those who connect: they stand in one   *)
(* line, in the order in which they came, the first of the line is served  *)
(* by a worker that is free, and each is got rid of once.  When the server *)
(* closes, those at the end of the line may be refused; everybody who is   *)
(* not is served before it is over.  The two queues, the mutex, the        *)
(* condition variable and the steps of the shutdown are left out.          *)
(***************************************************************************)
EXTENDS Naturals, Sequences

CONSTANTS
  Threads,  \* the workers
  Conns,    \* who may come
  NoConn    \* whom a worker serves that serves nobody

VARIABLES
  state,    \* "open", "closing", or "over"
  line,     \* who waits, in the order of coming
  serving,  \* whom a worker serves
  gone      \* who was served or refused

vars == <<state, line, serving, gone>>

Init ==
  /\ state = "open"
  /\ line = << >>
  /\ serving = [t \in Threads |-> NoConn]
  /\ gone = {}

Come(c) ==
  /\ state = "open"
  /\ c \notin gone
  /\ \A i \in DOMAIN line : line[i] # c
  /\ \A t \in Threads : serving[t] # c
  /\ line' = Append(line, c)
  /\ UNCHANGED <<state, serving, gone>>

Begin(t) ==
  /\ serving[t] = NoConn
  /\ line # << >>
  /\ serving' = [serving EXCEPT ![t] = Head(line)]
  /\ line' = Tail(line)
  /\ UNCHANGED <<state, gone>>

End(t) ==
  /\ serving[t] # NoConn
  /\ serving' = [serving EXCEPT ![t] = NoConn]
  /\ gone' = gone \cup {serving[t]}
  /\ UNCHANGED <<state, line>>

\* Nobody is let in any more, and only the first n of the line are served.
Close(n) ==
  /\ state = "open" /\ state' = "closing"
  /\ line' = SubSeq(line, 1, n)
  /\ gone' = gone \cup {line[i] : i \in n + 1 .. Len(line)}
  /\ UNCHANGED serving

Over ==
  /\ state = "closing" /\ state' = "over"
  /\ line = << >> /\ \A t \in Threads : serving[t] = NoConn
  /\ UNCHANGED <<line, serving, gone>>

Next ==
  \/ \E c \in Conns : Come(c)
  \/ \E t \in Threads : Begin(t) \/ End(t)
  \/ \E n \in 0 .. Len(line) : Close(n)
  \/ Over

Spec == Init /\ [][Next]_vars

=============================================================================
