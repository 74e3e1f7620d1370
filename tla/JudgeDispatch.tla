--------------------------- MODULE JudgeDispatch ---------------------------
(***************************************************************************)
(* What the dispatcher of oj_server promises to somebody who submits code, *)
(* with no mutex, no load and no list: a submission is given to a machine  *)
(* that is up at that moment; it is answered by the machine it was given   *)
(* to, or goes back to be given to another; only a machine that failed is  *)
(* taken out; and nobody is sent away without an answer as long as a       *)
(* machine is up.  LoadBalance implements this specification.              *)
(***************************************************************************)
CONSTANTS Workers, Machine, Empty

VARIABLES
  up,       \* the machines that may be given work
  phase,    \* per worker: "done", "waiting" for a machine, or "given" to one
  givenTo,  \* the machine that has the submission, or Empty
  answer    \* the answer a finished submission got, or Empty

vars == <<up, phase, givenTo, answer>>

Init ==
  /\ up = Machine
  /\ phase = [w \in Workers |-> "done"]
  /\ givenTo = [w \in Workers |-> Empty]
  /\ answer = [w \in Workers |-> Empty]

Submit(w) ==
  /\ phase[w] = "done"
  /\ phase' = [phase EXCEPT ![w] = "waiting"]
  /\ answer' = [answer EXCEPT ![w] = Empty]
  /\ UNCHANGED <<up, givenTo>>

Give(w, m) ==
  /\ phase[w] = "waiting"
  /\ m \in up
  /\ phase' = [phase EXCEPT ![w] = "given"]
  /\ givenTo' = [givenTo EXCEPT ![w] = m]
  /\ UNCHANGED <<up, answer>>

\* Sent away without an answer: no machine is up.
SendAway(w) ==
  /\ phase[w] = "waiting"
  /\ up = {}
  /\ phase' = [phase EXCEPT ![w] = "done"]
  /\ UNCHANGED <<up, givenTo, answer>>

Answer(w) ==
  /\ phase[w] = "given"
  /\ phase' = [phase EXCEPT ![w] = "done"]
  /\ answer' = [answer EXCEPT ![w] = givenTo[w]]
  /\ givenTo' = [givenTo EXCEPT ![w] = Empty]
  /\ UNCHANGED up

\* The machine gives the submission back, and is taken out if it failed.
GiveBack(w) ==
  /\ phase[w] = "given"
  /\ phase' = [phase EXCEPT ![w] = "waiting"]
  /\ givenTo' = [givenTo EXCEPT ![w] = Empty]
  /\ up' \in {up, up \ {givenTo[w]}}
  /\ UNCHANGED answer

\* The operator brings every machine back.
Recover ==
  /\ up' = Machine
  /\ UNCHANGED <<phase, givenTo, answer>>

Next ==
  \/ \E w \in Workers :
       \/ Submit(w) \/ SendAway(w) \/ Answer(w) \/ GiveBack(w)
       \/ \E m \in Machine : Give(w, m)
  \/ Recover

Spec == Init /\ [][Next]_vars

=============================================================================
