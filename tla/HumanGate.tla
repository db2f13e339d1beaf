----------------------------- MODULE HumanGate -----------------------------
(***************************************************************************)
(* What the human-in-the-loop parts of the service promise, whatever graph *)
(* or store implements them: a piece of work is performed only after it    *)
(* was granted for that very job and, when Once holds and until the first  *)
(* crash, a job is performed at most one time, however often its approval  *)
(* is repeated.  A crash may make the service forget what it performed.    *)
(***************************************************************************)
CONSTANTS
  Jobs,     \* what a decision is about: an approval id, a session
  Works,    \* what may be performed: tool arguments, a requirement
  Workers,  \* who performs it: the calls of the service
  Once      \* TRUE: a job is performed at most once

VARIABLES
  granted,    \* <<job, work>> pairs a human let through
  performed,  \* <<job, work, worker>> triples that took effect
  steady      \* TRUE until the first crash

hgVars == <<granted, performed, steady>>

HGInit ==
  /\ granted = {}
  /\ performed = {}
  /\ steady = TRUE

Grant(j, w) ==
  /\ granted' = granted \cup {<<j, w>>}
  /\ UNCHANGED <<performed, steady>>

Perform(j, w, c) ==
  /\ <<j, w>> \in granted
  /\ Once /\ steady => \A p \in performed : p[1] # j
  /\ performed' = performed \cup {<<j, w, c>>}
  /\ UNCHANGED <<granted, steady>>

GateCrash ==
  /\ steady' = FALSE
  /\ UNCHANGED <<granted, performed>>

HGNext ==
  \/ \E j \in Jobs, w \in Works :
       \/ Grant(j, w)
       \/ \E c \in Workers : Perform(j, w, c)
  \/ GateCrash

HGSpec == HGInit /\ [][HGNext]_hgVars
=============================================================================
