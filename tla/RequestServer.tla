---------------------------- MODULE RequestServer ----------------------------
(***************************************************************************)
(* What the server promises its clients, whatever its scheduler does: a    *)
(* request that was accepted waits, is served in one of so many lanes, and *)
(* leaves with one answer.  It is never put back once it is served, never  *)
(* served twice, and nobody is served who does not wait.                   *)
(***************************************************************************)
EXTENDS Naturals, FiniteSets

CONSTANTS Client,
          Lanes       \* requests served at a time

VARIABLES waiting, served

serverVars == <<waiting, served>>

ServerInit == waiting = {} /\ served = {}

Accept(c) ==
    /\ c \notin waiting \union served
    /\ waiting' = waiting \union {c}
    /\ UNCHANGED served

Serve(c) ==
    /\ c \in waiting /\ Cardinality(served) < Lanes
    /\ waiting' = waiting \ {c}
    /\ served' = served \union {c}

\* Answers: those who were served, or one who waits and is refused.
Answer(C) == C \subseteq served /\ served' = served \ C /\ UNCHANGED waiting
Refuse(c) == c \in waiting /\ waiting' = waiting \ {c} /\ UNCHANGED served

ServerNext ==
    \/ \E c \in Client : Accept(c) \/ Serve(c) \/ Refuse(c)
    \/ \E C \in SUBSET Client : Answer(C)

ServerSpec == ServerInit /\ [][ServerNext]_serverVars
=============================================================================
