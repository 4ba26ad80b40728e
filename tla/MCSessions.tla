----------------------------- MODULE MCSessions -----------------------------
(***************************************************************************)
(* A small instance of Sessions: two overlapping turns on one key and one  *)
(* on another, which a cache of one lock makes push out each other's, with *)
(* a /new, a /verbose, a clear_all and a restart at any moment.            *)
(***************************************************************************)
EXTENDS Sessions

CONSTANTS k1, k2, t1, t2, t3, n1, v1, c1

MCKeys == {k1, k2}
MCTurns == {t1, t2, t3}
MCNewCmds == {n1}
MCVerboseCmds == {v1}
MCClearCalls == {c1}
MCKeyOf ==
  [c \in Turns \cup NewCmds \cup VerboseCmds |->
     IF c \in {t3, v1} THEN k2 ELSE k1]
=============================================================================
