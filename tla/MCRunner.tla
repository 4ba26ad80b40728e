------------------------------ MODULE MCRunner ------------------------------
(***************************************************************************)
(* A small instance of Runner: two routing keys, three messages on the     *)
(* first (a queue of two can fill up, and a key can be retired and come    *)
(* back), one on the second.                                               *)
(***************************************************************************)
EXTENDS Runner

CONSTANTS k1, k2, m1, m2, m3, m4

MCKeys == {k1, k2}
MCMessages == {m1, m2, m3, m4}
MCKeyOf == [m \in MCMessages |-> IF m = m4 THEN k2 ELSE k1]
=============================================================================
