------------------------------- MODULE MCTestApi -------------------------------
(* Three requests to one key, of which the last repeats the id of the first, and *)
(* one to another key.                                                           *)
EXTENDS TestApi

CONSTANTS r1, r2, r3, r4, k1, k2

MCRequests == {r1, r2, r3, r4}
MCKeys == {k1, k2}
MCKeyOf == [r \in MCRequests |-> IF r = r4 THEN k2 ELSE k1]
MCIds == {r1, r2, r4}
MCIdOf == [r \in MCRequests |-> IF r = r3 THEN r1 ELSE r]
=============================================================================
