------------------------------- MODULE MCIntake -------------------------------
(* Three events of one user, one of them from a chat that is not allowed, and *)
(* one of another user without an id.                                         *)
EXTENDS Intake

CONSTANTS a, b, elsewhere, unnamed, ann, bob

MCEvents == {a, b, elsewhere, unnamed}
MCUsers == {ann, bob}
MCUserOf == [e \in MCEvents |-> IF e = unnamed THEN bob ELSE ann]
MCUnnamed == {unnamed}
MCElsewhere == {elsewhere}
MCBroken == {b}
=============================================================================
