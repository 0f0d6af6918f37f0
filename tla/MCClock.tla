------------------------------ MODULE MCClock ------------------------------
(* Small instances of Clock. A process asks for the longer of two alarms,  *)
(* repeated, another for the shorter one, once.                            *)
EXTENDS Clock

MCAlarms == [u \in User |-> IF u = 1 THEN {<<2, 1>>} ELSE {<<1, 0>>}]
=============================================================================
