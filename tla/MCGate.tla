-------------------------------- MODULE MCGate --------------------------------
(* Instances of Gate for TLC. *)
EXTENDS Gate

CONSTANTS r1, r2, r3, w1, w2

MCReaders == {r1, r2, r3}
MCWriters == {w1, w2}
===============================================================================
