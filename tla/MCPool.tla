-------------------------------- MODULE MCPool --------------------------------
(***************************************************************************)
(* Small instances of Pool for TLC.                                         *)
(***************************************************************************)
EXTENDS PoolInvariant

CONSTANTS p1, p2, s1, s2

OneParallel == <<p1>>
TwoParallel == <<p1, p2>>
NoParallel == <<>>
OneSerial == <<s1>>
TwoSerial == <<s1, s2>>
=============================================================================
