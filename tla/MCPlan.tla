-------------------------------- MODULE MCPlan --------------------------------
(***************************************************************************)
(* Plans of five features, for TLC.                                         *)
(***************************************************************************)
EXTENDS Plan

FiveOrders == {<<1, 2, 3, 4, 5>>, <<4, 2, 5, 1, 3>>}

\* Feature 4 has a @serial tag, or none has.
FiveSerials == {{}, {4}}

\* No history, one tail job, and the worst case of longest-first for two
\* workers (3, 3, 2, 2, 2, if none of them is serial: 7 against 6).
FiveHistories == {<<0, 0, 0, 0, 0>>, <<1, 1, 1, 1, 4>>, <<2, 3, 2, 3, 2>>}
=============================================================================
