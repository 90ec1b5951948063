------------------------------ MODULE MCClient ------------------------------
(* ClientProcess for TLC: three clients look up their servers, one of them *)
(* connects.                                                               *)
EXTENDS ClientProcess
CONSTANTS t1, t2, t3
Callers == {t1, t2, t3}
=============================================================================
