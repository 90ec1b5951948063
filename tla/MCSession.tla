----------------------------- MODULE MCSession -----------------------------
(* Instances of Session for TLC.  *)
EXTENDS Session, TLC

CONSTANTS c1, c2, n1, n2

OneConn == {c1}
TwoConns == {c1, c2}
OneApp == {"live"}
Names == {n1, n2}
OneName == {n1}
ConnNameSymmetry == Permutations(TwoConns) \cup Permutations(Names)
=============================================================================
