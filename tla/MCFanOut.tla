------------------------------ MODULE MCFanOut ------------------------------
(* Instances of FanOut for TLC: frame sizes and audiences.  *)
EXTENDS FanOut, TLC

CONSTANTS c1, c2, x1, r1, r2

Conns == <<c1, c2>>
OnFirstRoute == [x \in External |-> r1]
\* One audience is larger than the budget.
Players == [r \in Route |-> IF r = r1 THEN 3 ELSE 1]
\* Every third frame is twice as large.
Sizes(n) == IF n % 3 = 0 THEN 2 ELSE 1
=============================================================================
