---------------------------- MODULE MCRelayTick ----------------------------
(* Instances of RelayTick for TLC.  *)
EXTENDS RelayTick, TLC

CONSTANTS c1, c2, x1, r1, r2

TwoConns == <<c1, c2>>
PutOff == {<<"publish", r2>>, <<"play", r1>>}
OneByteKeys == [r \in Route |-> 1]
RouteOfExternal == [x \in External |-> r1]

Body(p) == [by |-> p, len |-> 1]
Payloads == {Body(p) : p \in Publisher}
Metadata(p) == [kind |-> "metadata", tracks |-> {}, body |-> Body(p)]
FrameSet == {Metadata(p) : p \in Publisher}
BodiesOf == [p \in Publisher |-> {Metadata(p)}]
=============================================================================
