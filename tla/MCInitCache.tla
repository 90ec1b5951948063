---------------------------- MODULE MCInitCache ----------------------------
(* Instances of InitCache for TLC.  *)
EXTENDS InitCache, TLC

CONSTANTS p1, p2, x1, r1, r2, r3, t1, t2

OneByteKeys == [r \in Route |-> 1]
RouteOfExternal == [x \in External |-> r1]

\* Payloads of one and of two bytes and an oversized one.
a == [id |-> 1, len |-> 1]
c == [id |-> 2, len |-> 2]
large == [id |-> 3, len |-> 3]
Payloads == {a, c, large}

VideoHeader(tracks, body) == [kind |-> "video header", tracks |-> tracks, body |-> body]
AudioHeader(tracks, body) == [kind |-> "audio header", tracks |-> tracks, body |-> body]
Other(kind, body) == [kind |-> kind, tracks |-> {}, body |-> body]

FrameSet ==
    {VideoHeader({t1}, a), VideoHeader({t2}, a), VideoHeader({t1, t2}, c), VideoHeader({t2}, large),
     AudioHeader({}, a), AudioHeader({t1}, large), Other("keyframe", a), Other("keyframe", large),
     Other("metadata", c), Other("live", a)}

LocalSymmetry == Permutations({p1, p2})
=============================================================================
