----------------------------- MODULE RelayOrder -----------------------------
(***************************************************************************)
(* What the relay promises about the media of one publisher on one route:  *)
(* frames are relayed one at a time, oldest first, each at most once.      *)
(* Frames may be lost, never overtaken or repeated.                        *)
(***************************************************************************)
EXTENDS Naturals

CONSTANTS
    Frame,                        \* records with fields n, from and route
    None

VARIABLES
    count,                        \* number of frames accepted so far
    waiting,                      \* frames accepted, not relayed and not lost
    relayed                       \* the frame just relayed, or None

vars == <<count, waiting, relayed>>

Init ==
    /\ count = 0
    /\ waiting = {}
    /\ relayed = None

Accept ==
    /\ count' = count + 1
    /\ \E f \in Frame : f.n = count' /\ waiting' = waiting \cup {f}
    /\ UNCHANGED relayed

SameFeed(f, g) == f.from = g.from /\ f.route = g.route

Relay(f) ==
    /\ \A g \in waiting : SameFeed(f, g) => f.n <= g.n
    /\ waiting' = waiting \ {f}
    /\ relayed' = f
    /\ UNCHANGED count

Lose ==
    /\ waiting' \subseteq waiting
    /\ relayed' \in {relayed, None}
    /\ UNCHANGED count

Next == Accept \/ Lose \/ \E f \in waiting : Relay(f)

Spec == Init /\ [][Next]_vars
=============================================================================
