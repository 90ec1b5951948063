--------------------------- MODULE MessageChannel ---------------------------
(***************************************************************************)
(* What the chunk layers of two peers promise together: a first-in         *)
(* first-out channel of whole messages.  Fragmentation, header compression *)
(* and chunk sizes do not show.                                            *)
(***************************************************************************)
EXTENDS Integers, Sequences

CONSTANT Msg

VARIABLES
    queue,   \* messages written and not yet handled by the receiver
    got      \* the message handled last, << >> at first

Init == queue = <<>> /\ got = <<>>

Send ==
    /\ Len(queue') = Len(queue) + 1
    /\ SubSeq(queue', 1, Len(queue)) = queue
    /\ queue'[Len(queue')] \in Msg
    /\ UNCHANGED got

Deliver ==
    /\ queue # <<>>
    /\ got' = <<Head(queue)>>
    /\ queue' = Tail(queue)

Next == Send \/ Deliver

Spec == Init /\ [][Next]_<<queue, got>> /\ WF_<<queue, got>>(Deliver)
=============================================================================
