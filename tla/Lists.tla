------------------------------- MODULE Lists -------------------------------
(***************************************************************************)
(* The queues and lists of keys and frames the server goes through: what   *)
(* they hold, and what is left when some of it is taken out.               *)
(***************************************************************************)
EXTENDS Integers, Sequences

Elements(s) == {s[i] : i \in DOMAIN s}

\* The list without what is gone, in order (retain, and filters like it).
Without(s, gone) ==
    LET kept[i \in 0 .. Len(s)] ==
          IF i = 0 THEN <<>>
          ELSE IF s[i] \in gone THEN kept[i - 1] ELSE Append(kept[i - 1], s[i])
    IN  kept[Len(s)]
=============================================================================
