--------------------------- MODULE ClientProcess ---------------------------
(***************************************************************************)
(* The clients of one process: they share the resolver (DnsQueue), and     *)
(* Client::connect() dials once its lookup is over.  One of them, self, is *)
(* followed into its session (Client).  A session never looks at the       *)
(* resolver again, so the resolver is followed only up to a moment at      *)
(* which self has its addresses and no other lookup is under way.          *)
(***************************************************************************)
EXTENDS Client, DnsQueue

CONSTANT self

ASSUME SelfAssumption == self \in Caller

VARIABLE dialled      \* self has gone on to its session

processVars == <<vars, dnsVars, dialled>>

ProcessInit == Init /\ DnsInit /\ dialled = FALSE

Quiet == \A t \in Caller : at[t] \in {"idle", "done"}

Lookups == ~dialled /\ DnsNext /\ UNCHANGED <<vars, dialled>>

\* connect() has its addresses; the state of the resolver is dropped here.
StartSession ==
  /\ ~dialled /\ at[self] = "done" /\ Quiet
  /\ dialled' = TRUE
  /\ jobs' = <<>> /\ at' = [t \in Caller |-> "idle"] /\ notFull' = {}
  /\ expired' = {} /\ worker' = "none" /\ job' = {} /\ replied' = {}
  /\ UNCHANGED vars

InSession == dialled /\ Next /\ UNCHANGED <<dnsVars, dialled>>

ProcessNext == Lookups \/ StartSession \/ InSession

ProcessSpec == ProcessInit /\ [][ProcessNext]_processVars
=============================================================================
