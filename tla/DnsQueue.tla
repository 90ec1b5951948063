------------------------------ MODULE DnsQueue ------------------------------
(***************************************************************************)
(* The resolver shared by every Client::connect() of the process           *)
(* (client/mod.rs, DnsQueue and resolve_socket_addrs): a bounded queue, two *)
(* condition variables and one worker thread.                              *)
(*                                                                         *)
(* A step is what a thread does while it holds the mutex, or one           *)
(* notification made after releasing it.  A thread inside wait() is in     *)
(* notFull (callers) or "asleep" (the worker); a notification, the deadline *)
(* or a spurious wake-up returns it to the head of its loop.               *)
(***************************************************************************)
EXTENDS Integers, Sequences, FiniteSets

CONSTANTS Caller, MAX_DNS_QUEUE_DEPTH

ASSUME DnsAssumption == IsFiniteSet(Caller) /\ MAX_DNS_QUEUE_DEPTH \in Nat \ {0}

VARIABLES
  jobs,      \* the queue, by caller
  at,        \* where each caller is
  notFull,   \* the callers waiting on not_full
  expired,   \* the callers whose deadline has passed
  worker,    \* where the worker is
  job,       \* the job it holds: a set of at most one caller
  replied    \* the callers whose reply channel holds an answer

dnsVars == <<jobs, at, notFull, expired, worker, job, replied>>

DnsInit ==
  /\ jobs = <<>> /\ at = [t \in Caller |-> "idle"] /\ notFull = {}
  /\ expired = {} /\ worker = "none" /\ job = {} /\ replied = {}

Full == Len(jobs) >= MAX_DNS_QUEUE_DEPTH

Goes(t, place) == at' = [at EXCEPT ![t] = place]

\* resolve_socket_addrs: the first caller starts the worker, or fails to.
Resolve(t) ==
  /\ at[t] = "idle"
  /\ \/ Goes(t, "enqueue") /\ worker' = IF worker = "none" THEN "pop" ELSE worker
     \/ worker = "none" /\ Goes(t, "done") /\ UNCHANGED worker
  /\ UNCHANGED <<jobs, notFull, expired, job, replied>>

\* The deadline passes; a caller inside wait_timeout or recv_timeout wakes.
Deadline(t) ==
  /\ at[t] \in {"enqueue", "notify", "reply"} /\ t \notin expired
  /\ expired' = expired \cup {t}
  /\ notFull' = notFull \ {t}
  /\ UNCHANGED <<jobs, at, worker, job, replied>>

\* notify_one on not_full: any one waiter, if there is one.
NotifyOne == \/ notFull = {} /\ UNCHANGED notFull
             \/ \E w \in notFull : notFull' = notFull \ {w}

\* Condition variables may wake without a notification.
Spurious(t) ==
  /\ t \in notFull
  /\ notFull' = notFull \ {t}
  /\ UNCHANGED <<jobs, at, expired, worker, job, replied>>

InLoop(t) == at[t] = "enqueue" /\ t \notin notFull

GivesUpSilently(t) ==
  /\ InLoop(t) /\ t \in expired
  /\ Goes(t, "done")
  /\ UNCHANGED <<jobs, notFull, expired, worker, job, replied>>

\* Past its deadline a caller leaves; if there is room it may have taken the
\* wake-up of another waiter, and passes it on.
GivesUp(t) ==
  /\ InLoop(t) /\ t \in expired
  /\ Goes(t, "done")
  /\ IF Full THEN UNCHANGED notFull ELSE NotifyOne
  /\ UNCHANGED <<jobs, expired, worker, job, replied>>

\* enqueue: push when there is room, else wait on not_full.
Push(t) ==
  /\ InLoop(t) /\ t \notin expired /\ ~Full
  /\ jobs' = Append(jobs, t) /\ Goes(t, "notify")
  /\ UNCHANGED <<notFull, expired, worker, job, replied>>

WaitNotFull(t) ==
  /\ InLoop(t) /\ t \notin expired /\ Full
  /\ notFull' = notFull \cup {t}
  /\ UNCHANGED <<jobs, at, expired, worker, job, replied>>

\* The mutex is released before not_empty is notified.
NotifyNotEmpty(t) ==
  /\ at[t] = "notify"
  /\ Goes(t, "reply")
  /\ worker' = IF worker = "asleep" THEN "pop" ELSE worker
  /\ UNCHANGED <<jobs, notFull, expired, job, replied>>

\* recv_timeout: the answer, or the deadline.
Answer(t) ==
  /\ at[t] = "reply" /\ (t \in replied \/ t \in expired)
  /\ Goes(t, "done")
  /\ UNCHANGED <<jobs, notFull, expired, worker, job, replied>>

\* dequeue_one: pop a job or wait on not_empty.
PopOrWait ==
  /\ worker = "pop"
  /\ IF jobs = <<>>
     THEN worker' = "asleep" /\ UNCHANGED <<jobs, job>>
     ELSE worker' = "popped" /\ job' = {Head(jobs)} /\ jobs' = Tail(jobs)
  /\ UNCHANGED <<at, notFull, expired, replied>>

\* The mutex is released before not_full is notified.
NotifyNotFull ==
  /\ worker = "popped"
  /\ worker' = "resolving"
  /\ NotifyOne
  /\ UNCHANGED <<jobs, at, expired, job, replied>>

\* The lookup ends; its caller may be gone.
Reply ==
  /\ worker = "resolving"
  /\ worker' = "pop" /\ job' = {}
  /\ replied' = replied \cup job
  /\ UNCHANGED <<jobs, at, notFull, expired>>

DnsNext ==
  \/ \E t \in Caller : \/ Resolve(t) \/ Deadline(t) \/ Spurious(t) \/ GivesUp(t)
                       \/ Push(t) \/ WaitNotFull(t) \/ NotifyNotEmpty(t) \/ Answer(t)
  \/ PopOrWait \/ NotifyNotFull \/ Reply

DnsSpec == DnsInit /\ [][DnsNext]_dnsVars

-----------------------------------------------------------------------------
Awake == {t \in Caller : InLoop(t)}

\* The comment on enqueue: a caller that leaves while a slot is free relays
\* its wake-up.  So while callers wait, every free slot has a caller or the
\* worker on its way to it.
NoLostWakeup ==
  notFull # {} =>
    MAX_DNS_QUEUE_DEPTH - Len(jobs)
      <= Cardinality(Awake) + (IF worker = "popped" THEN 1 ELSE 0)

\* The worker sleeps only on an empty queue, or with a notification coming.
WorkerWakes ==
  worker = "asleep" /\ jobs # <<>> => \E t \in Caller : at[t] = "notify"

\* Nobody sleeps beside the work: neither a caller next to a free slot nor the
\* worker next to a job (DnsQueue::enqueue, DnsQueue::run).
WakeupsKept == NoLostWakeup /\ WorkerWakes
=============================================================================
