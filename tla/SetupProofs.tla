----------------------------- MODULE SetupProofs -----------------------------
(***************************************************************************)
(* How long a connection may be of no use, and what it is never dropped    *)
(* for, for any lengths of the three timeouts and any number of routes.    *)
(***************************************************************************)
EXTENDS Setup, TLAPS

S == RTMP_SESSION_SETUP_TIMEOUT
P == PUBLISH_MEDIA_REQUIRED_TIMEOUT

Ranges ==
    /\ elapsed \in 0 .. S /\ promised \in 0 .. S
    /\ silent \in Nat /\ useless \in Nat
    /\ role \in {"none", "publishing", "playing"}
    /\ publish_media_deadline_route \in {None, granted}
    /\ pending_publish_auth \in [route : Route, age : Nat] \cup {None}

\* The counters agree with the history: media since the window opened is what
\* the epoch's counters show, and fresh media is what a grace looks at.
Counted ==
    /\ carried <=> MediaFlowed
    /\ injected => injected_in_epoch
    /\ role = "publishing" /\ carried => received_in_epoch \/ injected
    /\ carried => silent = 0
    /\ fresh => EarnsGrace
    /\ role = "playing" /\ fresh => sent_since_grace

\* A player holds no route, and without a role only the host's frames hold one.
Roles ==
    /\ role = "playing" => claimed_publish_route = None /\ silent = 0
    /\ role = "none" /\ claimed_publish_route # None => injected
    /\ role = "playing" /\ sent_since_grace => ~paused /\ sent /\ useless = 0

Base == Ranges /\ Counted /\ Roles

-----------------------------------------------------------------------------
LEMMA BaseInit == Init => Base
BY SetupAssumption
   DEF Init, Base, Ranges, Counted, Roles, MediaFlowed, EarnsGrace, S, P

\* A publish is new for the history exactly when the code opens a new window.
LEMMA WindowIsNew ==
    ASSUME Base, NEW r \in Route, NEW deadline, Published(r, deadline),
           deadline \in {None, publish_media_deadline_route}
    PROVE  \/ /\ NewWindow(r, deadline)
              /\ elapsed' = 0 /\ injected' = FALSE
              /\ received_in_epoch' = FALSE /\ injected_in_epoch' = FALSE
              /\ publish_media_deadline_route' = r
              /\ silent' = 0 /\ useless' = 0 /\ carried' = FALSE
              /\ promised' = P
           \/ /\ ~NewWindow(r, deadline) /\ role # "playing"
              /\ publish_media_deadline_route' = deadline
              /\ UNCHANGED <<elapsed, injected, received_in_epoch, injected_in_epoch,
                             silent, useless, carried>>
              /\ role = "publishing" \/ promised' = 0
              /\ promised' \in {0, promised}
              /\ role = "none" => ~carried
<1>n. r # None  BY SetupAssumption
<1> DEFINE again == role = "publishing" /\ granted = r /\ deadline = r
           new == ~again /\ (granted # r \/ role = "playing" \/ deadline = None \/ carried)
<1>1. NewWindow(r, deadline) <=> new
  BY <1>n DEF NewWindow, Base, Ranges, Counted
<1>2. CASE new
  <2>1. silent' = 0 /\ useless' = 0 /\ carried' = FALSE /\ promised' = P
    BY <1>2 DEF Published, PromiseMediaWindow, P
  <2>q. QED  BY <1>1, <1>2, <2>1 DEF Published
<1>3. CASE ~new
  <2>1. UNCHANGED <<silent, useless, carried>>
    BY <1>3 DEF Published, PromiseMediaWindow
  <2>2. promised' = IF again THEN promised ELSE 0
    BY <1>3 DEF Published, PromiseMediaWindow
  <2>3. ~NewWindow(r, deadline)  BY <1>1, <1>3
  <2>4. /\ publish_media_deadline_route' = deadline
        /\ UNCHANGED <<elapsed, injected, received_in_epoch, injected_in_epoch>>
    BY <2>3 DEF Published
  <2>5. role # "playing" /\ (role = "none" => ~carried)  BY <1>3
  <2>q. QED  BY <2>1, <2>2, <2>3, <2>4, <2>5
<1>q. QED  BY <1>2, <1>3

-----------------------------------------------------------------------------
(* The kinds of steps there are.                                           *)
Acts == /\ status = "open" /\ status' = "open" /\ polled' = polled /\ (polled \/ has_pending_authorization)
        /\ pending_publish_auth' \in [route : Route, age : Nat] \cup {None}

Quiet ==
    /\ UNCHANGED <<elapsed, promised, silent, useless, role, name, paused, granted, graceVars,
                   received_in_epoch, injected_in_epoch, injected, carried, fresh, sent>>
    /\ claimed_publish_route' \in {None, claimed_publish_route}
    /\ publish_media_deadline_route' \in {None, publish_media_deadline_route}

LEMMA StepKinds ==
    ASSUME Base, [Next]_vars
    PROVE  \/ UNCHANGED vars
           \/ Acts /\ Quiet
           \/ Acts /\ Teardown
           \/ Acts /\ \E r \in Route, deadline \in {None, publish_media_deadline_route} :
                         Published(r, deadline)
           \/ Acts /\ \E r : Played(r)
           \/ \E flag \in BOOLEAN : RecvPause(flag)
           \/ RecvMedia \/ Inject \/ Relay \/ Poll \/ Clock
<1> DEFINE Kinds == \/ Acts /\ Quiet
                    \/ Acts /\ Teardown
                    \/ Acts /\ \E r \in Route, deadline \in {None, publish_media_deadline_route} :
                                  Published(r, deadline)
                    \/ Acts /\ \E r : Played(r)
<1>t. pending_publish_auth \in [route : Route, age : Nat] \cup {None}  BY DEF Base, Ranges
<1>1. CASE FinishHandshake \/ RecvConnect \/ DetachLostRoute
  <2>1. Acts
    BY <1>1, <1>t DEF FinishHandshake, RecvConnect, DetachLostRoute, Reads, Acts, authVars
  <2>2. Quiet
    BY <1>1 DEF FinishHandshake, RecvConnect, DetachLostRoute, Quiet, streamVars, epochVars, historyVars
  <2>q. QED  BY <2>1, <2>2
<1>2. CASE CreateStream \/ Unpublish
  <2>1. Teardown /\ Acts  BY <1>2 DEF CreateStream, Unpublish, Reads, Teardown, Acts
  <2>q. QED  BY <2>1
<1>3. ASSUME NEW r \in Route, NEW decision \in {"allow", "pending"}, RecvPublish(r, decision)
      PROVE  Kinds
  <2>0. status = "open" /\ polled  BY <1>3 DEF RecvPublish, Reads
  <2>1. CASE decision = "allow"
    <3>1. Published(r, publish_media_deadline_route) /\ UNCHANGED pending_publish_auth
      BY <1>3, <2>1 DEF RecvPublish
    <3>2. Acts  BY <3>1, <2>0, <1>t DEF Published, Acts
    <3>q. QED  BY <3>1, <3>2
  <2>2. CASE decision = "pending"
    <3>1. /\ pending_publish_auth' = [route |-> r, age |-> 0]
          /\ Refused /\ UNCHANGED <<pending_play_auth, epochVars>>
      BY <1>3, <2>2 DEF RecvPublish
    <3>2. Acts  BY <3>1, <2>0 DEF Refused, Acts
    <3>3. Quiet  BY <3>1 DEF Refused, Quiet, streamVars, historyVars, epochVars
    <3>q. QED  BY <3>2, <3>3
  <2>q. QED  BY <2>1, <2>2
<1>4. ASSUME NEW r \in Route, NEW decision \in {"allow", "pending"}, RecvPlay(r, decision)
      PROVE  Kinds
  <2>0. status = "open" /\ polled  BY <1>4 DEF RecvPlay, Reads
  <2>1. CASE decision = "allow"
    <3>1. Played(r)  BY <1>4, <2>1 DEF RecvPlay
    <3>2. Acts  BY <3>1, <2>0 DEF Played, Acts
    <3>q. QED  BY <3>1, <3>2
  <2>2. CASE decision = "pending"
    <3>1. Refused /\ UNCHANGED <<pending_publish_auth, epochVars>>
      BY <1>4, <2>2 DEF RecvPlay
    <3>2. Acts  BY <3>1, <2>0, <1>t DEF Refused, Acts
    <3>3. Quiet  BY <3>1 DEF Refused, Quiet, streamVars, historyVars, epochVars
    <3>q. QED  BY <3>2, <3>3
  <2>q. QED  BY <2>1, <2>2
<1>5. ASSUME NEW decision \in {"allow", "contended", "deny"}, CompletePublish(decision) PROVE Kinds
  <2> DEFINE r == pending_publish_auth.route
             deadline == IF role = "publishing" /\ publish_media_deadline_route = r
                         THEN publish_media_deadline_route ELSE None
  <2>0. status = "open" /\ has_pending_authorization /\ pending_publish_auth' = None /\ r \in Route
    BY <1>5, <1>t DEF CompletePublish, has_pending_authorization
  <2>d. deadline \in {None, publish_media_deadline_route}  OBVIOUS
  <2>1. CASE decision = "allow"
    <3>1. Published(r, deadline)  BY <1>5, <2>1 DEF CompletePublish
    <3>2. Acts  BY <3>1, <2>0 DEF Published, Acts
    <3> HIDE DEF r, deadline
    <3>q. QED  BY <3>1, <3>2, <2>0, <2>d
  <2>2. CASE decision = "contended"
    <3>1. /\ publish_media_deadline_route' = deadline
          /\ Refused /\ UNCHANGED <<pending_play_auth, received_in_epoch, injected_in_epoch>>
      BY <1>5, <2>2 DEF CompletePublish
    <3>2. Acts  BY <3>1, <2>0 DEF Refused, Acts
    <3>3. Quiet  BY <3>1 DEF Refused, Quiet, streamVars, historyVars
    <3>q. QED  BY <3>2, <3>3
  <2>3. CASE decision = "deny"
    <3>1. Refused /\ UNCHANGED <<pending_play_auth, epochVars>>
      BY <1>5, <2>3 DEF CompletePublish
    <3>2. Acts  BY <3>1, <2>0 DEF Refused, Acts
    <3>3. Quiet  BY <3>1 DEF Refused, Quiet, streamVars, historyVars, epochVars
    <3>q. QED  BY <3>2, <3>3
  <2>q. QED  BY <2>1, <2>2, <2>3
<1>6. ASSUME NEW decision \in {"allow", "deny"}, CompletePlay(decision) PROVE Kinds
  <2>0. status = "open" /\ has_pending_authorization
    BY <1>6 DEF CompletePlay, has_pending_authorization
  <2>1. CASE decision = "allow"
    <3>1. Played(pending_play_auth.route)  BY <1>6, <2>1 DEF CompletePlay
    <3>2. Acts  BY <3>1, <2>0 DEF Played, Acts
    <3>q. QED  BY <3>1, <3>2
  <2>2. CASE decision = "deny"
    <3>1. Refused /\ UNCHANGED <<pending_publish_auth, epochVars>>
      BY <1>6, <2>2 DEF CompletePlay
    <3>2. Acts  BY <3>1, <2>0, <1>t DEF Refused, Acts
    <3>3. Quiet  BY <3>1 DEF Refused, Quiet, streamVars, historyVars, epochVars
    <3>q. QED  BY <3>2, <3>3
  <2>q. QED  BY <2>1, <2>2
<1>q. QED  BY <1>1, <1>2, <1>3, <1>4, <1>5, <1>6 DEF Next

-----------------------------------------------------------------------------
LEMMA BaseStep == Base /\ [Next]_vars => Base'
<1> SUFFICES ASSUME Base, [Next]_vars PROVE Base'  OBVIOUS
<1> USE SetupAssumption DEF Base, Ranges, Counted, Roles, MediaFlowed, EarnsGrace, S, P
<1>1. CASE UNCHANGED vars
  BY <1>1 DEF vars, streamVars, authVars, epochVars, graceVars, historyVars
<1>2. CASE Acts /\ Quiet
  BY <1>2 DEF Acts, Quiet, graceVars
<1>3. CASE Acts /\ Teardown
  BY <1>3 DEF Acts, Teardown, Active, epochVars, graceVars
<1>4. ASSUME Acts, NEW r \in Route, NEW deadline \in {None, publish_media_deadline_route},
             Published(r, deadline)
      PROVE  Base'
  <2>1. /\ claimed_publish_route' = r /\ role' = "publishing" /\ granted' = r
        /\ UNCHANGED graceVars
        /\ pending_publish_auth' \in [route : Route, age : Nat] \cup {None}
    BY <1>4 DEF Published, PromiseMediaWindow, Acts
  <2>2. fresh' => fresh  BY <1>4, Zenon DEF Published, PromiseMediaWindow
  <2>3. fresh' => EarnsGrace'  BY <2>1, <2>2 DEF graceVars
  <2>4. CASE NewWindow(r, deadline)
    <3>1. /\ elapsed' = 0 /\ injected' = FALSE
          /\ received_in_epoch' = FALSE /\ injected_in_epoch' = FALSE
          /\ publish_media_deadline_route' = r
          /\ silent' = 0 /\ useless' = 0 /\ carried' = FALSE
          /\ promised' = P
      BY <1>4, <2>4, WindowIsNew
    <3>q. QED  BY <2>1, <2>3, <3>1
  <2>5. CASE ~NewWindow(r, deadline)
    <3>1. /\ role # "playing"
          /\ publish_media_deadline_route' = deadline
          /\ UNCHANGED <<elapsed, injected, received_in_epoch, injected_in_epoch,
                         silent, useless, carried>>
          /\ promised' \in {0, promised}
          /\ role = "none" => ~carried
      BY <1>4, <2>5, WindowIsNew
    <3>2. deadline = r  BY <2>5 DEF NewWindow
    <3>q. QED  BY <2>1, <2>3, <3>1, <3>2
  <2>q. QED  BY <2>4, <2>5
<1>5. ASSUME Acts, NEW r, Played(r) PROVE Base'
  <2>1. /\ claimed_publish_route' = None /\ injected' = FALSE /\ role' = "playing"
        /\ paused' = FALSE /\ silent' = 0 /\ promised' = 0
        /\ UNCHANGED <<elapsed, epochVars, received_since_grace, injected_since_grace, sent,
                       useless, granted, carried>>
        /\ pending_publish_auth' \in [route : Route, age : Nat] \cup {None}
    BY <1>5 DEF Played, Acts
  <2>2. CASE role = "playing" /\ name = r
    <3>1. sent_since_grace' = sent_since_grace  BY <1>5, <2>2 DEF Played
    <3>2. fresh' => fresh  BY <1>5, Zenon DEF Played
    <3>q. QED  BY <2>1, <2>2, <3>1, <3>2 DEF epochVars
  <2>3. CASE ~(role = "playing" /\ name = r)
    <3>1. sent_since_grace' = FALSE  BY <1>5, <2>3 DEF Played
    <3>2. ~fresh'  BY <1>5, <2>3, Zenon DEF Played
    <3>q. QED  BY <2>1, <3>1, <3>2 DEF epochVars
  <2>q. QED  BY <2>2, <2>3
<1>6. ASSUME NEW flag \in BOOLEAN, RecvPause(flag) PROVE Base'
  <2>1. /\ UNCHANGED <<role, claimed_publish_route, authVars, epochVars, injected,
                       received_since_grace, injected_since_grace, sent, useless, granted, silent,
                       carried>>
        /\ paused' = flag
    BY <1>6 DEF RecvPause
  <2>2. CASE flag /\ role = "playing" /\ ~paused
    <3>1. ~sent_since_grace'  BY <1>6, <2>2 DEF RecvPause, PauseEarns
    <3>2. elapsed' \in {0, elapsed} /\ promised' \in {S, promised} /\ ~fresh'
      BY <1>6, <2>2 DEF RecvPause
    <3>q. QED  BY <2>1, <2>2, <3>1, <3>2 DEF authVars, epochVars
  <2>3. CASE ~(flag /\ role = "playing" /\ ~paused)
    <3>1. UNCHANGED <<elapsed, sent_since_grace, promised, fresh>>
      BY <1>6, <2>3 DEF RecvPause
    <3>2. role = "playing" /\ sent_since_grace => ~paused'  BY <2>1, <2>3
    <3>q. QED  BY <2>1, <3>1, <3>2 DEF authVars, epochVars
  <2>q. QED  BY <2>2, <2>3
<1>7. CASE RecvMedia
  BY <1>7 DEF RecvMedia, streamVars, authVars
<1>8. CASE Inject
  BY <1>8 DEF Inject, streamVars, authVars
<1>9. CASE Relay
  BY <1>9 DEF Relay, streamVars, authVars, epochVars
<1>10. CASE Poll
  BY <1>10 DEF Poll, streamVars, authVars, epochVars, graceVars, historyVars
<1>11. CASE Clock
  BY <1>11 DEF Clock, streamVars, epochVars, graceVars, UpTo, Aged, Useful, Protected, Holding
<1>q. QED
  BY <1>1, <1>2, <1>3, <1>4, <1>5, <1>6, <1>7, <1>8, <1>9, <1>10, <1>11, StepKinds

-----------------------------------------------------------------------------
(* Who is dropped by the setup timers, and when.                           *)

LEMMA DroppedByPoll ==
    ASSUME Base, [Next]_vars, ~Poll
    PROVE  UNCHANGED vars \/ status' = "open"
<1>1. CASE Acts  BY <1>1 DEF Acts
<1>2. CASE \/ RecvMedia \/ Inject \/ Relay \/ Clock \/ \E flag \in BOOLEAN : RecvPause(flag)
  BY <1>2 DEF RecvMedia, Inject, Relay, Clock, RecvPause, Reads
<1>q. QED  BY <1>1, <1>2, StepKinds

LEMMA PollDrops ==
    ASSUME Poll
    PROVE  /\ status' = "setup" => session_setup_timed_out
           /\ status' = "open" => ~session_setup_timed_out
           /\ polled' = TRUE /\ status = "open"
           /\ UNCHANGED <<elapsed, promised, silent, useless, role, carried, claimed_publish_route,
                          graceVars>>
<1> DEFINE auth == Overdue(pending_publish_auth) \/ Overdue(pending_play_auth)
<1>1. status' = CASE auth -> "auth"
                  [] ~auth /\ session_setup_timed_out -> "setup"
                  [] OTHER -> "open"
  BY DEF Poll
<1> HIDE DEF auth
<1>2. /\ status' = "setup" => session_setup_timed_out
      /\ status' = "open" => ~session_setup_timed_out
  BY <1>1
<1>q. QED  BY <1>2 DEF Poll, historyVars, streamVars

LEMMA LiveStep == Base /\ LivePublisherKept /\ [Next]_vars => LivePublisherKept'
<1> SUFFICES ASSUME Base, LivePublisherKept, [Next]_vars PROVE LivePublisherKept'  OBVIOUS
<1>1. CASE Poll
  <2> SUFFICES ASSUME status' = "setup", role' = "publishing", carried' PROVE FALSE
    BY DEF LivePublisherKept
  <2>1. session_setup_timed_out /\ role = "publishing" /\ carried  BY <1>1, PollDrops
  <2>q. QED  BY <2>1 DEF session_setup_timed_out, publish_media_squat_expired, Base, Counted
<1>2. CASE ~Poll
  <2>1. CASE UNCHANGED vars
    BY <2>1 DEF LivePublisherKept, vars, streamVars, historyVars
  <2>2. CASE status' = "open"
    BY <2>2 DEF LivePublisherKept
  <2>q. QED  BY <1>2, <2>1, <2>2, DroppedByPoll
<1>q. QED  BY <1>1, <1>2

\* What is left of a promised window is left on the timer.
Room == promised > 0 => elapsed + promised <= IF role = "publishing" THEN P ELSE S

LEMMA RoomStep == Base /\ Room /\ [Next]_vars => Room'
<1> SUFFICES ASSUME Base, Room, [Next]_vars PROVE Room'  OBVIOUS
<1> USE SetupAssumption DEF Room, S, P
<1>r. /\ elapsed \in 0 .. S /\ promised \in 0 .. S
      /\ role \in {"none", "publishing", "playing"}
  BY DEF Base, Ranges
<1>1. CASE UNCHANGED vars
  BY <1>1 DEF vars, streamVars, historyVars
<1>2. CASE Acts /\ Quiet
  BY <1>2 DEF Quiet
<1>3. CASE Acts /\ Teardown
  <2>1. CASE Active /\ fresh
    <3>1. EarnsGrace  BY <2>1 DEF Base, Counted
    <3>q. QED  BY <1>3, <2>1, <3>1 DEF Teardown
  <2>2. CASE ~(Active /\ fresh)
    <3>1. role' = "none" /\ promised' = promised /\ elapsed' \in {0, elapsed}
      BY <1>3, <2>2 DEF Teardown
    <3>2. promised > 0 => elapsed + promised <= S  BY <1>r
    <3>3. CASE elapsed' = 0  BY <3>1, <3>2, <3>3, <1>r
    <3>4. CASE elapsed' = elapsed  BY <3>1, <3>2, <3>4, <1>r
    <3>q. QED  BY <3>1, <3>3, <3>4
  <2>q. QED  BY <2>1, <2>2
<1>4. ASSUME Acts, NEW r \in Route, NEW deadline \in {None, publish_media_deadline_route},
             Published(r, deadline)
      PROVE  Room'
  <2>1. \/ elapsed' = 0 /\ promised' = P
        \/ /\ elapsed' = elapsed /\ promised' \in {0, promised}
           /\ role = "publishing" \/ promised' = 0
    BY <1>4, WindowIsNew
  <2>2. role' = "publishing"  BY <1>4 DEF Published
  <2>q. QED  BY <2>1, <2>2, <1>r
<1>5. ASSUME Acts, NEW r, Played(r) PROVE Room'
  BY <1>5 DEF Played
<1>6. ASSUME NEW flag \in BOOLEAN, RecvPause(flag) PROVE Room'
  <2>1. CASE flag /\ role = "playing" /\ ~paused /\ fresh
    <3>1. sent_since_grace  BY <2>1 DEF Base, Counted
    <3>2. elapsed' = 0 /\ promised' = S /\ role' = role
      BY <1>6, <2>1, <3>1 DEF RecvPause, PauseEarns
    <3>q. QED  BY <3>2, <2>1, <1>r
  <2>2. CASE ~(flag /\ role = "playing" /\ ~paused /\ fresh)
    <3>1. promised' = promised /\ role' = role /\ elapsed' \in {0, elapsed}
      BY <1>6, <2>2 DEF RecvPause
    <3>2. CASE elapsed' = 0  BY <3>1, <3>2, <1>r
    <3>3. CASE elapsed' = elapsed  BY <3>1, <3>3, <1>r
    <3>q. QED  BY <3>1, <3>2, <3>3
  <2>q. QED  BY <2>1, <2>2
<1>7. CASE RecvMedia \/ Inject \/ Relay
  BY <1>7 DEF RecvMedia, Inject, Relay, streamVars
<1>8. CASE Poll
  BY <1>8, PollDrops
<1>9. CASE Clock
  <2>1. /\ elapsed' = (IF elapsed < S THEN elapsed + 1 ELSE elapsed)
        /\ promised' = (IF promised > 0 THEN promised - 1 ELSE 0) /\ role' = role
    BY <1>9 DEF Clock, UpTo, streamVars
  <2>q. QED  BY <2>1, <1>r
<1>q. QED
  BY <1>1, <1>2, <1>3, <1>4, <1>5, <1>6, <1>7, <1>8, <1>9, StepKinds

LEMMA PromiseStep == Base /\ Room /\ PromiseKept /\ [Next]_vars => PromiseKept'
<1> SUFFICES ASSUME Base, Room, PromiseKept, [Next]_vars PROVE PromiseKept'  OBVIOUS
<1>1. CASE Poll
  <2> SUFFICES ASSUME status' = "setup", promised # 0 PROVE FALSE
    BY <1>1, PollDrops DEF PromiseKept
  <2>1. session_setup_timed_out  BY <1>1, PollDrops
  <2>2. /\ elapsed \in 0 .. S /\ promised \in 0 .. S
        /\ role \in {"none", "publishing", "playing"}
    BY DEF Base, Ranges
  <2>3. CASE role = "publishing"
    <3>1. elapsed >= P  BY <2>1, <2>3 DEF session_setup_timed_out, publish_media_squat_expired, P
    <3>q. QED  BY <3>1, <2>2, <2>3, SetupAssumption DEF Room, S, P
  <2>4. CASE role # "publishing"
    <3>1. claimed_publish_route = None
      BY <2>1, <2>2, <2>4
         DEF session_setup_timed_out, publish_media_squat_expired, Base, Roles
    <3>2. elapsed >= S  BY <2>1, <2>4, <3>1 DEF session_setup_timed_out, S
    <3>q. QED  BY <3>2, <2>2, <2>4, SetupAssumption DEF Room, S, P
  <2>q. QED  BY <2>3, <2>4
<1>2. CASE ~Poll
  <2>1. CASE UNCHANGED vars
    BY <2>1 DEF PromiseKept, vars, historyVars
  <2>2. CASE status' = "open"
    BY <2>2 DEF PromiseKept
  <2>q. QED  BY <1>2, <2>1, <2>2, DroppedByPoll
<1>q. QED  BY <1>1, <1>2

-----------------------------------------------------------------------------
(* How long a route is held without media.  The time held never runs ahead *)
(* of the timer by a whole window, and not at all while a grace can still  *)
(* be earned, which is what sets the timer back.  A poll that is due may   *)
(* find one step more.                                                     *)

SilentDue == ~polled /\ Holding /\ ~has_pending_authorization /\ ~carried /\ elapsed >= P

Silence ==
    status = "open" =>
      /\ EarnsGrace => silent <= elapsed
      /\ silent <= elapsed + P - 1
      /\ \/ silent <= 2 * P - 2 /\ (EarnsGrace => silent <= P - 1)
         \/ silent <= 2 * P - 1 /\ SilentDue

LEMMA SilenceClock == Base /\ Silence /\ Clock => Silence'
<1> SUFFICES ASSUME Base, Silence, Clock PROVE Silence'  OBVIOUS
<1> DEFINE due == Holding /\ ~has_pending_authorization /\ ~carried
<1> USE SetupAssumption DEF S, P
<1>1. /\ elapsed \in 0 .. S /\ silent \in Nat
      /\ elapsed' = (IF elapsed < S THEN elapsed + 1 ELSE elapsed)
      /\ EarnsGrace' = EarnsGrace
  BY DEF Base, Ranges, Clock, UpTo, graceVars, EarnsGrace
<1>2. /\ EarnsGrace => silent <= elapsed
      /\ silent <= elapsed + P - 1
      /\ silent <= 2 * P - 2 /\ (EarnsGrace => silent <= P - 1)
  BY DEF Clock, Silence, SilentDue
<1>3. CASE due
  <2>1. silent' = silent + 1  BY <1>1, <1>2, <1>3 DEF Clock, UpTo
  <2>2. /\ ~polled' /\ Holding' /\ ~has_pending_authorization' /\ ~carried'
    BY <1>3 DEF Clock, streamVars, Holding, has_pending_authorization, Aged
  <2>4. (EarnsGrace => silent' <= elapsed') /\ silent' <= elapsed' + P - 1
    BY <1>1, <1>2, <2>1
  <2>5. CASE elapsed' >= P
    <3>1. silent' <= 2 * P - 1  BY <1>1, <1>2, <2>1
    <3>2. SilentDue'  BY <2>2, <2>5 DEF SilentDue
    <3>q. QED  BY <3>1, <3>2, <2>4, <1>1 DEF Silence
  <2>6. CASE ~(elapsed' >= P)
    <3>1. silent' <= 2 * P - 2 /\ (EarnsGrace => silent' <= P - 1)
      BY <1>1, <1>2, <2>1, <2>4, <2>6
    <3>q. QED  BY <3>1, <2>4, <1>1 DEF Silence
  <2>q. QED  BY <2>5, <2>6
<1>4. CASE ~due
  <2>1. silent' = silent  BY <1>4 DEF Clock
  <2>q. QED  BY <1>1, <1>2, <2>1 DEF Silence
<1>q. QED  BY <1>3, <1>4

LEMMA SilenceStep == Base /\ Silence /\ [Next]_vars => Silence'
<1> SUFFICES ASSUME Base, Silence, [Next]_vars PROVE Silence'  OBVIOUS
<1> USE SetupAssumption DEF S, P
<1>r. elapsed \in 0 .. S /\ silent \in Nat  BY DEF Base, Ranges
\* Between a clock step and its poll nothing happens that a due route would see.
<1>w. ASSUME status = "open", polled \/ has_pending_authorization
      PROVE  /\ EarnsGrace => silent <= elapsed
             /\ silent <= elapsed + P - 1
             /\ silent <= 2 * P - 2 /\ (EarnsGrace => silent <= P - 1)
  BY <1>w DEF Silence, SilentDue
<1>z. ASSUME silent' = 0, elapsed' \in Nat PROVE Silence'
  <2>0. P \in Nat /\ P >= 1  OBVIOUS
  <2>1. \A n \in Nat : 0 <= n /\ 0 <= n + P - 1  BY <2>0
  <2>2. silent' <= P - 1
    BY <2>0, <1>z
  <2>3. silent' <= 2 * P - 2
    BY <2>0, <1>z
  <2>q. QED  BY <2>1, <2>2, <2>3, <1>z DEF Silence
<1>1. CASE UNCHANGED vars
  <2>1. /\ Silence' <=> Silence
    BY <1>1 DEF Silence, SilentDue, EarnsGrace, Holding, has_pending_authorization, vars,
                streamVars, authVars, graceVars, historyVars
  <2>q. QED  BY <2>1
<1>2. CASE Acts /\ Quiet
  <2>1. /\ UNCHANGED <<silent, elapsed>> /\ EarnsGrace' = EarnsGrace
    BY <1>2 DEF Quiet, EarnsGrace, graceVars
  <2>q. QED  BY <2>1, <1>2, <1>w DEF Acts, Silence
<1>3. CASE Acts /\ Teardown
  <2>1. CASE Active /\ EarnsGrace
    <3>1. silent' = silent /\ elapsed' = 0 /\ ~EarnsGrace'
      BY <1>3, <2>1 DEF Teardown, EarnsGrace
    <3>2. silent <= P - 1  BY <1>3, <2>1, <1>w DEF Acts
    <3>q. QED  BY <3>1, <3>2, <1>r DEF Silence
  <2>2. CASE ~(Active /\ EarnsGrace)
    <3>1. UNCHANGED <<silent, elapsed>> /\ EarnsGrace' = EarnsGrace
      BY <1>3, <2>2 DEF Teardown, EarnsGrace, graceVars
    <3>q. QED  BY <3>1, <1>3, <1>w DEF Acts, Silence
  <2>q. QED  BY <2>1, <2>2
<1>4. ASSUME Acts, NEW r \in Route, NEW deadline \in {None, publish_media_deadline_route},
             Published(r, deadline)
      PROVE  Silence'
  <2>1. CASE NewWindow(r, deadline)
    <3>1. silent' = 0 /\ elapsed' = 0  BY <1>4, <2>1, WindowIsNew
    <3>q. QED  BY <3>1, <1>z
  <2>2. CASE ~NewWindow(r, deadline)
    <3>1. UNCHANGED <<silent, elapsed>>  BY <1>4, <2>2, WindowIsNew
    <3>2. EarnsGrace' = EarnsGrace  BY <1>4 DEF Published, EarnsGrace, graceVars
    <3>q. QED  BY <3>1, <3>2, <1>4, <1>w DEF Acts, Silence
  <2>q. QED  BY <2>1, <2>2
<1>5. ASSUME Acts, NEW r, Played(r) PROVE Silence'
  <2>1. silent' = 0 /\ elapsed' = elapsed  BY <1>5 DEF Played
  <2>q. QED  BY <2>1, <1>r, <1>z
<1>6. ASSUME NEW flag \in BOOLEAN, RecvPause(flag) PROVE Silence'
  <2>1. CASE flag /\ role = "playing" /\ ~paused /\ PauseEarns
    <3>1. silent' = 0 /\ elapsed' = 0  BY <1>6, <2>1 DEF RecvPause, Base, Roles
    <3>q. QED  BY <3>1, <1>z
  <2>2. CASE ~(flag /\ role = "playing" /\ ~paused /\ PauseEarns)
    <3>1. UNCHANGED <<silent, elapsed>> /\ EarnsGrace' = EarnsGrace
      BY <1>6, <2>2 DEF RecvPause, EarnsGrace
    <3>q. QED  BY <3>1, <1>6, <1>w DEF RecvPause, Reads, Silence
  <2>q. QED  BY <2>1, <2>2
<1>7. CASE RecvMedia \/ Inject \/ Relay
  <2>1. silent' = 0 /\ elapsed' = elapsed
    BY <1>7 DEF RecvMedia, Inject, Relay, Base, Roles
  <2>q. QED  BY <2>1, <1>r, <1>z
<1>8. CASE Poll
  <2>1. /\ UNCHANGED <<silent, elapsed>> /\ EarnsGrace' = EarnsGrace /\ status = "open"
    BY <1>8, PollDrops DEF EarnsGrace, graceVars
  <2>2. CASE SilentDue
    <3>1. session_setup_timed_out
      BY <2>2 DEF SilentDue, session_setup_timed_out, publish_media_squat_expired, Holding,
                  Base, Counted, MediaFlowed
    <3>2. status' # "open"  BY <3>1, <1>8, PollDrops
    <3>q. QED  BY <3>2 DEF Silence
  <2>3. CASE ~SilentDue
    BY <2>1, <2>3 DEF Silence
  <2>q. QED  BY <2>2, <2>3
<1>9. CASE Clock
  BY <1>9, SilenceClock
<1>q. QED
  BY <1>1, <1>2, <1>3, <1>4, <1>5, <1>6, <1>7, <1>8, <1>9, StepKinds

-----------------------------------------------------------------------------
(* How long a connection of no use keeps its slot: the same argument, with *)
(* the setup window for the media window.                                  *)

UselessDue == ~polled /\ ~Useful /\ elapsed >= S

Idleness ==
    status = "open" =>
      /\ EarnsGrace => useless <= elapsed
      /\ useless <= elapsed + S - 1
      /\ \/ useless <= 2 * S - 2 /\ (EarnsGrace => useless <= S - 1)
         \/ useless <= 2 * S - 1 /\ UselessDue

LEMMA IdlenessClock == Base /\ Idleness /\ Clock => Idleness'
<1> SUFFICES ASSUME Base, Idleness, Clock PROVE Idleness'  OBVIOUS
<1> DEFINE due == ~Useful
<1> USE SetupAssumption DEF S
<1>1. /\ elapsed \in 0 .. S /\ useless \in Nat
      /\ elapsed' = (IF elapsed < S THEN elapsed + 1 ELSE elapsed)
      /\ EarnsGrace' = EarnsGrace
  BY DEF Base, Ranges, Clock, UpTo, graceVars, EarnsGrace
<1>2. /\ EarnsGrace => useless <= elapsed
      /\ useless <= elapsed + S - 1
      /\ useless <= 2 * S - 2 /\ (EarnsGrace => useless <= S - 1)
  BY DEF Clock, Idleness, UselessDue
<1>3. CASE due
  <2>1. useless' = useless + 1  BY <1>1, <1>2, <1>3 DEF Clock, UpTo
  <2>2. ~polled' /\ ~Useful'
    BY <1>3 DEF Clock, streamVars, Useful, Holding, Protected, has_pending_authorization, Aged
  <2>4. (EarnsGrace => useless' <= elapsed') /\ useless' <= elapsed' + S - 1
    BY <1>1, <1>2, <2>1
  <2>5. CASE elapsed' >= S
    <3>1. useless' <= 2 * S - 1  BY <1>1, <1>2, <2>1
    <3>2. UselessDue'  BY <2>2, <2>5 DEF UselessDue
    <3>q. QED  BY <3>1, <3>2, <2>4, <1>1 DEF Idleness
  <2>6. CASE ~(elapsed' >= S)
    <3>1. useless' <= 2 * S - 2 /\ (EarnsGrace => useless' <= S - 1)
      BY <1>1, <1>2, <2>1, <2>4, <2>6
    <3>q. QED  BY <3>1, <2>4, <1>1 DEF Idleness
  <2>q. QED  BY <2>5, <2>6
<1>4. CASE ~due
  <2>1. useless' = 0 /\ elapsed' \in Nat  BY <1>1, <1>4 DEF Clock
  <2>2. /\ 0 <= S - 1 /\ 0 <= 2 * S - 2
        /\ \A n \in Nat : 0 <= n /\ 0 <= n + S - 1
    OBVIOUS
  <2>q. QED  BY <2>1, <2>2 DEF Idleness
<1>q. QED  BY <1>3, <1>4

LEMMA IdlenessStep == Base /\ Idleness /\ [Next]_vars => Idleness'
<1> SUFFICES ASSUME Base, Idleness, [Next]_vars PROVE Idleness'  OBVIOUS
<1> USE SetupAssumption DEF S
<1>r. elapsed \in 0 .. S /\ useless \in Nat  BY DEF Base, Ranges
\* Between a clock step and its poll nothing happens that a connection of no use would see.
<1>w. ASSUME status = "open", polled \/ has_pending_authorization
      PROVE  /\ EarnsGrace => useless <= elapsed
             /\ useless <= elapsed + S - 1
             /\ useless <= 2 * S - 2 /\ (EarnsGrace => useless <= S - 1)
  BY <1>w DEF Idleness, UselessDue, Useful
<1>z. ASSUME useless' = 0, elapsed' \in Nat PROVE Idleness'
  <2>0. S \in Nat /\ S >= 1  OBVIOUS
  <2>1. \A n \in Nat : 0 <= n /\ 0 <= n + S - 1  BY <2>0
  <2>2. useless' <= S - 1
    BY <2>0, <1>z
  <2>3. useless' <= 2 * S - 2
    BY <2>0, <1>z
  <2>q. QED  BY <2>1, <2>2, <2>3, <1>z DEF Idleness
<1>1. CASE UNCHANGED vars
  <2>1. /\ Idleness' <=> Idleness
    BY <1>1 DEF Idleness, UselessDue, EarnsGrace, Useful, Protected, Holding, has_pending_authorization, vars,
                streamVars, authVars, graceVars, historyVars
  <2>q. QED  BY <2>1
<1>2. CASE Acts /\ Quiet
  <2>1. /\ UNCHANGED <<useless, elapsed>> /\ EarnsGrace' = EarnsGrace
    BY <1>2 DEF Quiet, EarnsGrace, graceVars
  <2>q. QED  BY <2>1, <1>2, <1>w DEF Acts, Idleness
<1>3. CASE Acts /\ Teardown
  <2>1. CASE Active /\ EarnsGrace
    <3>1. useless' = useless /\ elapsed' = 0 /\ ~EarnsGrace'
      BY <1>3, <2>1 DEF Teardown, EarnsGrace
    <3>2. useless <= S - 1  BY <1>3, <2>1, <1>w DEF Acts
    <3>q. QED  BY <3>1, <3>2, <1>r DEF Idleness
  <2>2. CASE ~(Active /\ EarnsGrace)
    <3>1. UNCHANGED <<useless, elapsed>> /\ EarnsGrace' = EarnsGrace
      BY <1>3, <2>2 DEF Teardown, EarnsGrace, graceVars
    <3>q. QED  BY <3>1, <1>3, <1>w DEF Acts, Idleness
  <2>q. QED  BY <2>1, <2>2
<1>4. ASSUME Acts, NEW r \in Route, NEW deadline \in {None, publish_media_deadline_route},
             Published(r, deadline)
      PROVE  Idleness'
  <2>1. CASE NewWindow(r, deadline)
    <3>1. useless' = 0 /\ elapsed' = 0  BY <1>4, <2>1, WindowIsNew
    <3>q. QED  BY <3>1, <1>z
  <2>2. CASE ~NewWindow(r, deadline)
    <3>1. UNCHANGED <<useless, elapsed>>  BY <1>4, <2>2, WindowIsNew
    <3>2. EarnsGrace' = EarnsGrace  BY <1>4 DEF Published, EarnsGrace, graceVars
    <3>q. QED  BY <3>1, <3>2, <1>4, <1>w DEF Acts, Idleness
  <2>q. QED  BY <2>1, <2>2
<1>5. ASSUME Acts, NEW r, Played(r) PROVE Idleness'
  <2>1. UNCHANGED <<useless, elapsed>> /\ (EarnsGrace' => EarnsGrace)
    BY <1>5 DEF Played, EarnsGrace
  <2>q. QED  BY <2>1, <1>5, <1>w DEF Acts, Idleness
<1>6. ASSUME NEW flag \in BOOLEAN, RecvPause(flag) PROVE Idleness'
  <2>1. CASE flag /\ role = "playing" /\ ~paused /\ PauseEarns
    <3>1. useless' = 0 /\ elapsed' = 0  BY <1>6, <2>1 DEF RecvPause, PauseEarns, Base, Roles
    <3>q. QED  BY <3>1, <1>z
  <2>2. CASE ~(flag /\ role = "playing" /\ ~paused /\ PauseEarns)
    <3>1. UNCHANGED <<useless, elapsed>> /\ EarnsGrace' = EarnsGrace
      BY <1>6, <2>2 DEF RecvPause, EarnsGrace
    <3>q. QED  BY <3>1, <1>6, <1>w DEF RecvPause, Reads, Idleness
  <2>q. QED  BY <2>1, <2>2
<1>7. CASE RecvMedia \/ Inject \/ Relay
  <2>1. useless' = 0 /\ elapsed' = elapsed
    BY <1>7 DEF RecvMedia, Inject, Relay, Base, Roles
  <2>q. QED  BY <2>1, <1>r, <1>z
<1>8. CASE Poll
  <2>1. /\ UNCHANGED <<useless, elapsed>> /\ EarnsGrace' = EarnsGrace /\ status = "open"
    BY <1>8, PollDrops DEF EarnsGrace, graceVars
  <2>2. CASE UselessDue
    <3>1. session_setup_timed_out
      BY <2>2, <1>r DEF UselessDue, session_setup_timed_out, publish_media_squat_expired, Useful,
                        Holding, P, Base, Counted, MediaFlowed
    <3>2. status' # "open"  BY <3>1, <1>8, PollDrops
    <3>q. QED  BY <3>2 DEF Idleness
  <2>3. CASE ~UselessDue
    BY <2>1, <2>3 DEF Idleness
  <2>q. QED  BY <2>2, <2>3
<1>9. CASE Clock
  BY <1>9, IdlenessClock
<1>q. QED
  BY <1>1, <1>2, <1>3, <1>4, <1>5, <1>6, <1>7, <1>8, <1>9, StepKinds

-----------------------------------------------------------------------------
(* The theorems.                                                           *)

\* A publisher whose publish has carried media is never dropped by recv_and_reap_connections'
\* setup timers: complete_publish_authorized's epoch snapshots never hide media already sent.
THEOREM LivePublisherNotDropped == Spec => []LivePublisherKept
<1>1. Init => LivePublisherKept  BY DEF Init, LivePublisherKept
<1>q. QED  BY <1>1, BaseInit, BaseStep, LiveStep, PTL DEF Spec

\* A window that media earned is never cut short: session_setup_timed_out is only true once
\* the teardown's or pause's setup window, or the new publish's media window, has passed.
THEOREM WindowsGrantedInFull == Spec => []PromiseKept
<1>1. Init => Room /\ PromiseKept  BY DEF Init, Room, PromiseKept
<1>q. QED  BY <1>1, BaseInit, BaseStep, RoomStep, PromiseStep, PTL DEF Spec

\* The setup timers of session_setup_timed_out drop nobody who is of use or was promised time.
THEOREM SetupDropsForCause == Spec => []DroppedForCause
<1>1. LivePublisherKept /\ PromiseKept => DroppedForCause  BY DEF DroppedForCause
<1>q. QED  BY <1>1, LivePublisherNotDropped, WindowsGrantedInFull, PTL

\* However a publisher cycles publish, unpublish, createStream and pending authorizations,
\* session_setup_timed_out ends a route held without media within two media windows.
THEOREM SilentPublishersEnd == Spec => []SilentPublisherDropped
<1>1. Init => Silence
  <2>1. P \in Nat /\ P >= 1  BY SetupAssumption DEF P
  <2>q. QED  BY <2>1 DEF Init, Silence, EarnsGrace
<1>2. Base /\ Silence => SilentPublisherDropped
  BY SetupAssumption DEF Base, Ranges, Silence, SilentPublisherDropped, P
<1>q. QED  BY <1>1, <1>2, BaseInit, BaseStep, SilenceStep, PTL DEF Spec

\* A connection that moves no media, waits for no decision and opens no new publish is closed
\* within two setup windows, whatever sequence of commands it sends.
THEOREM UselessConnectionsEnd == Spec => []UselessDropped
<1>1. Init => Idleness
  <2>1. S \in Nat /\ S >= 1  BY SetupAssumption DEF S
  <2>q. QED  BY <2>1 DEF Init, Idleness, EarnsGrace
<1>2. Base /\ Idleness => UselessDropped
  BY SetupAssumption DEF Base, Ranges, Idleness, UselessDropped, S
<1>q. QED  BY <1>1, <1>2, BaseInit, BaseStep, IdlenessStep, PTL DEF Spec
=============================================================================
