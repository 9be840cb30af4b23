------------------------------ MODULE PollLoop ------------------------------
(***************************************************************************)
(* The polling loop the page's live parts share: a request whose answer    *)
(* arms a timer whose expiry sends the next request, silent while the      *)
(* browser tab is hidden.  dqm-brpc.js has it as the class AutoUpdater,    *)
(* one object per histogram tile; dqm-scope.js has it as poll() and        *)
(* rearm().  They differ in how they are paused: see AutoUpdater and       *)
(* ScopePoll.                                                              *)
(*                                                                         *)
(* JavaScript runs one callback at a time, so each callback is one action. *)
(* Delays are abstracted: a pending timer fires sooner or later.  Nothing  *)
(* in the code keeps one loop to one request, so timers and requests are   *)
(* counted.                                                                *)
(***************************************************************************)
EXTENDS Integers

CONSTANT MaxChains   \* Bound: timers and requests of one loop, together.

VARIABLES
  running,   \* the loop is not paused
  hidden,    \* document.hidden
  timers,    \* timeouts that are pending
  handle,    \* the loop's reference to the timeout it armed last is not null
  inflight   \* requests that are awaited

vars == <<running, hidden, timers, handle, inflight>>

Chains == timers + inflight

\* Slip: the reference is dropped only by a tick that sends a request.
TickKeepsHandle(pending) ==
  /\ timers' = pending
  /\ IF running' /\ ~ hidden'
       THEN handle' = FALSE /\ inflight' = inflight + 1
       ELSE UNCHANGED <<handle, inflight>>

\* Slip: a request is sent whether or not the loop should be silent.
TickAlways(pending) ==
  /\ timers' = pending
  /\ handle' = FALSE
  /\ inflight' = inflight + 1

\* Slip: the next timeout is armed when a request is sent, too.
TickArmsToo(pending) ==
  /\ handle' = (running' /\ ~ hidden')
  /\ timers' = IF handle' THEN pending + 1 ELSE pending
  /\ inflight' = IF handle' THEN inflight + 1 ELSE inflight

\* _tick() and poll(): forget the timeout, then send a request if the loop runs
\* and the tab is visible.  `pending` is what is left of the timeouts.
Tick(pending) ==
  /\ timers' = pending
  /\ handle' = FALSE
  /\ inflight' = IF running' /\ ~ hidden' THEN inflight + 1 ELSE inflight

\* A pending timeout expires.
Fire ==
  /\ timers > 0
  /\ UNCHANGED <<running, hidden>>
  /\ Tick(timers - 1)

\* Slip: a request that failed arms nothing.
RearmOnSuccess ==
  /\ inflight > 0
  /\ inflight' = inflight - 1
  /\ \/ running /\ timers' = timers + 1 /\ handle' = TRUE
     \/ UNCHANGED <<timers, handle>>
  /\ UNCHANGED <<running, hidden>>

\* A request is answered or fails; either arms the next one, after a longer
\* delay when it failed.
Answer ==
  /\ inflight > 0
  /\ inflight' = inflight - 1
  /\ IF running
       THEN timers' = timers + 1 /\ handle' = TRUE
       ELSE UNCHANGED <<timers, handle>>
  /\ UNCHANGED <<running, hidden>>

\* visibilitychange to hidden: nothing is called.
Hide ==
  /\ ~ hidden
  /\ hidden' = TRUE
  /\ UNCHANGED <<running, timers, handle, inflight>>

\* visibilitychange to visible: tick unless a timeout is pending.
Show ==
  /\ hidden /\ Chains < MaxChains
  /\ hidden' = FALSE
  /\ UNCHANGED running
  /\ IF running /\ ~ handle
       THEN Tick(timers)
       ELSE UNCHANGED <<timers, handle, inflight>>

Loop == Fire \/ Answer \/ Hide \/ Show

\* Timeouts expire, and requests are answered or fail.
LoopFairness == WF_vars(Fire) /\ WF_vars(Answer)

-----------------------------------------------------------------------------
\* Every variable keeps its range, and the reference is never to a timeout that
\* has already expired: otherwise a tab coming back would wait for a timeout
\* that never comes.
TypeOK ==
  /\ running \in BOOLEAN /\ hidden \in BOOLEAN /\ handle \in BOOLEAN
  /\ timers \in Nat /\ inflight \in Nat
  /\ handle => timers > 0

\* A loop that runs in a visible tab always has a request under way or a
\* timeout that will send one: no order of pausing, resuming, hiding, showing
\* and slow answers stalls a plot.
NeverStalls == running /\ ~ hidden => Chains > 0

\* The same as what a shifter sees: a loop left running in a visible tab asks
\* for data again and again.
KeepsAsking == <>[](running /\ ~ hidden) => []<><<inflight' > inflight>>_vars

\* "A hidden tab must not go on pulling events out of a shared buffer", nor a
\* paused loop: after the answers under way have come, nothing is asked for.
FallsSilent == <>[](hidden \/ ~ running) => <>[](inflight = 0)

\* dqm-brpc.js:211: "One request in flight at a time".
OneInFlight == inflight <= 1
=============================================================================
